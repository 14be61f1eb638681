--------------------------- MODULE RequestsProofs ---------------------------
(***************************************************************************)
(* Proofs about FileTransfer, CsvBatches and HttpService, as MCRequests    *)
(* runs them: for files of any size, any window of the stream, any batch   *)
(* size, and any clients, controllers, hooks and messages.                 *)
(***************************************************************************)
EXTENDS MCRequests, FiniteSetTheorems, SequenceTheorems, WellFoundedInduction, TLAPS

-----------------------------------------------------------------------------
(* FileTransfer.                                                           *)

Tokens == {"begin", "other", "chunk", "end"}
SenderRecord ==
  [pc : {"open", "begin", "chunks", "flush", "end", "wait", "done"}, sent : Nat,
   stuck : BOOLEAN, handler : {"ok", "error"}, reported : BOOLEAN,
   result : {"none", "ok", "error"}]
ReceiverRecord ==
  [pc : {"begin", "create", "chunks", "respond", "done"}, got : Nat,
   result : {"none", "ok", "error"}]

TransferTypes ==
  /\ transfer \in [client : {"sender", "receiver"}, kind : {"file", "csv", "foreign"},
                   respond : BOOLEAN, size : Nat]
  /\ inbox \in [{"sender", "receiver"} -> Seq(Tokens)]
  /\ closed \in BOOLEAN /\ broken \in BOOLEAN
  /\ sender \in SenderRecord /\ receiver \in ReceiverRecord
  /\ sender.result = "none" <=> sender.pc # "done"
  /\ receiver.result = "none" <=> receiver.pc # "done"

(* What is on the way to a receiver that still reads: a first message, the *)
(* chunks and, at the end, the mark.                                       *)
In == inbox["receiver"]
Lead == IF receiver.pc = "begin" /\ In # <<>> THEN 1 ELSE 0
Ended == In # <<>> /\ In[Len(In)] = "end"
Chunks == Len(In) - Lead - (IF Ended THEN 1 ELSE 0)

(* n chunks are all that the receiver of a whole file has.                 *)
Whole(n) ==
  \/ transfer.kind # "foreign" /\ n = transfer.size
  \/ transfer.kind = "foreign" /\ n = sender.sent
  \/ transfer.kind = "csv" /\ sender.handler = "error"

Reads == receiver.pc # "done"
Live == ~broken /\ Reads

(* What only a CsvWriter does.                                             *)
KindInv ==
  /\ sender.pc = "begin" => transfer.kind = "file"
  /\ sender.pc \in {"flush", "end"} => transfer.kind = "csv"
  /\ transfer.kind # "csv" => sender.handler = "ok" /\ ~sender.stuck /\ ~sender.reported
  /\ sender.pc = "end" => sender.stuck \/ sender.sent = transfer.size \/ sender.handler = "error"
  /\ transfer.kind = "csv" /\ sender.pc = "done" => sender.result = sender.handler \/ sender.result = "error"

(* What is on the way is in order, and the mark comes after the last chunk.*)
OrderInv ==
  Reads =>
    /\ \A i \in 1..Len(In) :
         /\ i <= Lead => In[i] \in {"begin", "other"}
         /\ i > Lead => In[i] \in {"chunk", "end"}
    /\ \A i \in 1..Len(In) : i < Len(In) => In[i] # "end"
    /\ Ended => /\ sender.pc \in {"wait", "done"} /\ transfer.kind # "foreign"
                /\ Whole(receiver.got + Chunks)

(* Nothing is lost as long as the connection holds and the receiver reads. *)
CountInv ==
  Live =>
    /\ sender.sent = receiver.got + Chunks
    /\ sender.pc \in {"open", "begin"} => In = <<>> /\ receiver.pc = "begin"
    /\ sender.pc \in {"chunks", "flush", "end", "wait"} /\ receiver.pc = "begin" => In # <<>>
    /\ ~sender.stuck /\ ~sender.reported

(* What each side may conclude from what it is told.                       *)
ToldInv ==
  /\ receiver.pc = "respond" \/ receiver.result = "ok" =>
       sender.pc \in {"wait", "done"} /\ Whole(receiver.got)
  /\ inbox["sender"] # <<>> => receiver.result = "ok"
  /\ \A i \in 1..Len(inbox["sender"]) : inbox["sender"][i] = "begin"
  /\ closed => transfer.client = "sender" /\ (transfer.kind = "foreign" \/ ~Reads)
               /\ sender.pc \in {"wait", "done"}
  /\ sender.result = "ok" /\ transfer.kind # "foreign" /\ ~sender.reported =>
       receiver.result = "ok" /\ sender.handler = "ok"

(* A client that sends waits until the server has read all.                *)
WaitInv ==
  transfer.client = "sender" =>
    /\ Live /\ (Ended \/ closed \/ receiver.pc = "respond") => sender.pc = "wait"
    /\ ~broken /\ receiver.result = "ok" =>
         /\ ~sender.reported
         /\ sender.pc = "wait" \/ (sender.pc = "done" /\ sender.result = sender.handler)

TransferInv ==
  /\ TransferTypes /\ KindInv /\ OrderInv /\ CountInv /\ ToldInv /\ WaitInv

-----------------------------------------------------------------------------
(* The stream.                                                             *)

LEMMA ChunksIsInt ==
  ASSUME TransferTypes  PROVE Len(In) \in Nat /\ Lead \in {0, 1} /\ Chunks \in Int
<1>1. Len(In) \in Nat /\ Lead \in {0, 1}
  BY DEF In, Lead, TransferTypes
<1>2. (IF Ended THEN 1 ELSE 0) \in {0, 1}
  OBVIOUS
<1>. QED  BY <1>1, <1>2 DEF Chunks

LEMMA Sending ==
  ASSUME TransferTypes, NEW msg \in Tokens, NEW o \in Transfer!SendOutcomes("sender", msg)
  PROVE  /\ o.inbox \in [{"sender", "receiver"} -> Seq(Tokens)]
         /\ o.inbox["sender"] = inbox["sender"]
         /\ \/ ~Live /\ o.inbox = inbox
            \/ Live /\ o.ok /\ o.inbox["receiver"] = Append(In, msg)
<1>1. CASE broken \/ receiver.pc = "done"
  BY <1>1 DEF Transfer!SendOutcomes, Transfer!Over, Transfer!Peer, Transfer!Side, Live, Reads, TransferTypes
<1>2. CASE ~broken /\ receiver.pc # "done"
  <2>1. o.ok = TRUE /\ o.inbox = [inbox EXCEPT !["receiver"] = Append(@, msg)]
    BY <1>2 DEF Transfer!SendOutcomes, Transfer!Over, Transfer!Peer, Transfer!Side
  <2>. QED  BY <1>2, <2>1 DEF Live, Reads, In, TransferTypes
<1>. QED  BY <1>1, <1>2

LEMMA Answering ==
  ASSUME TransferTypes, NEW o \in Transfer!SendOutcomes("receiver", "begin")
  PROVE  /\ o.inbox \in [{"sender", "receiver"} -> Seq(Tokens)]
         /\ o.inbox["receiver"] = In
         /\ \/ broken \/ sender.pc = "done"
            \/ o.ok
         /\ \/ o.inbox = inbox
            \/ o.ok /\ o.inbox["sender"] = Append(inbox["sender"], "begin")
<1>1. CASE broken \/ sender.pc = "done"
  BY <1>1 DEF Transfer!SendOutcomes, Transfer!Over, Transfer!Peer, Transfer!Side, In, TransferTypes
<1>2. CASE ~broken /\ sender.pc # "done"
  <2>1. o.ok = TRUE /\ o.inbox = [inbox EXCEPT !["sender"] = Append(@, "begin")]
    BY <1>2 DEF Transfer!SendOutcomes, Transfer!Over, Transfer!Peer, Transfer!Side
  <2>. QED  BY <1>2, <2>1 DEF In, TransferTypes, Tokens
<1>. QED  BY <1>1, <1>2

(* What ReadFile gets.                                                     *)
LEMMA Reading ==
  ASSUME TransferTypes, NEW msg \in Transfer!RecvOutcomes("receiver")
  PROVE  \/ msg \in Tokens /\ In # <<>> /\ msg = Head(In)
            /\ Transfer!Left("receiver", msg) = [inbox EXCEPT !["receiver"] = Tail(In)]
         \/ msg = "error" /\ Transfer!Left("receiver", msg) = inbox
         \/ msg = "EOF" /\ Transfer!Left("receiver", msg) = inbox /\ In = <<>> /\ ~broken
            /\ \/ transfer.client = "receiver" /\ sender.pc = "done" /\ sender.result = "ok"
               \/ transfer.client = "sender" /\ closed
<1>0. In \in Seq(Tokens)
  BY DEF In, TransferTypes
<1>1. ASSUME msg = Head(In), In # <<>>
      PROVE  msg \in Tokens /\ Transfer!Left("receiver", msg) = [inbox EXCEPT !["receiver"] = Tail(In)]
  <2>1. msg \in Tokens
    BY <1>0, <1>1
  <2>2. msg \notin {"EOF", "error"}
    BY <2>1 DEF Tokens
  <2>. QED  BY <2>1, <2>2 DEF Transfer!Left, In
<1>. QED
  BY <1>1 DEF Transfer!RecvOutcomes, Transfer!Left, Transfer!Over, Transfer!Peer, Transfer!Side, Transfer!IsClient, In,
              TransferTypes

(* What a sender that waits gets.                                          *)
LEMMA Waiting ==
  ASSUME TransferTypes, NEW msg \in Transfer!RecvOutcomes("sender")
  PROVE  \/ msg \in Tokens /\ inbox["sender"] # <<>> /\ msg = Head(inbox["sender"])
            /\ Transfer!Left("sender", msg) = [inbox EXCEPT !["sender"] = Tail(inbox["sender"])]
         \/ /\ msg = "error" /\ Transfer!Left("sender", msg) = inbox
            /\ broken \/ (~Reads /\ (transfer.client = "sender" => receiver.result # "ok"))
         \/ msg = "EOF" /\ Transfer!Left("sender", msg) = inbox /\ inbox["sender"] = <<>> /\ ~broken
            /\ \/ transfer.client = "sender" /\ receiver.pc = "done" /\ receiver.result = "ok"
               \/ transfer.client = "receiver" /\ closed
<1>1. ASSUME msg = Head(inbox["sender"]), inbox["sender"] # <<>>
      PROVE  msg \in Tokens /\ Transfer!Left("sender", msg) = [inbox EXCEPT !["sender"] = Tail(inbox["sender"])]
  <2>1. msg \in Tokens
    BY <1>1 DEF TransferTypes
  <2>2. msg \notin {"EOF", "error"}
    BY <2>1 DEF Tokens
  <2>. QED  BY <2>1, <2>2 DEF Transfer!Left
<1>. QED
  BY <1>1 DEF Transfer!RecvOutcomes, Transfer!Left, Transfer!Over, Transfer!Peer, Transfer!Side, Transfer!IsClient, Reads,
              TransferTypes

-----------------------------------------------------------------------------
(* A message that is sent while the receiver reads comes last.             *)
LEMMA BeginSent ==
  ASSUME TransferInv, Live, sender.pc \in {"open", "begin"}, UNCHANGED receiver,
         NEW msg \in {"begin", "other"}, In' = Append(In, msg)
  PROVE  /\ In' # <<>> /\ Lead' = 1 /\ ~Ended' /\ Chunks' = Chunks /\ ~Ended
         /\ \A i \in 1..Len(In') : i = 1 /\ In'[i] = msg
<1>1. In = <<>> /\ receiver.pc = "begin"
  BY DEF TransferInv, CountInv
<1>2. In' = <<msg>> /\ Len(In') = 1 /\ In'[1] = msg
  BY <1>1
<1>. QED  BY <1>1, <1>2 DEF Lead, Ended, Chunks

LEMMA ChunkSent ==
  ASSUME TransferInv, Live, sender.pc \in {"chunks", "flush"}, UNCHANGED receiver,
         In' = Append(In, "chunk")
  PROVE  /\ In' # <<>> /\ Lead' = Lead /\ ~Ended' /\ Chunks' = Chunks + 1 /\ ~Ended
         /\ \A i \in 1..Len(In') :
              /\ i <= Lead => In'[i] \in {"begin", "other"}
              /\ i > Lead => In'[i] \in {"chunk", "end"}
         /\ \A i \in 1..Len(In') : In'[i] # "end"
<1>0. In \in Seq(Tokens) /\ Len(In) \in Nat
  BY DEF TransferInv, TransferTypes, In
<1>1. ~Ended
  BY DEF TransferInv, OrderInv, Live
<1>2. receiver.pc = "begin" => In # <<>>
  BY DEF TransferInv, CountInv
<1>3. Len(In') = Len(In) + 1 /\ In'[Len(In')] = "chunk" /\ \A i \in 1..Len(In) : In'[i] = In[i]
  BY <1>0
<1>4. Lead' = Lead /\ ~Ended'
  BY <1>0, <1>2, <1>3 DEF Lead, Ended
<1>5. Lead <= Len(In)
  BY <1>0, <1>2 DEF Lead
<1>6. \A i \in 1..Len(In) : In[i] # "end"
  BY <1>0, <1>1 DEF TransferInv, OrderInv, Live, Ended
<1>7. \A i \in 1..Len(In') : i \in 1..Len(In) \/ (i = Len(In') /\ i > Lead)
  BY <1>0, <1>3, <1>5 DEF Lead
<1>8. ASSUME NEW i \in 1..Len(In')
      PROVE  /\ i <= Lead => In'[i] \in {"begin", "other"}
             /\ i > Lead => In'[i] \in {"chunk", "end"}
  <2>1. CASE i \in 1..Len(In)
    BY <1>3, <2>1 DEF TransferInv, OrderInv, Live
  <2>2. CASE i = Len(In') /\ i > Lead
    BY <1>0, <1>3, <1>5, <2>2 DEF Lead
  <2>. QED  BY <1>7, <2>1, <2>2
<1>9. Chunks' = Chunks + 1
  BY <1>0, <1>1, <1>3, <1>4 DEF Chunks, Lead
<1>10. In' # <<>>
  BY <1>0, <1>3
<1>. QED  BY <1>1, <1>3, <1>4, <1>6, <1>7, <1>8, <1>9, <1>10

LEMMA EndSent ==
  ASSUME TransferInv, Live, sender.pc \in {"chunks", "end"}, UNCHANGED receiver,
         In' = Append(In, "end")
  PROVE  /\ In' # <<>> /\ Lead' = Lead /\ Ended' /\ Chunks' = Chunks /\ ~Ended
         /\ \A i \in 1..Len(In') :
              /\ i <= Lead => In'[i] \in {"begin", "other"}
              /\ i > Lead => In'[i] \in {"chunk", "end"}
         /\ \A i \in 1..Len(In') : i < Len(In') => In'[i] # "end"
<1>0. In \in Seq(Tokens) /\ Len(In) \in Nat
  BY DEF TransferInv, TransferTypes, In
<1>1. ~Ended
  BY DEF TransferInv, OrderInv, Live
<1>2. receiver.pc = "begin" => In # <<>>
  BY DEF TransferInv, CountInv
<1>3. Len(In') = Len(In) + 1 /\ In'[Len(In')] = "end" /\ \A i \in 1..Len(In) : In'[i] = In[i]
  BY <1>0
<1>4. Lead' = Lead /\ Ended'
  BY <1>0, <1>2, <1>3 DEF Lead, Ended
<1>5. Lead <= Len(In)
  BY <1>0, <1>2 DEF Lead
<1>6. \A i \in 1..Len(In) : In[i] # "end"
  BY <1>0, <1>1 DEF TransferInv, OrderInv, Live, Ended
<1>7. \A i \in 1..Len(In') : i \in 1..Len(In) \/ (i = Len(In') /\ i > Lead)
  BY <1>0, <1>3, <1>5 DEF Lead
<1>8. ASSUME NEW i \in 1..Len(In')
      PROVE  /\ i <= Lead => In'[i] \in {"begin", "other"}
             /\ i > Lead => In'[i] \in {"chunk", "end"}
  <2>1. CASE i \in 1..Len(In)
    BY <1>3, <2>1 DEF TransferInv, OrderInv, Live
  <2>2. CASE i = Len(In') /\ i > Lead
    BY <1>0, <1>3, <1>5, <2>2 DEF Lead
  <2>. QED  BY <1>7, <2>1, <2>2
<1>9. Chunks' = Chunks
  BY <1>0, <1>1, <1>3, <1>4 DEF Chunks, Lead
<1>10. In' # <<>>
  BY <1>0, <1>3
<1>. QED  BY <1>1, <1>3, <1>4, <1>6, <1>7, <1>8, <1>9, <1>10

(* The rest of a sequence in which only the last element may be the mark.  *)
LEMMA RestOfSequence ==
  ASSUME NEW s \in Seq(Tokens), s # <<>>,
         \A i \in 1..Len(s) : i < Len(s) => s[i] # "end"
  PROVE  /\ Len(s) \in Nat /\ Len(s) >= 1 /\ Len(Tail(s)) = Len(s) - 1 /\ Tail(s) \in Seq(Tokens)
         /\ \A i \in 1..Len(Tail(s)) : Tail(s)[i] = s[i + 1] /\ i + 1 \in 1..Len(s)
         /\ s[1] = "end" => Len(s) = 1 /\ Tail(s) = <<>>
         /\ s[1] # "end" =>
              (Tail(s) # <<>> /\ Tail(s)[Len(Tail(s))] = "end" <=> s[Len(s)] = "end")
<1>1. Len(s) \in Nat /\ Len(s) >= 1 /\ Len(Tail(s)) = Len(s) - 1 /\ Tail(s) \in Seq(Tokens)
  <2>1. Len(s) \in Nat /\ Len(s) # 0 /\ Tail(s) \in Seq(Tokens) /\ Len(Tail(s)) = Len(s) - 1
    BY HeadTailProperties, EmptySeq, LenProperties
  <2>. QED  BY <2>1
<1>2. ASSUME NEW i \in 1..Len(Tail(s))
      PROVE  Tail(s)[i] = s[i + 1] /\ i + 1 \in 1..Len(s)
  BY <1>1, HeadTailProperties
<1>3. Tail(s) # <<>> <=> Len(Tail(s)) # 0
  <2>1. ASSUME NEW t \in Seq(Tokens)  PROVE t # <<>> <=> Len(t) # 0
    BY EmptySeq
  <2>. QED  BY <1>1, <2>1
<1>4. s[1] = "end" => ~(1 < Len(s))
  BY <1>1
<1>5. CASE Len(s) = 1
  BY <1>1, <1>2, <1>3, <1>5
<1>6. CASE 1 < Len(s)
  <2>1. Len(Tail(s)) \in 1..Len(Tail(s)) /\ Len(Tail(s)) + 1 = Len(s) /\ Len(Tail(s)) # 0
    BY <1>1, <1>6
  <2>2. Tail(s)[Len(Tail(s))] = s[Len(s)]
    BY <1>2, <2>1
  <2>. QED  BY <1>1, <1>2, <1>3, <1>4, <1>6, <2>1, <2>2
<1>. QED  BY <1>1, <1>5, <1>6

(* The first message that is on the way is taken.                          *)
LEMMA MessageRead ==
  ASSUME TransferInv, Reads, In # <<>>, In' = Tail(In), receiver'.pc # "begin"
  PROVE  /\ In[1] = "end" => In' = <<>> /\ Chunks = 0 /\ Ended
         /\ In[1] # "end" => (Ended' <=> Ended)
         /\ In[1] = "chunk" => Chunks' = Chunks - 1
         /\ receiver.pc = "begin" => In[1] \in {"begin", "other"} /\ Chunks' = Chunks
         /\ receiver.pc # "begin" => In[1] \in {"chunk", "end"}
         /\ Lead' = 0
         /\ \A i \in 1..Len(In') : In'[i] \in {"chunk", "end"} /\ (i < Len(In') => In'[i] # "end")
<1> DEFINE s == In
           t == Tail(s)
<1>0. s \in Seq(Tokens) /\ s # <<>>
  BY DEF TransferInv, TransferTypes, In
<1>1. /\ \A i \in 1..Len(s) : i <= Lead => s[i] \in {"begin", "other"}
      /\ \A i \in 1..Len(s) : i > Lead => s[i] \in {"chunk", "end"}
      /\ \A i \in 1..Len(s) : i < Len(s) => s[i] # "end"
  BY DEF TransferInv, OrderInv
<1>2. /\ Len(s) \in Nat /\ Len(s) >= 1 /\ Len(t) = Len(s) - 1 /\ t \in Seq(Tokens)
      /\ \A i \in 1..Len(t) : t[i] = s[i + 1] /\ i + 1 \in 1..Len(s)
      /\ s[1] = "end" => Len(s) = 1 /\ t = <<>>
      /\ s[1] # "end" => (t # <<>> /\ t[Len(t)] = "end" <=> s[Len(s)] = "end")
  BY <1>0, <1>1, RestOfSequence
<1>3. Lead \in {0, 1} /\ Lead' = 0 /\ (receiver.pc = "begin" <=> Lead = 1)
  BY DEF Lead
<1>4. Ended <=> s[Len(s)] = "end"
  BY <1>0 DEF Ended
<1>5. Ended' <=> t # <<>> /\ t[Len(t)] = "end"
  BY DEF Ended
<1>6. Chunks = Len(s) - Lead - (IF Ended THEN 1 ELSE 0)
  BY DEF Chunks
<1>7. Chunks' = Len(t) - Lead' - (IF Ended' THEN 1 ELSE 0)
  BY DEF Chunks
<1>8. In' = t /\ In = s
  OBVIOUS
<1> HIDE DEF t, s, Chunks, Lead, Ended
<1>9. /\ receiver.pc = "begin" => s[1] \in {"begin", "other"}
      /\ receiver.pc # "begin" => s[1] \in {"chunk", "end"}
  BY <1>1, <1>2, <1>3
<1>10. s[1] # "end" => (Ended' <=> Ended)
  BY <1>2, <1>4, <1>5
<1>11. ASSUME s[1] = "end"  PROVE Chunks = 0 /\ Ended
  <2>0. Len(s) = 1 /\ s[Len(s)] = s[1]
    BY <1>2, <1>11
  <2>1. Len(s) = 1 /\ Lead = 0 /\ Ended
    BY <2>0, <1>3, <1>4, <1>9, <1>11
  <2>2. Chunks = Len(s) - Lead - 1
    BY <1>6, <2>1
  <2>. QED  BY <2>1, <2>2
<1>12. s[1] # "end" => Chunks' = Chunks - 1 + Lead
  BY <1>2, <1>3, <1>6, <1>7, <1>10
<1>13. Chunks \in Int
  BY <1>2, <1>3, <1>6
<1>14. ASSUME NEW i \in 1..Len(t)
      PROVE  t[i] \in {"chunk", "end"} /\ (i < Len(t) => t[i] # "end")
  <2>1. i + 1 \in 1..Len(s) /\ i + 1 > Lead /\ t[i] = s[i + 1] /\ (i < Len(t) => i + 1 < Len(s))
    BY <1>2, <1>3
  <2>. QED  BY <1>1, <2>1
<1>15. s[1] = "chunk" => Chunks' = Chunks - 1
  BY <1>3, <1>9, <1>12, <1>13
<1>16. receiver.pc = "begin" => Chunks' = Chunks
  BY <1>3, <1>9, <1>12, <1>13
<1>17. s[1] = "end" => t = <<>>
  BY <1>2
<1>. QED  BY <1>3, <1>8, <1>9, <1>10, <1>11, <1>14, <1>15, <1>16, <1>17

-----------------------------------------------------------------------------
(* The steps of ReadFile.                                                  *)

LEMMA ReadingTypes ==
  ASSUME TransferTypes, NEW s \in Seq(Tokens), inbox' = [inbox EXCEPT !["receiver"] = s],
         UNCHANGED <<transfer, closed, broken, sender>>, receiver' \in ReceiverRecord,
         receiver'.result = "none" <=> receiver'.pc # "done"
  PROVE  TransferTypes' /\ In' = s /\ inbox'["sender"] = inbox["sender"]
BY DEF TransferTypes, In

LEMMA ReadingOrder ==
  ASSUME TransferInv, Reads, UNCHANGED <<transfer, closed, broken, sender>>, Lead' = 0,
         \A i \in 1..Len(In') : In'[i] \in {"chunk", "end"} /\ (i < Len(In') => In'[i] # "end"),
         Ended' => Ended /\ receiver'.got + Chunks' = receiver.got + Chunks
  PROVE  OrderInv'
<1>1. \A i \in 1..Len(In') : /\ i <= Lead' => In'[i] \in {"begin", "other"}
                             /\ i > Lead' => In'[i] \in {"chunk", "end"}
  <2>1. \A i \in 1..Len(In') : ~(i <= 0)
    OBVIOUS
  <2>. QED  BY <2>1
<1>2. Ended => sender.pc \in {"wait", "done"} /\ transfer.kind # "foreign" /\ Whole(receiver.got + Chunks)
  BY DEF TransferInv, OrderInv
<1>3. Ended' => /\ sender'.pc \in {"wait", "done"} /\ transfer'.kind # "foreign"
                /\ Whole(receiver.got + Chunks)'
  BY <1>2 DEF Whole
<1>. QED  BY <1>1, <1>3 DEF OrderInv

LEMMA ReadsBeginStep ==
  ASSUME TransferInv, Transfer!ReadsBegin
  PROVE  TransferInv'
<1>1. /\ receiver.pc = "begin" /\ UNCHANGED <<transfer, closed, broken, sender>>
      /\ Reads
  BY DEF Transfer!ReadsBegin, Reads
<1>2. PICK msg \in Transfer!RecvOutcomes("receiver") :
        /\ inbox' = Transfer!Left("receiver", msg)
        /\ \/ msg = "begin" /\ receiver' = [receiver EXCEPT !.pc = "create"]
           \/ receiver' = [receiver EXCEPT !.pc = "done", !.result = "error"]
  BY DEF Transfer!ReadsBegin, Transfer!FromMessage, Transfer!RStep, Transfer!REnd
<1>3. /\ TransferTypes /\ receiver \in ReceiverRecord /\ receiver.result = "none"
      /\ inbox = [inbox EXCEPT !["receiver"] = In] /\ In \in Seq(Tokens)
      /\ In # <<>> => Tail(In) \in Seq(Tokens)
  BY <1>1 DEF TransferInv, TransferTypes, In
<1>4. /\ receiver' \in ReceiverRecord /\ receiver'.got = receiver.got
      /\ \/ receiver'.pc = "create" /\ receiver'.result = "none" /\ msg = "begin"
         \/ receiver'.pc = "done" /\ receiver'.result = "error"
  BY <1>1, <1>2, <1>3 DEF ReceiverRecord
<1>5. \/ inbox' = [inbox EXCEPT !["receiver"] = In] /\ msg # "begin"
      \/ inbox' = [inbox EXCEPT !["receiver"] = Tail(In)] /\ In # <<>>
  BY <1>2, <1>3, Reading
<1>6. TransferTypes' /\ inbox'["sender"] = inbox["sender"] /\ (In' = In \/ In' = Tail(In))
  BY <1>1, <1>3, <1>4, <1>5, ReadingTypes
<1>7. CASE receiver'.pc = "done"
  <2>1. ~Reads' /\ ~Live' /\ receiver'.result = "error"
    BY <1>4, <1>7 DEF Reads, Live
  <2>2. KindInv' /\ OrderInv' /\ CountInv'
    BY <1>1, <2>1 DEF TransferInv, KindInv, OrderInv, CountInv
  <2>3. ToldInv' /\ WaitInv'
    BY <1>1, <1>3, <1>6, <1>7, <2>1 DEF TransferInv, ToldInv, WaitInv, Live
  <2>. QED  BY <1>6, <2>2, <2>3 DEF TransferInv
<1>8. CASE receiver'.pc = "create"
  <2>1. In # <<>> /\ In' = Tail(In) /\ Reads' /\ (Live' <=> Live) /\ receiver'.result = "none"
    BY <1>1, <1>3, <1>4, <1>5, <1>8, ReadingTypes DEF Reads, Live
  <2>2. /\ Ended' <=> Ended
        /\ Chunks' = Chunks /\ Lead' = 0
        /\ \A i \in 1..Len(In') : In'[i] \in {"chunk", "end"} /\ (i < Len(In') => In'[i] # "end")
    <3>1. receiver'.pc # "begin"
      BY <1>8
    <3>2. In[1] \in {"begin", "other"} /\ In[1] # "end"
      BY <1>1, <2>1, <3>1, MessageRead
    <3>. QED  BY <1>1, <2>1, <3>1, <3>2, MessageRead
  <2>3. KindInv'
    BY <1>1 DEF TransferInv, KindInv
  <2>4. OrderInv'
    BY <1>1, <1>4, <2>2, ReadingOrder
  <2>5. CountInv'
    BY <1>1, <1>4, <1>8, <2>1, <2>2 DEF TransferInv, CountInv
  <2>6. ToldInv' /\ WaitInv'
    BY <1>1, <1>3, <1>6, <1>8, <2>1, <2>2 DEF TransferInv, ToldInv, WaitInv
  <2>. QED  BY <1>6, <2>3, <2>4, <2>5, <2>6 DEF TransferInv
<1>. QED  BY <1>4, <1>7, <1>8

(* What ReadFile does after a message, and after the end.                  *)
LEMMA ReadsChunkStep ==
  ASSUME TransferInv, Transfer!ReadsChunk
  PROVE  TransferInv'
<1>1. receiver.pc = "chunks" /\ UNCHANGED <<transfer, closed, broken, sender>> /\ Reads
  BY DEF Transfer!ReadsChunk, Reads
<1>2. PICK msg \in Transfer!RecvOutcomes("receiver") :
        /\ inbox' = Transfer!Left("receiver", msg)
        /\ \/ /\ msg \in {"end", "EOF"}
              /\ \/ receiver' = [receiver EXCEPT !.pc = "respond"]
                 \/ receiver' = [receiver EXCEPT !.pc = "done", !.result = "ok"]
           \/ msg = "chunk" /\ receiver' = [receiver EXCEPT !.got = @ + 1]
           \/ receiver' = [receiver EXCEPT !.pc = "done", !.result = "error"]
  BY DEF Transfer!ReadsChunk, Transfer!IsEof, Transfer!IsBytes, Transfer!IsEndOfFile, Transfer!FileEnd,
         Transfer!RStep, Transfer!REnd
<1>3. /\ TransferTypes /\ receiver \in ReceiverRecord /\ receiver.result = "none" /\ receiver.got \in Nat
      /\ inbox = [inbox EXCEPT !["receiver"] = In] /\ In \in Seq(Tokens)
      /\ In # <<>> => Tail(In) \in Seq(Tokens) /\ Head(In) = In[1]
  BY <1>1 DEF TransferInv, TransferTypes, In, ReceiverRecord
<1>4. /\ receiver' \in ReceiverRecord /\ receiver'.pc # "begin"
      /\ \/ /\ receiver'.got = receiver.got /\ msg \in {"end", "EOF"}
            /\ \/ receiver'.pc = "respond" /\ receiver'.result = "none"
               \/ receiver'.pc = "done" /\ receiver'.result = "ok"
         \/ /\ receiver'.got = receiver.got + 1 /\ msg = "chunk"
            /\ receiver'.pc = "chunks" /\ receiver'.result = "none"
         \/ receiver'.pc = "done" /\ receiver'.result = "error"
  <2>1. CASE msg \in {"end", "EOF"} /\ receiver' = [receiver EXCEPT !.pc = "respond"]
    BY <1>1, <1>3, <2>1 DEF ReceiverRecord
  <2>2. CASE msg \in {"end", "EOF"} /\ receiver' = [receiver EXCEPT !.pc = "done", !.result = "ok"]
    BY <1>1, <1>3, <2>2 DEF ReceiverRecord
  <2>3. CASE msg = "chunk" /\ receiver' = [receiver EXCEPT !.got = @ + 1]
    BY <1>1, <1>3, <2>3 DEF ReceiverRecord
  <2>4. CASE receiver' = [receiver EXCEPT !.pc = "done", !.result = "error"]
    BY <1>1, <1>3, <2>4 DEF ReceiverRecord
  <2>. QED  BY <1>2, <2>1, <2>2, <2>3, <2>4
<1>5. \/ inbox' = [inbox EXCEPT !["receiver"] = In] /\ msg \in {"EOF", "error"}
      \/ inbox' = [inbox EXCEPT !["receiver"] = Tail(In)] /\ In # <<>> /\ msg = In[1]
  BY <1>2, <1>3, Reading
<1>6. TransferTypes' /\ inbox'["sender"] = inbox["sender"] /\ (In' = In \/ In' = Tail(In))
  BY <1>1, <1>3, <1>4, <1>5, ReadingTypes
<1>7. KindInv'
  BY <1>1 DEF TransferInv, KindInv
<1>8. CASE receiver'.pc = "done" /\ receiver'.result = "error"
  <2>1. ~Reads' /\ ~Live'
    BY <1>8 DEF Reads, Live
  <2>2. OrderInv' /\ CountInv'
    BY <1>1, <2>1 DEF TransferInv, OrderInv, CountInv
  <2>3. ToldInv' /\ WaitInv'
    BY <1>1, <1>3, <1>6, <1>8, <2>1 DEF TransferInv, ToldInv, WaitInv, Live
  <2>. QED  BY <1>6, <1>7, <2>2, <2>3 DEF TransferInv
<1>9. CASE receiver'.pc = "chunks"
  <2>1. /\ msg = "chunk" /\ In[1] = "chunk" /\ In # <<>> /\ In' = Tail(In) /\ Reads' /\ (Live' <=> Live)
        /\ receiver'.result = "none" /\ receiver'.got = receiver.got + 1
    BY <1>1, <1>3, <1>4, <1>5, <1>9, ReadingTypes DEF Reads, Live
  <2>2. /\ Ended' <=> Ended
        /\ Chunks' = Chunks - 1 /\ Lead' = 0
        /\ \A i \in 1..Len(In') : In'[i] \in {"chunk", "end"} /\ (i < Len(In') => In'[i] # "end")
    BY <1>1, <1>4, <2>1, MessageRead
  <2>3. Chunks \in Int /\ receiver'.got + Chunks' = receiver.got + Chunks
    <3>1. Chunks \in Int
      BY ChunksIsInt DEF TransferInv
    <3>2. Chunks' = Chunks - 1 /\ receiver'.got = receiver.got + 1 /\ receiver.got \in Nat
      BY <1>3, <2>1, <2>2
    <3>. QED  BY <3>1, <3>2
  <2>4. OrderInv'
    BY <1>1, <2>2, <2>3, ReadingOrder
  <2>5. CountInv'
    BY <1>1, <1>9, <2>1, <2>3 DEF TransferInv, CountInv
  <2>6. ToldInv' /\ WaitInv'
    BY <1>1, <1>3, <1>6, <1>9, <2>1, <2>2 DEF TransferInv, ToldInv, WaitInv
  <2>. QED  BY <1>6, <1>7, <2>4, <2>5, <2>6 DEF TransferInv
<1>10. CASE msg \in {"end", "EOF"} /\ receiver'.got = receiver.got
            /\ (\/ receiver'.pc = "respond" /\ receiver'.result = "none"
                \/ receiver'.pc = "done" /\ receiver'.result = "ok")
  <2>1. /\ In' = <<>> /\ ~Ended' /\ Chunks' = 0 /\ Chunks = 0
        /\ sender.pc \in {"wait", "done"} /\ Whole(receiver.got)
        /\ transfer.client = "sender" => Ended \/ closed
    <3>1. CASE msg = "end"
      <4>1. In # <<>> /\ In' = Tail(In) /\ In[1] = "end"
        BY <1>1, <1>3, <1>4, <1>5, <3>1, ReadingTypes
      <4>2. In' = <<>> /\ Chunks = 0 /\ Ended /\ Lead' = 0
        BY <1>1, <1>4, <4>1, MessageRead
      <4>3. ~Ended' /\ Chunks' = 0
        BY <4>2 DEF Ended, Chunks
      <4>4. sender.pc \in {"wait", "done"} /\ Whole(receiver.got + Chunks)
        BY <1>1, <4>2 DEF TransferInv, OrderInv
      <4>. QED  BY <1>3, <4>2, <4>3, <4>4
    <3>2. CASE msg = "EOF"
      <4>1. /\ In = <<>> /\ ~broken
            /\ \/ transfer.client = "receiver" /\ sender.pc = "done" /\ sender.result = "ok"
               \/ transfer.client = "sender" /\ closed
        BY <1>3, <3>2, Reading, <1>3, Zenon DEF Tokens
      <4>2. In' = <<>>
        BY <1>1, <1>3, <1>4, <1>5, <3>2, <4>1, ReadingTypes
      <4>3. ~Ended /\ Lead = 0 /\ ~Ended' /\ Lead' = 0
        BY <4>1, <4>2 DEF Ended, Lead
      <4>4. Chunks = 0 /\ Chunks' = 0
        BY <4>1, <4>2, <4>3 DEF Chunks
      <4>5. sender.sent = receiver.got + Chunks /\ ~sender.reported
        BY <1>1, <4>1 DEF TransferInv, CountInv, Live
      <4>6. sender.sent = receiver.got
        BY <1>3, <4>4, <4>5
      <4>7. transfer.kind = "foreign" /\ sender.pc \in {"wait", "done"}
        BY <1>1, <1>3, <4>1, <4>5 DEF TransferInv, ToldInv
      <4>. QED  BY <4>1, <4>2, <4>3, <4>4, <4>6, <4>7 DEF Whole
    <3>. QED  BY <1>10, <3>1, <3>2
  <2>2. OrderInv'
    <3>1. \A i \in 1..Len(In') : FALSE
      BY <2>1
    <3>. QED  BY <2>1, <3>1 DEF OrderInv
  <2>3. CountInv'
    BY <1>1, <1>3, <1>10, <2>1 DEF TransferInv, CountInv, Live, Reads
  <2>4. ToldInv'
    BY <1>1, <1>3, <1>6, <1>10, <2>1 DEF TransferInv, ToldInv, Whole, Reads
  <2>5. WaitInv'
    BY <1>1, <1>3, <1>6, <1>10, <2>1 DEF TransferInv, WaitInv, CountInv, Live, Reads
  <2>. QED  BY <1>6, <1>7, <2>2, <2>3, <2>4, <2>5 DEF TransferInv
<1>. QED  BY <1>4, <1>8, <1>9, <1>10

LEMMA RespondsStep ==
  ASSUME TransferInv, Transfer!Responds
  PROVE  TransferInv'
<1>1. receiver.pc = "respond" /\ UNCHANGED <<transfer, closed, broken, sender>>
  BY DEF Transfer!Responds
<1>2. PICK o \in Transfer!SendOutcomes("receiver", "begin") :
        /\ inbox' = o.inbox
        /\ \/ o.ok /\ receiver' = [receiver EXCEPT !.pc = "done", !.result = "ok"]
           \/ ~o.ok /\ receiver' = [receiver EXCEPT !.pc = "done", !.result = "error"]
  BY DEF Transfer!Responds, Transfer!ToMessage, Transfer!REnd
<1>3. /\ TransferTypes /\ receiver \in ReceiverRecord /\ receiver.result = "none"
      /\ inbox["sender"] \in Seq(Tokens) /\ Whole(receiver.got) /\ sender.pc \in {"wait", "done"}
      /\ inbox["sender"] = <<>>
  BY <1>1 DEF TransferInv, TransferTypes, ToldInv
<1>4. /\ receiver' \in ReceiverRecord /\ receiver'.pc = "done" /\ receiver'.got = receiver.got
      /\ (o.ok /\ receiver'.result = "ok") \/ (~o.ok /\ receiver'.result = "error")
  BY <1>2, <1>3 DEF ReceiverRecord
<1>5. /\ inbox' \in [{"sender", "receiver"} -> Seq(Tokens)] /\ In' = In
      /\ \/ broken \/ sender.pc = "done" \/ o.ok
      /\ \/ inbox'["sender"] = <<>>
         \/ o.ok /\ inbox'["sender"] = <<"begin">>
  <2>1. Append(inbox["sender"], "begin") = <<"begin">>
    BY <1>3
  <2>. QED  BY <1>2, <1>3, <2>1, Answering DEF In
<1>6. TransferTypes' /\ KindInv'
  BY <1>1, <1>3, <1>4, <1>5 DEF TransferInv, TransferTypes, KindInv
<1>7. OrderInv' /\ CountInv' /\ ~Reads' /\ ~Live'
  BY <1>4 DEF OrderInv, CountInv, Reads, Live
<1>8. \A i \in 1..Len(inbox'["sender"]) : inbox'["sender"][i] = "begin"
  BY <1>5
<1>9. ToldInv'
  BY <1>1, <1>3, <1>4, <1>5, <1>7, <1>8 DEF TransferInv, ToldInv, Whole
<1>10. WaitInv'
  BY <1>1, <1>3, <1>4, <1>5, <1>7 DEF TransferInv, WaitInv, CountInv, Live, Reads
<1>. QED  BY <1>6, <1>7, <1>9, <1>10 DEF TransferInv

-----------------------------------------------------------------------------
(* The steps of the senders.                                               *)

(* As long as the sender has not come to its end nobody has succeeded.     *)
LEMMA BeforeTheEnd ==
  ASSUME TransferInv, sender.pc \notin {"wait", "done"}
  PROVE  /\ ~closed /\ receiver.pc # "respond" /\ receiver.result # "ok"
         /\ inbox["sender"] = <<>> /\ (Reads => ~Ended)
BY DEF TransferInv, ToldInv, OrderInv

LEMMA SenderMoves ==
  ASSUME TransferInv, sender.pc \notin {"wait", "done"},
         UNCHANGED <<transfer, closed, broken, receiver>>,
         inbox' \in [{"sender", "receiver"} -> Seq(Tokens)], inbox'["sender"] = inbox["sender"],
         sender' \in SenderRecord, sender'.result = "none" <=> sender'.pc # "done",
         sender'.result = "ok" => sender'.reported, KindInv',
         \/ ~Live /\ In' = In
         \/ OrderInv' /\ CountInv' /\ (Ended' => sender'.pc = "wait")
  PROVE  TransferInv'
<1>1. TransferTypes'
  BY DEF TransferInv, TransferTypes
<1>2. /\ ~closed /\ receiver.pc # "respond" /\ receiver.result # "ok" /\ inbox["sender"] = <<>>
      /\ (Reads => ~Ended)
  BY BeforeTheEnd
<1>3. (Reads' <=> Reads) /\ (Live' <=> Live)
  BY DEF Reads, Live
<1>4. OrderInv' /\ CountInv' /\ (Live' /\ Ended' => sender'.pc = "wait")
  <2>1. CASE ~Live /\ In' = In
    <3>1. Lead' = Lead /\ Ended' = Ended
      BY <2>1 DEF Lead, Ended
    <3>2. OrderInv'
      BY <1>2, <1>3, <2>1, <3>1 DEF TransferInv, OrderInv
    <3>. QED  BY <1>3, <2>1, <3>2 DEF CountInv
  <2>2. CASE OrderInv' /\ CountInv' /\ (Ended' => sender'.pc = "wait")
    BY <2>2
  <2>. QED  BY <2>1, <2>2
<1>5. ToldInv'
  BY <1>2 DEF TransferInv, ToldInv
<1>6. WaitInv'
  BY <1>2, <1>4 DEF TransferInv, WaitInv
<1>. QED  BY <1>1, <1>4, <1>5, <1>6 DEF TransferInv

LEMMA SendsBeginStep ==
  ASSUME TransferInv, Transfer!SendsBegin
  PROVE  TransferInv'
<1>1. sender.pc \in {"open", "begin"} /\ UNCHANGED <<transfer, closed, broken, receiver>>
  BY DEF Transfer!SendsBegin
<1>2. PICK msg \in {"begin", "other"} : \E o \in Transfer!SendOutcomes("sender", msg) :
        /\ inbox' = o.inbox
        /\ \/ o.ok /\ sender' = [sender EXCEPT !.pc = "chunks"]
           \/ ~o.ok /\ sender' = [sender EXCEPT !.pc = "done", !.result = "error"]
  BY DEF Transfer!SendsBegin, Transfer!ToMessage, Transfer!SStep, Transfer!SEnd
<1>3. TransferTypes /\ sender \in SenderRecord /\ sender.result = "none" /\ msg \in Tokens
  BY <1>1 DEF TransferInv, TransferTypes, Tokens
<1>4. PICK o \in Transfer!SendOutcomes("sender", msg) :
        /\ inbox' = o.inbox
        /\ \/ o.ok /\ sender' = [sender EXCEPT !.pc = "chunks"]
           \/ ~o.ok /\ sender' = [sender EXCEPT !.pc = "done", !.result = "error"]
  BY <1>2
<1>5. /\ sender' \in SenderRecord /\ sender'.sent = sender.sent /\ sender'.stuck = sender.stuck
      /\ sender'.reported = sender.reported /\ sender'.handler = sender.handler
      /\ \/ o.ok /\ sender'.pc = "chunks" /\ sender'.result = "none"
         \/ ~o.ok /\ sender'.pc = "done" /\ sender'.result = "error"
  BY <1>3, <1>4 DEF SenderRecord
<1>6. /\ inbox' \in [{"sender", "receiver"} -> Seq(Tokens)] /\ inbox'["sender"] = inbox["sender"]
      /\ (~Live /\ In' = In) \/ (Live /\ o.ok /\ In' = Append(In, msg))
  BY <1>3, <1>4, Sending DEF In
<1>7. KindInv'
  BY <1>1, <1>5 DEF TransferInv, KindInv
<1>8. ASSUME Live, o.ok, In' = Append(In, msg)
      PROVE  OrderInv' /\ CountInv' /\ ~Ended'
  <2>1. /\ In' # <<>> /\ Lead' = 1 /\ ~Ended' /\ Chunks' = Chunks /\ ~Ended
        /\ \A i \in 1..Len(In') : i = 1 /\ In'[i] = msg
    BY <1>1, <1>8, BeginSent
  <2>2. \A i \in 1..Len(In') : /\ i <= Lead' => In'[i] \in {"begin", "other"}
                               /\ i > Lead' => In'[i] \in {"chunk", "end"}
                               /\ i < Len(In') => In'[i] # "end"
    BY <1>2, <2>1
  <2>3. OrderInv'
    BY <2>1, <2>2 DEF OrderInv
  <2>4. CountInv'
    BY <1>1, <1>5, <1>8, <2>1 DEF TransferInv, CountInv, Live, Reads
  <2>. QED  BY <2>1, <2>3, <2>4
<1>. QED  BY <1>1, <1>5, <1>6, <1>7, <1>8, SenderMoves

(* The next chunk, from the handler or from the buffers.                   *)
LEMMA SendsOneChunk ==
  ASSUME TransferInv, sender.pc \in {"chunks", "flush"}, UNCHANGED <<transfer, closed, broken, receiver>>,
         NEW o \in Transfer!SendOutcomes("sender", "chunk"), inbox' = o.inbox,
         IF o.ok THEN sender' = [sender EXCEPT !.sent = @ + 1] ELSE Transfer!WriteFails
  PROVE  TransferInv'
<1>1. /\ TransferTypes /\ sender \in SenderRecord /\ sender.result = "none" /\ "chunk" \in Tokens
      /\ sender.sent \in Nat
  BY DEF TransferInv, TransferTypes, Tokens, SenderRecord
<1>2. /\ sender' \in SenderRecord /\ sender'.handler = sender.handler /\ sender'.reported = sender.reported
      /\ \/ /\ o.ok /\ sender'.pc = sender.pc /\ sender'.result = "none"
            /\ sender'.sent = sender.sent + 1 /\ sender'.stuck = sender.stuck
         \/ ~o.ok /\ transfer.kind = "csv" /\ sender'.pc = sender.pc /\ sender'.result = "none"
         \/ /\ ~o.ok /\ transfer.kind # "csv" /\ sender'.stuck = sender.stuck
            /\ sender'.pc = "done" /\ sender'.result = "error"
  <2>1. CASE o.ok
    BY <1>1, <2>1 DEF SenderRecord
  <2>2. CASE ~o.ok
    BY <1>1, <2>2 DEF SenderRecord, Transfer!WriteFails, Transfer!SEnd
  <2>. QED  BY <2>1, <2>2
<1>3. /\ inbox' \in [{"sender", "receiver"} -> Seq(Tokens)] /\ inbox'["sender"] = inbox["sender"]
      /\ (~Live /\ In' = In) \/ (Live /\ o.ok /\ In' = Append(In, "chunk"))
  BY <1>1, Sending DEF In
<1>4. KindInv'
  BY <1>2 DEF TransferInv, KindInv
<1>5. ASSUME Live, o.ok, In' = Append(In, "chunk")
      PROVE  OrderInv' /\ CountInv' /\ ~Ended'
  <2>1. /\ In' # <<>> /\ Lead' = Lead /\ ~Ended' /\ Chunks' = Chunks + 1 /\ ~Ended
        /\ \A i \in 1..Len(In') :
              /\ i <= Lead => In'[i] \in {"begin", "other"}
              /\ i > Lead => In'[i] \in {"chunk", "end"}
        /\ \A i \in 1..Len(In') : In'[i] # "end"
    BY <1>5, ChunkSent
  <2>2. OrderInv'
    BY <2>1 DEF OrderInv
  <2>3. receiver.got \in Nat /\ Chunks \in Int
    BY <1>1, ChunksIsInt DEF TransferTypes, ReceiverRecord
  <2>4. sender'.sent = receiver'.got + Chunks'
    <3>1. sender.sent = receiver.got + Chunks
      BY <1>5 DEF TransferInv, CountInv
    <3>2. sender'.sent = sender.sent + 1 /\ Chunks' = Chunks + 1 /\ receiver'.got = receiver.got
      BY <1>2, <1>5, <2>1
    <3>. QED  BY <2>3, <3>1, <3>2
  <2>5. CountInv'
    BY <1>2, <1>5, <2>1, <2>4 DEF TransferInv, CountInv
  <2>. QED  BY <2>1, <2>2, <2>5
<1>. QED  BY <1>2, <1>3, <1>4, <1>5, SenderMoves

LEMMA EndSends ==
  ASSUME TransferInv, Transfer!SendsEnd
  PROVE  TransferInv'
<1>1. /\ UNCHANGED <<transfer, closed, broken, receiver>>
      /\ \/ transfer.kind = "file" /\ sender.pc = "chunks" /\ sender.sent = transfer.size
         \/ transfer.kind = "csv" /\ sender.pc = "end"
  BY DEF Transfer!SendsEnd
<1>2. PICK o \in Transfer!SendOutcomes("sender", "end") :
        /\ inbox' = o.inbox
        /\ \/ o.ok /\ sender' = [sender EXCEPT !.pc = "wait"]
           \/ ~o.ok /\ Transfer!Close(FALSE)
  BY DEF Transfer!SendsEnd, Transfer!FileEnd, Transfer!SStep
<1>3. /\ TransferTypes /\ sender \in SenderRecord /\ sender.result = "none" /\ "end" \in Tokens
      /\ sender.sent \in Nat /\ sender.handler \in {"ok", "error"}
  BY <1>1 DEF TransferInv, TransferTypes, Tokens, SenderRecord
<1>4. /\ sender' \in SenderRecord /\ sender'.handler = sender.handler /\ sender'.sent = sender.sent
      /\ sender'.stuck = sender.stuck
      /\ \/ o.ok /\ sender'.pc = "wait" /\ sender'.result = "none" /\ sender'.reported = sender.reported
         \/ /\ ~o.ok /\ sender'.pc = "done" /\ sender'.result = sender.handler /\ sender'.reported
            /\ transfer.kind = "csv"
         \/ /\ ~o.ok /\ sender'.pc = "done" /\ sender'.result = "error" /\ transfer.kind # "csv"
            /\ sender'.reported = sender.reported
  <2>1. CASE o.ok
    BY <1>2, <1>3, <2>1 DEF SenderRecord
  <2>2. CASE ~o.ok /\ transfer.kind = "csv"
    BY <1>2, <1>3, <2>2 DEF SenderRecord, Transfer!Close
  <2>3. CASE ~o.ok /\ transfer.kind # "csv"
    BY <1>2, <1>3, <2>3 DEF SenderRecord, Transfer!Close, Transfer!SEnd
  <2>. QED  BY <2>1, <2>2, <2>3
<1>5. /\ inbox' \in [{"sender", "receiver"} -> Seq(Tokens)] /\ inbox'["sender"] = inbox["sender"]
      /\ (~Live /\ In' = In) \/ (Live /\ o.ok /\ In' = Append(In, "end"))
  BY <1>2, <1>3, Sending DEF In
<1>6. KindInv'
  BY <1>1, <1>4 DEF TransferInv, KindInv
<1>7. ASSUME Live, o.ok, In' = Append(In, "end")
      PROVE  OrderInv' /\ CountInv' /\ sender'.pc = "wait"
  <2>1. /\ In' # <<>> /\ Lead' = Lead /\ Ended' /\ Chunks' = Chunks /\ ~Ended
        /\ \A i \in 1..Len(In') :
              /\ i <= Lead => In'[i] \in {"begin", "other"}
              /\ i > Lead => In'[i] \in {"chunk", "end"}
        /\ \A i \in 1..Len(In') : i < Len(In') => In'[i] # "end"
    BY <1>1, <1>7, EndSent
  <2>2. sender.sent = receiver.got + Chunks /\ ~sender.stuck
    BY <1>7 DEF TransferInv, CountInv
  <2>3. Whole(receiver.got + Chunks)
    BY <1>1, <2>2 DEF Whole, TransferInv, KindInv
  <2>4. Whole(receiver.got + Chunks)'
    BY <1>1, <1>4, <2>1, <2>3 DEF Whole
  <2>5. OrderInv'
    BY <1>1, <1>4, <1>7, <2>1, <2>4 DEF OrderInv
  <2>6. CountInv'
    BY <1>1, <1>4, <1>7, <2>1, <2>2 DEF TransferInv, CountInv
  <2>. QED  BY <1>4, <1>7, <2>5, <2>6
<1>8. /\ sender.pc \notin {"wait", "done"} /\ (sender'.result = "none" <=> sender'.pc # "done")
      /\ sender'.result = "ok" => sender'.reported
  <2>1. sender.pc \notin {"wait", "done"}
    BY <1>1
  <2>2. sender'.result = "none" <=> sender'.pc # "done"
    BY <1>3, <1>4
  <2>3. sender'.result = "ok" => sender'.reported
    BY <1>4
  <2>. QED  BY <2>1, <2>2, <2>3
<1>9. (~Live /\ In' = In) \/ (OrderInv' /\ CountInv' /\ (Ended' => sender'.pc = "wait"))
  BY <1>5, <1>7
<1>. QED  BY <1>1, <1>4, <1>5, <1>6, <1>8, <1>9, SenderMoves

(* A step of the sender that sends nothing.                                *)
LEMMA SendsNothing ==
  ASSUME TransferInv, sender.pc \notin {"wait", "done"},
         UNCHANGED <<transfer, inbox, closed, broken, receiver>>,
         sender' \in SenderRecord, sender'.result = "none" <=> sender'.pc # "done",
         sender'.result = "ok" => sender'.reported, KindInv',
         Live => /\ sender'.sent = sender.sent /\ ~sender'.stuck /\ ~sender'.reported
                 /\ sender'.pc \in {"open", "begin"} => sender.pc \in {"open", "begin"}
                 /\ sender'.pc \in {"chunks", "flush", "end", "wait"} =>
                      sender.pc \in {"chunks", "flush", "end", "wait"}
  PROVE  TransferInv'
<1>1. In' = In /\ Lead' = Lead /\ Ended' = Ended /\ Chunks' = Chunks
  BY DEF In, Lead, Ended, Chunks
<1>2. /\ inbox' \in [{"sender", "receiver"} -> Seq(Tokens)] /\ inbox'["sender"] = inbox["sender"]
      /\ Reads => ~Ended
  BY BeforeTheEnd DEF TransferInv, TransferTypes
<1>3. ASSUME Live  PROVE OrderInv' /\ CountInv' /\ ~Ended'
  <2>1. OrderInv' /\ ~Ended'
    BY <1>1, <1>2, <1>3 DEF TransferInv, OrderInv, Live, Reads
  <2>2. CountInv'
    BY <1>1, <1>3 DEF TransferInv, CountInv
  <2>. QED  BY <2>1, <2>2
<1>. QED  BY <1>1, <1>2, <1>3, SenderMoves

LEMMA QuietSteps ==
  ASSUME TransferInv, Transfer!Opens \/ Transfer!ReadFails \/ Transfer!HandlerReturns
  PROVE  TransferInv'
<1>1. sender.pc \in {"open", "chunks"} /\ UNCHANGED <<transfer, inbox, closed, broken, receiver>>
  BY DEF Transfer!Opens, Transfer!ReadFails, Transfer!HandlerReturns
<1>2. TransferTypes /\ sender \in SenderRecord /\ sender.result = "none"
  BY <1>1 DEF TransferInv, TransferTypes
<1>3. /\ sender' \in SenderRecord /\ sender'.sent = sender.sent /\ sender'.stuck = sender.stuck
      /\ sender'.reported = sender.reported
      /\ \/ /\ sender.pc = "open" /\ transfer.kind = "file" /\ sender'.pc = "begin"
            /\ sender'.result = "none" /\ sender'.handler = sender.handler
         \/ sender'.pc = "done" /\ sender'.result = "error" /\ sender'.handler = sender.handler
         \/ sender.pc = "chunks" /\ transfer.kind = "csv" /\ sender'.pc = "flush" /\ sender'.result = "none"
  <2>1. CASE Transfer!Opens
    BY <1>2, <2>1 DEF Transfer!Opens, Transfer!SStep, Transfer!SEnd, SenderRecord
  <2>2. CASE Transfer!ReadFails
    BY <1>2, <2>2 DEF Transfer!ReadFails, Transfer!SEnd, SenderRecord
  <2>3. CASE Transfer!HandlerReturns
    BY <1>2, <2>3 DEF Transfer!HandlerReturns, SenderRecord
  <2>. QED  BY <2>1, <2>2, <2>3
<1>4. KindInv'
  BY <1>1, <1>3 DEF TransferInv, KindInv
<1>5. Live => ~sender.stuck /\ ~sender.reported
  BY DEF TransferInv, CountInv
<1>. QED  BY <1>1, <1>3, <1>4, <1>5, SendsNothing

LEMMA FlushesStep ==
  ASSUME TransferInv, Transfer!Flushes
  PROVE  TransferInv'
<1>1. sender.pc = "flush" /\ UNCHANGED <<transfer, closed, broken, receiver>>
  BY DEF Transfer!Flushes
<1>2. TransferTypes /\ sender \in SenderRecord /\ sender.result = "none" /\ transfer.kind = "csv"
  BY <1>1 DEF TransferInv, TransferTypes, KindInv
<1>3. CASE /\ sender.stuck /\ UNCHANGED inbox
           /\ sender' = [sender EXCEPT !.pc = "end", !.reported = TRUE]
  <2>1. /\ sender' \in SenderRecord /\ sender'.stuck /\ sender'.pc = "end" /\ sender'.result = "none"
    BY <1>2, <1>3 DEF SenderRecord
  <2>2. KindInv' /\ ~Live
    BY <1>1, <1>2, <1>3, <2>1 DEF TransferInv, KindInv, CountInv
  <2>. QED  BY <1>1, <1>3, <2>1, <2>2, SendsNothing
<1>4. CASE /\ ~sender.stuck /\ (sender.sent = transfer.size \/ sender.handler = "error")
           /\ sender' = [sender EXCEPT !.pc = "end"] /\ UNCHANGED inbox
  <2>1. /\ sender' \in SenderRecord /\ sender'.stuck = sender.stuck /\ sender'.pc = "end"
        /\ sender'.result = "none" /\ sender'.sent = sender.sent /\ sender'.handler = sender.handler
        /\ sender'.reported = sender.reported
    BY <1>2, <1>4 DEF SenderRecord
  <2>2. KindInv'
    BY <1>1, <1>2, <1>4, <2>1 DEF TransferInv, KindInv
  <2>3. Live => ~sender.stuck /\ ~sender.reported
    BY DEF TransferInv, CountInv
  <2>. QED  BY <1>1, <1>4, <2>1, <2>2, <2>3, SendsNothing
<1>5. CASE \E o \in Transfer!SendOutcomes("sender", "chunk") :
             /\ inbox' = o.inbox
             /\ IF o.ok THEN sender' = [sender EXCEPT !.sent = @ + 1] ELSE Transfer!WriteFails
  BY <1>1, <1>5, SendsOneChunk
<1>. QED  BY <1>3, <1>4, <1>5 DEF Transfer!Flushes, Transfer!SStep

LEMMA SendsChunkStep ==
  ASSUME TransferInv, Transfer!SendsChunk
  PROVE  TransferInv'
BY SendsOneChunk DEF Transfer!SendsChunk

LEMMA ForeignEndsStep ==
  ASSUME TransferInv, Transfer!ForeignEnds
  PROVE  TransferInv'
<1>1. /\ sender.pc = "chunks" /\ transfer.kind = "foreign" /\ UNCHANGED <<transfer, inbox, broken, receiver>>
      /\ transfer.client = "sender" => closed' = TRUE /\ sender' = [sender EXCEPT !.pc = "wait"]
      /\ transfer.client # "sender" =>
           closed' = FALSE /\ sender' = [sender EXCEPT !.pc = "done", !.result = "ok"]
  BY DEF Transfer!ForeignEnds, Transfer!IsClient, Transfer!SStep, Transfer!SEnd
<1>2. /\ TransferTypes /\ sender \in SenderRecord /\ sender.result = "none"
      /\ ~closed /\ receiver.pc # "respond" /\ receiver.result # "ok"
      /\ inbox["sender"] = <<>> /\ (Reads => ~Ended)
  BY <1>1, BeforeTheEnd DEF TransferInv, TransferTypes
<1>3. /\ sender' \in SenderRecord /\ sender'.sent = sender.sent /\ sender'.stuck = sender.stuck
      /\ sender'.reported = sender.reported /\ sender'.handler = sender.handler
      /\ \/ transfer.client = "sender" /\ sender'.pc = "wait" /\ sender'.result = "none" /\ closed'
         \/ transfer.client # "sender" /\ sender'.pc = "done" /\ sender'.result = "ok" /\ ~closed'
  BY <1>1, <1>2 DEF SenderRecord
<1>4. In' = In /\ Lead' = Lead /\ Ended' = Ended /\ Chunks' = Chunks /\ (Reads' <=> Reads) /\ (Live' <=> Live)
  BY <1>1 DEF In, Lead, Ended, Chunks, Reads, Live
<1>5. TransferTypes' /\ KindInv'
  BY <1>1, <1>2, <1>3 DEF TransferInv, TransferTypes, KindInv
<1>6. OrderInv' /\ CountInv'
  BY <1>1, <1>2, <1>3, <1>4 DEF TransferInv, OrderInv, CountInv
<1>7. ToldInv' /\ WaitInv'
  BY <1>1, <1>2, <1>3, <1>4 DEF TransferInv, ToldInv, WaitInv
<1>. QED  BY <1>5, <1>6, <1>7 DEF TransferInv

LEMMA WaitsForPeerStep ==
  ASSUME TransferInv, Transfer!WaitsForPeer
  PROVE  TransferInv'
<1>1. sender.pc = "wait" /\ UNCHANGED <<transfer, broken, receiver>>
  BY DEF Transfer!WaitsForPeer
<1>2. PICK msg \in Transfer!RecvOutcomes("sender") :
        /\ inbox' = Transfer!Left("sender", msg)
        /\ closed' = (closed \/ (msg # "error" /\ transfer.client = "sender"))
        /\ Transfer!Close(msg # "error")
  BY DEF Transfer!WaitsForPeer, Transfer!Confirmed, Transfer!IsClient
<1>3. /\ TransferTypes /\ sender \in SenderRecord /\ sender.result = "none" /\ sender.handler \in {"ok", "error"}
      /\ sender.reported \in BOOLEAN
  BY <1>1 DEF TransferInv, TransferTypes, SenderRecord
<1>4. /\ sender' \in SenderRecord /\ sender'.pc = "done" /\ sender'.sent = sender.sent
      /\ sender'.stuck = sender.stuck /\ sender'.handler = sender.handler
      /\ transfer.kind = "csv" => /\ sender'.result = sender.handler
                                  /\ sender'.reported <=> sender.reported \/ msg = "error"
      /\ transfer.kind # "csv" => /\ sender'.result = (IF msg # "error" THEN "ok" ELSE "error")
                                  /\ sender'.reported = sender.reported
  <2>1. CASE transfer.kind = "csv"
    BY <1>2, <1>3, <2>1 DEF SenderRecord, Transfer!Close
  <2>2. CASE transfer.kind # "csv"
    BY <1>2, <1>3, <2>2 DEF SenderRecord, Transfer!Close, Transfer!SEnd
  <2>. QED  BY <2>1, <2>2
<1>5. /\ inbox' \in [{"sender", "receiver"} -> Seq(Tokens)] /\ In' = In
      /\ inbox'["sender"] = inbox["sender"] \/ inbox'["sender"] = Tail(inbox["sender"])
      /\ msg # "error" =>
           \/ inbox["sender"] # <<>>
           \/ transfer.client = "sender" /\ receiver.pc = "done" /\ receiver.result = "ok"
           \/ transfer.client = "receiver" /\ closed
      /\ msg = "error" => broken \/ (~Reads /\ (transfer.client = "sender" => receiver.result # "ok"))
      /\ inbox'["sender"] # <<>> => inbox["sender"] # <<>>
  <2>1. msg \in Tokens => msg # "error"
    BY DEF Tokens
  <2>2. inbox["sender"] # <<>> => Tail(inbox["sender"]) \in Seq(Tokens)
    BY <1>3 DEF TransferTypes
  <2>. QED  BY <1>2, <1>3, <2>1, <2>2, Waiting DEF In, TransferTypes
<1>6. Lead' = Lead /\ Ended' = Ended /\ Chunks' = Chunks /\ (Reads' <=> Reads) /\ (Live' <=> Live)
  BY <1>1, <1>5 DEF Lead, Ended, Chunks, Reads, Live
<1>7. closed' \in BOOLEAN /\ TransferTypes'
  BY <1>1, <1>2, <1>3, <1>4, <1>5 DEF TransferTypes, SenderRecord
<1>8. KindInv'
  BY <1>1, <1>4 DEF TransferInv, KindInv
<1>9. msg # "error" => receiver.result = "ok"
  BY <1>3, <1>5 DEF TransferInv, ToldInv, TransferTypes
<1>10. (receiver.result = "ok" => ~Reads) /\ ~Live
  BY <1>3, <1>5, <1>9 DEF Reads, Live, TransferTypes
<1>11. OrderInv' /\ CountInv'
  BY <1>1, <1>4, <1>5, <1>6, <1>10 DEF TransferInv, OrderInv, CountInv, Whole
<1>12. \A i \in 1..Len(inbox'["sender"]) : inbox'["sender"][i] = "begin"
  <2>1. \A i \in 1..Len(inbox["sender"]) : inbox["sender"][i] = "begin"
    BY DEF TransferInv, ToldInv
  <2>2. ASSUME inbox["sender"] # <<>>
        PROVE  \A i \in 1..Len(Tail(inbox["sender"])) : Tail(inbox["sender"])[i] = "begin"
    <3>1. inbox["sender"] \in Seq(Tokens)
      BY <1>3 DEF TransferTypes
    <3>2. /\ Len(inbox["sender"]) \in Nat /\ Len(Tail(inbox["sender"])) = Len(inbox["sender"]) - 1
          /\ \A i \in 1..Len(Tail(inbox["sender"])) : Tail(inbox["sender"])[i] = inbox["sender"][i + 1]
      BY <2>2, <3>1, HeadTailProperties, LenProperties
    <3>3. \A i \in 1..Len(Tail(inbox["sender"])) : i + 1 \in 1..Len(inbox["sender"])
      BY <3>2
    <3>. QED  BY <2>1, <3>2, <3>3
  <2>. QED  BY <1>5, <2>1, <2>2
<1>13. ToldInv'
  BY <1>1, <1>2, <1>3, <1>4, <1>5, <1>6, <1>9, <1>10, <1>12 DEF TransferInv, ToldInv, KindInv, Whole
<1>14. WaitInv'
  BY <1>1, <1>3, <1>4, <1>5, <1>6, <1>9, <1>10 DEF TransferInv, WaitInv, KindInv
<1>. QED  BY <1>7, <1>8, <1>11, <1>13, <1>14 DEF TransferInv

(* The remaining steps.                                                    *)
LEMMA CreatesFileStep ==
  ASSUME TransferInv, Transfer!CreatesFile
  PROVE  TransferInv'
<1>1. /\ receiver.pc = "create" /\ UNCHANGED <<transfer, inbox, closed, broken, sender>>
      /\ \/ receiver' = [receiver EXCEPT !.pc = "chunks"]
         \/ receiver' = [receiver EXCEPT !.pc = "done", !.result = "error"]
  BY DEF Transfer!CreatesFile, Transfer!RStep, Transfer!REnd
<1>2. /\ receiver' \in ReceiverRecord /\ receiver'.got = receiver.got
      /\ \/ receiver'.pc = "chunks" /\ receiver'.result = "none"
         \/ receiver'.pc = "done" /\ receiver'.result = "error"
  BY <1>1 DEF TransferInv, TransferTypes, ReceiverRecord
<1>3. In' = In /\ Lead' = Lead /\ Ended' = Ended /\ Chunks' = Chunks
  BY <1>1, <1>2 DEF In, Lead, Ended, Chunks
<1>4. TransferTypes'
  BY <1>1, <1>2 DEF TransferInv, TransferTypes
<1>5. KindInv' /\ OrderInv' /\ CountInv'
  BY <1>1, <1>2, <1>3 DEF TransferInv, KindInv, OrderInv, CountInv, Whole, Live, Reads
<1>6. ToldInv' /\ WaitInv'
  BY <1>1, <1>2, <1>3 DEF TransferInv, TransferTypes, ToldInv, WaitInv, Whole, Live, Reads
<1>. QED  BY <1>4, <1>5, <1>6 DEF TransferInv

LEMMA StreamBreaksStep ==
  ASSUME TransferInv, Transfer!StreamBreaks
  PROVE  TransferInv'
<1>1. broken' = TRUE /\ UNCHANGED <<transfer, inbox, closed, sender, receiver>>
  BY DEF Transfer!StreamBreaks
<1>2. In' = In /\ Lead' = Lead /\ Ended' = Ended /\ Chunks' = Chunks
  BY <1>1 DEF In, Lead, Ended, Chunks
<1>3. TransferTypes' /\ KindInv' /\ CountInv'
  BY <1>1, <1>2 DEF TransferInv, TransferTypes, KindInv, CountInv, Live
<1>4. OrderInv'
  BY <1>1, <1>2 DEF TransferInv, OrderInv, Whole, Reads
<1>5. ToldInv' /\ WaitInv'
  BY <1>1, <1>2 DEF TransferInv, ToldInv, WaitInv, Whole, Live, Reads
<1>. QED  BY <1>3, <1>4, <1>5 DEF TransferInv

LEMMA TransferStep ==
  ASSUME TransferInv, Transfer!Next
  PROVE  TransferInv'
BY StreamBreaksStep, ReadsBeginStep, CreatesFileStep, ReadsChunkStep, RespondsStep, SendsBeginStep,
   SendsChunkStep, QuietSteps, FlushesStep, EndSends, ForeignEndsStep, WaitsForPeerStep
DEF Transfer!Next, Transfer!ReadFile, Transfer!Sends

LEMMA TransferStart ==
  ASSUME Transfer!Init
  PROVE  TransferInv
<1>1. TransferTypes /\ In = <<>> /\ inbox["sender"] = <<>> /\ Reads /\ receiver.got = 0 /\ sender.sent = 0
  <2>1. MaxSize \in Nat
    BY RequestsAssumption DEF Transfer!TransferAssumption
  <2>2. transfer \in [client : {"sender", "receiver"}, kind : {"file", "csv", "foreign"},
                      respond : BOOLEAN, size : Nat]
    BY <2>1 DEF Transfer!Init
  <2>3. <<>> \in Seq(Tokens)
    OBVIOUS
  <2>4. inbox \in [{"sender", "receiver"} -> Seq(Tokens)] /\ In = <<>> /\ inbox["sender"] = <<>>
    BY <2>3 DEF Transfer!Init, In
  <2>5. sender \in SenderRecord /\ receiver \in ReceiverRecord
    BY DEF Transfer!Init, SenderRecord, ReceiverRecord
  <2>. QED  BY <2>2, <2>4, <2>5 DEF Transfer!Init, TransferTypes, Reads
<1>2. Lead = 0 /\ ~Ended /\ Chunks = 0
  BY <1>1 DEF Lead, Ended, Chunks
<1>3. KindInv /\ OrderInv /\ CountInv /\ ToldInv /\ WaitInv
  BY <1>1, <1>2 DEF Transfer!Init, KindInv, OrderInv, CountInv, ToldInv, WaitInv, Live
<1>. QED  BY <1>1, <1>3 DEF TransferInv

LEMMA FilesArrive ==
  ASSUME TransferInv  PROVE FileArrives
<1>1. Transfer!WholeFile
  BY DEF TransferInv, ToldInv, Whole, Transfer!WholeFile
<1>2. Transfer!SenderTrusts
  BY DEF TransferInv, TransferTypes, ToldInv, Whole, Transfer!SenderTrusts
<1>3. Transfer!SuccessLearned
  BY DEF TransferInv, TransferTypes, WaitInv, Transfer!SuccessLearned
<1>. QED  BY <1>1, <1>2, <1>3 DEF FileArrives

-----------------------------------------------------------------------------
(* CsvBatches.                                                             *)

CsvRecord ==
  /\ Len(csv.records) \in Nat /\ csv.records \in [1..Len(csv.records) -> {"row", "bad"}]
  /\ csv.batchSize \in Nat /\ csv.gzip \in {"off", "sound", "broken"}

CsvTypes ==
  /\ CsvRecord
  /\ pc \in {"open", "read", "batch", "last", "deferred", "done"}
  /\ read \in 0..Len(csv.records) /\ total \in Nat
  /\ batch \in Seq(Nat) /\ accepted \in Seq(Nat)
  /\ tolerated \in BOOLEAN /\ result \in {"none", "ok", "error", "panic"}

Increasing(s) == \A i, j \in DOMAIN s : i < j => s[i] < s[j]
Has(s, k) == \E i \in DOMAIN s : s[i] = k
ReadRows(s) == \A i \in DOMAIN s : s[i] \in 1..read /\ Csv!Row(s[i])

(* Every row that was read is one that onBatch took or one in the batch,   *)
(* as long as reading goes on.                                             *)
BatchInv ==
  pc \in {"open", "read", "batch", "last"} =>
    /\ result = "none"
    /\ Increasing(accepted) /\ Increasing(batch)
    /\ \A i \in DOMAIN accepted : \A j \in DOMAIN batch : accepted[i] < batch[j]
    /\ ReadRows(accepted) /\ ReadRows(batch)
    /\ \A k \in 1..read : Csv!Row(k) => Has(accepted, k) \/ Has(batch, k)
    /\ pc = "last" => read = Len(csv.records)

(* The batch is as long as the index says, unless a failure was tolerated. *)
SizeInv ==
  ~tolerated /\ csv.batchSize # 0 =>
    /\ pc \in {"open", "read"} => Len(batch) = total % csv.batchSize
    /\ pc = "batch" => Len(batch) = csv.batchSize /\ total % csv.batchSize = 0

CloseInv ==
  /\ pc = "open" => closes = <<>>
  /\ pc \in {"read", "batch", "last"} => closes = <<>> /\ csv.gzip # "broken"
  /\ pc = "deferred" => \/ closes = <<>> /\ csv.gzip # "broken"
                        \/ closes = <<"stream">> /\ csv.gzip = "broken"

CsvInv ==
  /\ CsvTypes /\ BatchInv /\ SizeInv /\ CloseInv
  /\ pc \in {"deferred", "done"} => Csv!RowsOnceInOrder
  /\ Csv!PanicsOnlyAfterFailure /\ Csv!ClosedInOrder

-----------------------------------------------------------------------------
(* Remainders.                                                             *)

LEMMA Division ==
  ASSUME NEW n \in Nat, NEW s \in Nat, s # 0
  PROVE  n = s * (n \div s) + (n % s) /\ n \div s \in Nat /\ n % s \in 0..(s - 1)
OBVIOUS

LEMMA NextMultiple ==
  ASSUME NEW s \in Nat, NEW a \in Nat, NEW b \in Nat, a < b
  PROVE  s * a + s <= s * b
<1>1. a + 1 <= b
  OBVIOUS
<1>2. s * (a + 1) <= s * b
  BY <1>1
<1>3. s * (a + 1) = s * a + s
  OBVIOUS
<1>. QED  BY <1>2, <1>3

LEMMA RemainderUnique ==
  ASSUME NEW s \in Nat, s # 0, NEW a \in Nat, NEW b \in Nat, NEW r \in 0..(s - 1), NEW t \in 0..(s - 1),
         s * a + r = s * b + t
  PROVE  r = t
<1>1. CASE a < b
  BY <1>1, NextMultiple
<1>2. CASE b < a
  BY <1>2, NextMultiple
<1>3. CASE a = b
  BY <1>3
<1>. QED  BY <1>1, <1>2, <1>3

(* One more: the remainder grows by one, or starts again at zero.          *)
LEMMA NextRemainder ==
  ASSUME NEW n \in Nat, NEW s \in Nat, s # 0
  PROVE  (n + 1) % s = IF n % s = s - 1 THEN 0 ELSE (n % s) + 1
<1> DEFINE q == n \div s
           p == (n + 1) \div s
           r == n % s
           t == (n + 1) % s
<1>1. n = s * q + r /\ q \in Nat /\ r \in 0..(s - 1)
  BY Division
<1>2. n + 1 = s * p + t /\ p \in Nat /\ t \in 0..(s - 1)
  <2>1. n + 1 \in Nat
    OBVIOUS
  <2>. QED  BY <2>1, Division
<1> HIDE DEF q, p, r, t
<1>3. CASE r = s - 1
  <2>1. s * p + t = s * (q + 1) + 0
    BY <1>1, <1>2, <1>3
  <2>2. t = 0
    BY <1>1, <1>2, <2>1, RemainderUnique
  <2>. QED  BY <1>3, <2>2 DEF r, t
<1>4. CASE r # s - 1
  <2>1. r + 1 \in 0..(s - 1)
    BY <1>1, <1>4
  <2>2. s * p + t = s * q + (r + 1)
    BY <1>1, <1>2, <1>4
  <2>3. t = r + 1
    BY <1>1, <1>2, <2>1, <2>2, RemainderUnique
  <2>. QED  BY <1>4, <2>3 DEF r, t
<1>. QED  BY <1>3, <1>4

(* Two increasing sequences, one after the other.                          *)
LEMMA ConcatFacts ==
  ASSUME NEW s \in Seq(Nat), NEW t \in Seq(Nat)
  PROVE  /\ s \o t \in Seq(Nat)
         /\ \A k \in DOMAIN (s \o t) :
              \/ k \in DOMAIN s /\ (s \o t)[k] = s[k]
              \/ k \notin DOMAIN s /\ k - Len(s) \in DOMAIN t /\ (s \o t)[k] = t[k - Len(s)]
         /\ \A k \in DOMAIN s : k \in DOMAIN (s \o t) /\ (s \o t)[k] = s[k]
         /\ \A k \in DOMAIN t : Len(s) + k \in DOMAIN (s \o t) /\ (s \o t)[Len(s) + k] = t[k]
<1>1. Len(s) \in Nat /\ Len(t) \in Nat /\ DOMAIN s = 1..Len(s) /\ DOMAIN t = 1..Len(t)
  OBVIOUS
<1>2. /\ Len(s \o t) = Len(s) + Len(t) /\ DOMAIN (s \o t) = 1..Len(s \o t) /\ s \o t \in Seq(Nat)
      /\ \A i \in 1..Len(s \o t) : (s \o t)[i] = IF i \in 1..Len(s) THEN s[i] ELSE t[i - Len(s)]
  OBVIOUS
<1>. QED  BY <1>1, <1>2

LEMMA ConcatIncreases ==
  ASSUME NEW s \in Seq(Nat), NEW t \in Seq(Nat), Increasing(s), Increasing(t),
         \A i \in DOMAIN s : \A j \in DOMAIN t : s[i] < t[j]
  PROVE  Increasing(s \o t)
<1> DEFINE u == s \o t
<1>1. Len(s) \in Nat /\ Len(t) \in Nat /\ DOMAIN s = 1..Len(s) /\ DOMAIN t = 1..Len(t)
  OBVIOUS
<1>2. Len(u) = Len(s) + Len(t) /\ DOMAIN u = 1..Len(u)
  OBVIOUS
<1>3. \A k \in DOMAIN u : \/ k \in DOMAIN s /\ u[k] = s[k]
                          \/ k \notin DOMAIN s /\ k - Len(s) \in DOMAIN t /\ u[k] = t[k - Len(s)]
  BY ConcatFacts
<1> HIDE DEF u
<1>4. ASSUME NEW i \in DOMAIN u, NEW j \in DOMAIN u, i < j
      PROVE  u[i] < u[j]
  <2>1. i \in DOMAIN s \/ j \notin DOMAIN s
    BY <1>1, <1>2, <1>4
  <2>2. CASE i \in DOMAIN s /\ j \in DOMAIN s
    BY <1>3, <1>4, <2>2 DEF Increasing
  <2>3. CASE i \in DOMAIN s /\ j \notin DOMAIN s
    BY <1>3, <2>3
  <2>4. CASE i \notin DOMAIN s /\ j \notin DOMAIN s
    <3>1. i - Len(s) < j - Len(s)
      BY <1>1, <1>2, <1>4
    <3>. QED  BY <1>3, <2>4, <3>1 DEF Increasing
  <2>. QED  BY <2>1, <2>2, <2>3, <2>4
<1>5. Increasing(u)
  BY <1>4 DEF Increasing
<1>. QED  BY <1>5 DEF u

-----------------------------------------------------------------------------
(* What the batch holds.                                                   *)

(* Rows that were taken in the order of the file, whatever is in the batch.*)
LEMMA TakenInOrder ==
  ASSUME CsvTypes, BatchInv, pc \in {"open", "read", "batch", "last"}
  PROVE  /\ \A i, j \in DOMAIN accepted : i < j => accepted[i] < accepted[j]
         /\ \A i \in DOMAIN accepted : accepted[i] \in 1..read /\ Csv!Row(accepted[i])
         /\ \A i \in DOMAIN accepted : \A k \in 1..accepted[i] : Csv!Row(k) => Has(accepted, k)
<1>1. \A i \in DOMAIN accepted : \A j \in DOMAIN batch : accepted[i] < batch[j]
  BY DEF BatchInv
<1>2. ReadRows(accepted)
  BY DEF BatchInv
<1>3. ASSUME NEW i \in DOMAIN accepted, NEW k \in 1..accepted[i], Csv!Row(k), ~Has(accepted, k)
      PROVE  FALSE
  <2>1. accepted[i] \in 1..read
    BY <1>2 DEF ReadRows
  <2>2. k \in 1..read /\ k <= accepted[i]
    BY <2>1 DEF CsvTypes, CsvRecord
  <2>3. Has(batch, k)
    BY <1>3, <2>2 DEF BatchInv
  <2>4. PICK j \in DOMAIN batch : batch[j] = k
    BY <2>3 DEF Has
  <2>. QED  BY <1>1, <2>1, <2>2, <2>4 DEF CsvTypes, CsvRecord
<1>. QED  BY <1>2, <1>3 DEF BatchInv, Increasing, ReadRows

(* The reader ends, and onBatch has what it had.                           *)
LEMMA CsvFinishes ==
  ASSUME CsvInv, pc \in {"open", "read", "batch"}, UNCHANGED <<csv, batch, accepted>>,
         read' \in 0..Len(csv.records), read <= read', total' \in Nat, tolerated' \in BOOLEAN,
         tolerated => tolerated',
         pc' = "deferred", result' \in {"error", "panic"},
         result' = "panic" => csv.batchSize = 0 \/ tolerated,
         \/ closes' = <<>> /\ csv.gzip # "broken"
         \/ closes' = <<"stream">> /\ csv.gzip = "broken"
  PROVE  CsvInv'
<1>1. CsvTypes'
  BY DEF CsvInv, CsvTypes, CsvRecord
<1>2. BatchInv' /\ SizeInv' /\ CloseInv' /\ Csv!ClosedInOrder'
  BY DEF BatchInv, SizeInv, CloseInv, Csv!ClosedInOrder
<1>3. Csv!PanicsOnlyAfterFailure'
  BY DEF Csv!PanicsOnlyAfterFailure, Csv!Size
<1>4. Csv!RowsOnceInOrder'
  <2>1. CsvTypes /\ BatchInv
    BY DEF CsvInv
  <2>2. /\ \A i, j \in DOMAIN accepted : i < j => accepted[i] < accepted[j]
        /\ \A i \in DOMAIN accepted : accepted[i] \in 1..read /\ Csv!Row(accepted[i])
        /\ \A i \in DOMAIN accepted : \A k \in 1..accepted[i] : Csv!Row(k) => Has(accepted, k)
    BY <2>1, TakenInOrder
  <2>3. \A i \in DOMAIN accepted : accepted[i] \in 1..read'
    BY <2>1, <2>2 DEF CsvTypes, CsvRecord
  <2>4. \A k : Csv!Row(k)' <=> Csv!Row(k)
    BY DEF Csv!Row
  <2>5. result' # "ok"
    OBVIOUS
  <2>. QED  BY <2>2, <2>3, <2>5 DEF Csv!RowsOnceInOrder, Csv!Row, Has
<1>. QED  BY <1>1, <1>2, <1>3, <1>4 DEF CsvInv

(* Reading goes on.                                                        *)
LEMMA CsvGoesOn ==
  ASSUME CsvTypes', BatchInv', SizeInv', CloseInv', pc' \in {"open", "read", "batch", "last"}
  PROVE  CsvInv'
<1>1. result' = "none"
  BY DEF BatchInv
<1>2. Csv!PanicsOnlyAfterFailure' /\ Csv!ClosedInOrder'
  BY <1>1 DEF Csv!PanicsOnlyAfterFailure, Csv!ClosedInOrder
<1>. QED  BY <1>2 DEF CsvInv

LEMMA CsvOpens ==
  ASSUME CsvInv, Csv!makeReaders
  PROVE  CsvInv'
<1>1. /\ pc = "open" /\ UNCHANGED <<csv, read, batch, total, accepted, tolerated>>
      /\ CsvTypes /\ BatchInv /\ result = "none"
  BY DEF Csv!makeReaders, CsvInv, BatchInv
<1>2. CASE csv.gzip = "broken"
  <2>1. closes' = <<"stream">> /\ pc' = "deferred" /\ result' = "error"
    BY <1>2 DEF Csv!makeReaders, Csv!Finishes
  <2>2. read' \in 0..Len(csv.records) /\ read <= read' /\ total' \in Nat /\ tolerated' \in BOOLEAN
    BY <1>1 DEF CsvTypes, CsvRecord
  <2>. QED  BY <1>1, <1>2, <2>1, <2>2, CsvFinishes
<1>3. CASE csv.gzip # "broken"
  <2>1. closes' = <<>> /\ pc' = "read" /\ result' = result
    BY <1>3 DEF Csv!makeReaders
  <2>2. CsvTypes'
    BY <1>1, <2>1 DEF CsvTypes, CsvRecord
  <2>3. BatchInv' /\ CloseInv'
    BY <1>1, <1>3, <2>1 DEF BatchInv, CloseInv, Increasing, Has, ReadRows, Csv!Row
  <2>4. SizeInv'
    BY <1>1, <2>1 DEF CsvInv, SizeInv
  <2>. QED  BY <2>1, <2>2, <2>3, <2>4, CsvGoesOn
<1>. QED  BY <1>2, <1>3

(* A record is read into the batch.                                        *)
LEMMA RowAppended ==
  ASSUME CsvTypes, BatchInv, pc = "read", read < Len(csv.records), csv.records[read + 1] = "row",
         UNCHANGED <<csv, accepted>>, read' = read + 1, batch' = Append(batch, read + 1),
         pc' \in {"read", "batch"}, result' = result
  PROVE  BatchInv' /\ batch' \in Seq(Nat) /\ Len(batch') = Len(batch) + 1
<1>1. read \in Nat /\ read' \in Nat /\ Len(batch) \in Nat /\ DOMAIN batch = 1..Len(batch) /\ Len(accepted) \in Nat
      /\ DOMAIN accepted = 1..Len(accepted)
  BY DEF CsvTypes, CsvRecord
<1>2. /\ batch' \in Seq(Nat) /\ Len(batch') = Len(batch) + 1 /\ DOMAIN batch' = 1..Len(batch')
      /\ \A i \in DOMAIN batch : batch'[i] = batch[i] /\ i \in DOMAIN batch'
      /\ batch'[Len(batch')] = read + 1
  BY <1>1 DEF CsvTypes
<1>3. \A i \in DOMAIN batch' : i \in DOMAIN batch \/ (i = Len(batch') /\ \A j \in DOMAIN batch : j < i)
  BY <1>1, <1>2
<1>4. /\ \A i \in DOMAIN accepted : accepted[i] \in 1..read
      /\ \A i \in DOMAIN batch : batch[i] \in 1..read
  BY DEF BatchInv, ReadRows
<1>5. \A k \in 1..read : k < read + 1 /\ k \in 1..read'
  BY <1>1
<1>6. Increasing(batch')
  <2>1. ASSUME NEW i \in DOMAIN batch', NEW j \in DOMAIN batch', i < j
        PROVE  batch'[i] < batch'[j]
    <3>1. i \in DOMAIN batch
      BY <1>1, <1>2, <1>3, <2>1
    <3>2. CASE j \in DOMAIN batch
      BY <1>2, <2>1, <3>1, <3>2 DEF BatchInv, Increasing
    <3>3. CASE j = Len(batch')
      BY <1>2, <1>4, <1>5, <3>1, <3>3
    <3>. QED  BY <1>3, <3>2, <3>3
  <2>. QED  BY <2>1 DEF Increasing
<1>7. \A i \in DOMAIN accepted : \A j \in DOMAIN batch' : accepted[i] < batch'[j]
  BY <1>2, <1>3, <1>4, <1>5 DEF BatchInv
<1>8. ReadRows(accepted)'
  BY <1>4, <1>5 DEF BatchInv, ReadRows, Csv!Row
<1>9. ReadRows(batch)'
  <2>1. ASSUME NEW i \in DOMAIN batch'
        PROVE  batch'[i] \in 1..read' /\ csv.records[batch'[i]] = "row"
    <3>1. CASE i \in DOMAIN batch
      BY <1>2, <1>4, <1>5, <3>1 DEF BatchInv, ReadRows, Csv!Row
    <3>2. CASE i = Len(batch')
      BY <1>1, <1>2, <3>2
    <3>. QED  BY <1>3, <2>1, <3>1, <3>2
  <2>. QED  BY <2>1 DEF ReadRows, Csv!Row
<1>10. \A k \in 1..read' : Csv!Row(k)' => Has(accepted, k)' \/ Has(batch, k)'
  <2>1. ASSUME NEW k \in 1..read', csv.records[k] = "row"
        PROVE  Has(accepted, k) \/ \E i \in DOMAIN batch' : batch'[i] = k
    <3>1. CASE k = read + 1
      <4>1. Len(batch') \in DOMAIN batch'
        BY <1>1, <1>2
      <4>. QED  BY <1>2, <3>1, <4>1
    <3>2. CASE k \in 1..read
      <4>1. Has(accepted, k) \/ Has(batch, k)
        BY <2>1, <3>2 DEF BatchInv, Csv!Row
      <4>. QED  BY <1>2, <4>1 DEF Has
    <3>. QED  BY <1>1, <3>1, <3>2
  <2>. QED  BY <2>1 DEF Has, Csv!Row
<1>11. Increasing(accepted)' /\ result' = "none"
  BY DEF BatchInv, Increasing
<1>. QED  BY <1>2, <1>6, <1>7, <1>8, <1>9, <1>10, <1>11 DEF BatchInv, Increasing

LEMMA CsvReads ==
  ASSUME CsvInv, Csv!ReadsRecord
  PROVE  CsvInv'
<1>1. /\ pc = "read" /\ read < Len(csv.records) /\ read' = read + 1
      /\ UNCHANGED <<csv, accepted, tolerated, closes>>
      /\ CsvTypes /\ BatchInv /\ result = "none" /\ closes = <<>> /\ csv.gzip # "broken"
  BY DEF Csv!ReadsRecord, CsvInv, BatchInv, CloseInv
<1>2. /\ read \in Nat /\ read' \in 0..Len(csv.records) /\ read <= read' /\ total \in Nat
      /\ tolerated \in BOOLEAN /\ csv.batchSize \in Nat /\ Len(batch) \in Nat
      /\ read + 1 \in 1..Len(csv.records)
  BY <1>1 DEF CsvTypes, CsvRecord
<1>3. csv.records[read + 1] \in {"row", "bad"}
  BY <1>1, <1>2 DEF CsvTypes, CsvRecord
<1>4. CASE csv.records[read + 1] = "bad" /\ Csv!GivesUp
  <2>1. pc' = "deferred" /\ result' = "error" /\ UNCHANGED <<batch, total>>
    BY <1>4 DEF Csv!ReadsRecord, Csv!Fails, Csv!Finishes
  <2>. QED  BY <1>1, <1>2, <2>1, CsvFinishes
<1>5. CASE csv.records[read + 1] = "bad" /\ ~Csv!GivesUp
  <2>1. pc' = "read" /\ result' = result /\ UNCHANGED <<batch, total>>
    BY <1>5 DEF Csv!ReadsRecord, Csv!Fails
  <2>2. CsvTypes'
    BY <1>1, <1>2, <2>1 DEF CsvTypes, CsvRecord
  <2>3. BatchInv'
    <3>1. \A k \in 1..read' : Csv!Row(k)' => Has(accepted, k)' \/ Has(batch, k)'
      <4>1. ASSUME NEW k \in 1..read', csv.records[k] = "row"
            PROVE  Has(accepted, k) \/ Has(batch, k)
        <5>1. k \in 1..read
          BY <1>1, <1>2, <1>5, <4>1
        <5>. QED  BY <1>1, <4>1, <5>1 DEF BatchInv, Csv!Row
      <4>. QED  BY <1>1, <2>1, <4>1 DEF Has, Csv!Row
    <3>2. \A k \in 1..read : k \in 1..read'
      BY <1>1, <1>2
    <3>. QED  BY <1>1, <2>1, <3>1, <3>2 DEF BatchInv, Increasing, ReadRows, Csv!Row
  <2>4. SizeInv' /\ CloseInv'
    BY <1>1, <2>1 DEF CsvInv, SizeInv, CloseInv
  <2>. QED  BY <2>1, <2>2, <2>3, <2>4, CsvGoesOn
<1>6. CASE csv.records[read + 1] = "row" /\ Len(batch) = csv.batchSize
  <2>1. pc' = "deferred" /\ result' = "panic" /\ UNCHANGED <<batch, total>>
    BY <1>6 DEF Csv!ReadsRecord, Csv!Finishes, Csv!Size
  <2>2. csv.batchSize = 0 \/ tolerated
    <3>1. SUFFICES ASSUME csv.batchSize # 0, ~tolerated  PROVE FALSE
      OBVIOUS
    <3>2. Len(batch) = total % csv.batchSize
      BY <1>1, <3>1 DEF CsvInv, SizeInv
    <3>3. total % csv.batchSize \in 0..(csv.batchSize - 1)
      BY <1>2, <3>1, Division
    <3>. QED  BY <1>2, <1>6, <3>2, <3>3
  <2>. QED  BY <1>1, <1>2, <2>1, <2>2, CsvFinishes
<1>7. CASE csv.records[read + 1] = "row" /\ Len(batch) # csv.batchSize
  <2>1. /\ batch' = Append(batch, read + 1) /\ total' = total + 1 /\ result' = result
        /\ pc' = IF (total + 1) % csv.batchSize = 0 THEN "batch" ELSE "read"
    BY <1>7 DEF Csv!ReadsRecord, Csv!Size, Csv!BatchComplete
  <2>2. BatchInv' /\ batch' \in Seq(Nat) /\ Len(batch') = Len(batch) + 1
    BY <1>1, <1>7, <2>1, RowAppended
  <2>3. CsvTypes'
    BY <1>1, <1>2, <2>1, <2>2 DEF CsvTypes, CsvRecord
  <2>4. CloseInv'
    BY <1>1, <2>1 DEF CloseInv
  <2>5. SizeInv'
    <3>1. SUFFICES ASSUME csv.batchSize # 0, ~tolerated
                   PROVE  /\ pc' = "read" => Len(batch') = total' % csv.batchSize
                          /\ pc' = "batch" => Len(batch') = csv.batchSize /\ total' % csv.batchSize = 0
      BY <1>1, <2>1 DEF SizeInv
    <3>2. Len(batch) = total % csv.batchSize
      BY <1>1, <3>1 DEF CsvInv, SizeInv
    <3>3. (total + 1) % csv.batchSize = IF total % csv.batchSize = csv.batchSize - 1
                                        THEN 0 ELSE (total % csv.batchSize) + 1
      BY <1>2, <3>1, NextRemainder
    <3>. QED  BY <1>2, <2>1, <2>2, <3>1, <3>2, <3>3
  <2>. QED  BY <2>1, <2>2, <2>3, <2>4, <2>5, CsvGoesOn
<1>. QED  BY <1>3, <1>4, <1>5, <1>6, <1>7

LEMMA CsvReadsEnd ==
  ASSUME CsvInv, Csv!ReadsEnd
  PROVE  CsvInv'
<1>1. /\ pc = "read" /\ read = Len(csv.records)
      /\ UNCHANGED <<csv, read, batch, total, accepted, tolerated, closes>>
      /\ CsvTypes /\ BatchInv /\ result = "none" /\ closes = <<>> /\ csv.gzip # "broken"
  BY DEF Csv!ReadsEnd, CsvInv, BatchInv, CloseInv
<1>2. CASE pc' \in {"last", "read"} /\ result' = result
  <2>1. CsvTypes'
    BY <1>1, <1>2 DEF CsvTypes, CsvRecord
  <2>2. BatchInv'
    BY <1>1, <1>2 DEF BatchInv, Increasing, Has, ReadRows, Csv!Row
  <2>3. SizeInv' /\ CloseInv'
    BY <1>1, <1>2 DEF CsvInv, SizeInv, CloseInv
  <2>. QED  BY <1>2, <2>1, <2>2, <2>3, CsvGoesOn
<1>3. CASE pc' = "deferred" /\ result' = "error"
  <2>1. read' \in 0..Len(csv.records) /\ read <= read' /\ total' \in Nat /\ tolerated' \in BOOLEAN
    BY <1>1 DEF CsvTypes, CsvRecord
  <2>. QED  BY <1>1, <1>3, <2>1, CsvFinishes
<1>. QED  BY <1>2, <1>3 DEF Csv!ReadsEnd, Csv!Fails, Csv!Finishes

(* A batch that is taken follows what was taken before.                    *)
LEMMA BatchTaken ==
  ASSUME CsvTypes, BatchInv, pc \in {"batch", "last"}
  PROVE  /\ accepted \o batch \in Seq(Nat) /\ Increasing(accepted \o batch) /\ ReadRows(accepted \o batch)
         /\ \A k \in 1..read : Csv!Row(k) => Has(accepted \o batch, k)
<1> DEFINE taken == accepted \o batch
<1>1. /\ taken \in Seq(Nat)
      /\ \A k \in DOMAIN taken : \/ k \in DOMAIN accepted /\ taken[k] = accepted[k]
                                \/ /\ k - Len(accepted) \in DOMAIN batch
                                   /\ taken[k] = batch[k - Len(accepted)]
      /\ \A k \in DOMAIN accepted : k \in DOMAIN taken /\ taken[k] = accepted[k]
      /\ \A k \in DOMAIN batch : Len(accepted) + k \in DOMAIN taken /\ taken[Len(accepted) + k] = batch[k]
  BY ConcatFacts DEF CsvTypes
<1>2. Increasing(taken)
  BY ConcatIncreases DEF CsvTypes, BatchInv
<1> HIDE DEF taken
<1>3. ReadRows(taken)
  BY <1>1 DEF BatchInv, ReadRows
<1>4. \A k \in 1..read : Csv!Row(k) => Has(taken, k)
  BY <1>1 DEF BatchInv, Has
<1>. QED  BY <1>1, <1>2, <1>3, <1>4 DEF taken

LEMMA CsvAccepts ==
  ASSUME CsvInv, Csv!BatchAccepted
  PROVE  CsvInv'
<1>1. /\ pc = "batch" /\ accepted' = accepted \o batch /\ batch' = <<>> /\ pc' = "read"
      /\ UNCHANGED <<csv, read, total, tolerated, closes, result>>
      /\ CsvTypes /\ BatchInv /\ result = "none" /\ closes = <<>> /\ csv.gzip # "broken"
  BY DEF Csv!BatchAccepted, CsvInv, BatchInv, CloseInv
<1>2. /\ accepted' \in Seq(Nat) /\ Increasing(accepted') /\ ReadRows(accepted')
      /\ \A k \in 1..read : Csv!Row(k) => Has(accepted', k)
  BY <1>1, BatchTaken
<1>3. batch' \in Seq(Nat) /\ DOMAIN batch' = {} /\ Len(batch') = 0
  BY <1>1
<1>4. CsvTypes'
  BY <1>1, <1>2, <1>3 DEF CsvTypes, CsvRecord
<1>5. BatchInv'
  BY <1>1, <1>2, <1>3 DEF BatchInv, Increasing, ReadRows, Has, Csv!Row
<1>6. SizeInv' /\ CloseInv'
  BY <1>1, <1>3 DEF CsvInv, SizeInv, CloseInv
<1>. QED  BY <1>1, <1>4, <1>5, <1>6, CsvGoesOn

LEMMA CsvBatchFails ==
  ASSUME CsvInv, Csv!BatchFails
  PROVE  CsvInv'
<1>1. /\ pc = "batch" /\ tolerated' = (tolerated \/ ~Csv!GivesUp)
      /\ UNCHANGED <<csv, read, batch, total, accepted, closes>>
      /\ CsvTypes /\ BatchInv /\ result = "none" /\ closes = <<>> /\ csv.gzip # "broken"
  BY DEF Csv!BatchFails, CsvInv, BatchInv, CloseInv
<1>2. tolerated' \in BOOLEAN
  BY <1>1
<1>3. CASE Csv!GivesUp
  <2>1. pc' = "deferred" /\ result' = "error"
    BY <1>3 DEF Csv!BatchFails, Csv!Fails, Csv!Finishes
  <2>2. read' \in 0..Len(csv.records) /\ read <= read' /\ total' \in Nat
    BY <1>1 DEF CsvTypes, CsvRecord
  <2>. QED  BY <1>1, <1>2, <2>1, <2>2, CsvFinishes
<1>4. CASE ~Csv!GivesUp
  <2>1. pc' = "read" /\ result' = result /\ tolerated'
    BY <1>1, <1>4 DEF Csv!BatchFails, Csv!Fails
  <2>2. CsvTypes'
    BY <1>1, <1>2, <2>1 DEF CsvTypes, CsvRecord
  <2>3. BatchInv'
    BY <1>1, <2>1 DEF BatchInv, Increasing, Has, ReadRows, Csv!Row
  <2>4. SizeInv' /\ CloseInv'
    BY <1>1, <2>1 DEF SizeInv, CloseInv
  <2>. QED  BY <2>1, <2>2, <2>3, <2>4, CsvGoesOn
<1>. QED  BY <1>3, <1>4

LEMMA CsvLastBatch ==
  ASSUME CsvInv, Csv!LastBatch
  PROVE  CsvInv'
<1>1. /\ pc = "last" /\ pc' = "deferred" /\ UNCHANGED <<csv, read, batch, total, tolerated, closes>>
      /\ \/ accepted' = accepted \o batch /\ result' = "ok"
         \/ accepted' = accepted /\ result' = "error"
      /\ CsvTypes /\ BatchInv /\ closes = <<>> /\ csv.gzip # "broken" /\ read = Len(csv.records)
  BY DEF Csv!LastBatch, Csv!Finishes, CsvInv, BatchInv, CloseInv
<1>2. /\ accepted \o batch \in Seq(Nat) /\ Increasing(accepted \o batch) /\ ReadRows(accepted \o batch)
      /\ \A k \in 1..read : Csv!Row(k) => Has(accepted \o batch, k)
  BY <1>1, BatchTaken
<1>3. CsvTypes'
  BY <1>1, <1>2 DEF CsvTypes, CsvRecord
<1>4. BatchInv' /\ SizeInv' /\ CloseInv' /\ Csv!PanicsOnlyAfterFailure' /\ Csv!ClosedInOrder'
  BY <1>1 DEF BatchInv, SizeInv, CloseInv, Csv!PanicsOnlyAfterFailure, Csv!ClosedInOrder
<1>5. Csv!RowsOnceInOrder'
  <2>1. CASE accepted' = accepted /\ result' = "error"
    BY <1>1, <2>1, TakenInOrder DEF Csv!RowsOnceInOrder, Csv!Row, Has
  <2>2. CASE accepted' = accepted \o batch
    <3>1. /\ Increasing(accepted') /\ ReadRows(accepted')
          /\ \A k \in 1..read : Csv!Row(k) => Has(accepted', k)
      BY <1>2, <2>2
    <3>2. DOMAIN csv.records = 1..read
      BY <1>1 DEF CsvTypes, CsvRecord
    <3>3. ASSUME NEW i \in DOMAIN accepted', NEW k \in 1..(accepted'[i])
          PROVE  k \in 1..read
      BY <1>1, <3>1, <3>3 DEF ReadRows, CsvTypes, CsvRecord
    <3>. QED  BY <1>1, <3>1, <3>2, <3>3 DEF Csv!RowsOnceInOrder, Csv!Row, Increasing, ReadRows, Has
  <2>. QED  BY <1>1, <2>1, <2>2
<1>. QED  BY <1>3, <1>4, <1>5 DEF CsvInv

LEMMA LastClosed ==
  ASSUME NEW s, s \in {<<"stream">>, <<"gzip", "stream">>}
  PROVE  /\ s[Len(s)] = "stream"
         /\ s = <<"stream">> => (s \o <<"stream">>)[Len(s \o <<"stream">>)] = "stream"
<1>1. s[Len(s)] = "stream"
  OBVIOUS
<1>2. ASSUME s = <<"stream">>  PROVE (s \o <<"stream">>)[Len(s \o <<"stream">>)] = "stream"
  BY <1>2
<1>. QED  BY <1>1, <1>2

LEMMA CsvReturns ==
  ASSUME CsvInv, Csv!Returns
  PROVE  CsvInv'
<1>1. /\ pc = "deferred" /\ pc' = "done" /\ closes' = closes \o Csv!DeferredCloses
      /\ UNCHANGED <<csv, read, batch, total, accepted, tolerated, result>>
      /\ CsvTypes
      /\ \/ closes = <<>> /\ csv.gzip # "broken"
         \/ closes = <<"stream">> /\ csv.gzip = "broken"
  BY DEF Csv!Returns, CsvInv, CloseInv
<1>2. CsvTypes' /\ BatchInv' /\ SizeInv' /\ CloseInv' /\ Csv!PanicsOnlyAfterFailure'
  BY <1>1 DEF CsvInv, CsvTypes, CsvRecord, BatchInv, SizeInv, CloseInv, Csv!PanicsOnlyAfterFailure, Csv!Size
<1>3. Csv!RowsOnceInOrder'
  BY <1>1 DEF CsvInv, Csv!RowsOnceInOrder, Csv!Row
<1>4. Csv!ClosedInOrder'
  <2>1. CASE closes = <<>> /\ csv.gzip = "sound"
    <3>1. closes' = closes \o <<"gzip", "stream">>
      BY <1>1, <2>1 DEF Csv!DeferredCloses
    <3>2. closes' = <<"gzip", "stream">>
      BY <2>1, <3>1
    <3>. QED  BY <3>2, LastClosed DEF Csv!ClosedInOrder
  <2>2. CASE closes = <<>> /\ csv.gzip # "sound"
    <3>1. closes' = closes \o <<"stream">>
      BY <1>1, <2>2 DEF Csv!DeferredCloses
    <3>2. closes' = <<"stream">>
      BY <2>2, <3>1
    <3>. QED  BY <1>1, <2>2, <3>2, LastClosed DEF Csv!ClosedInOrder
  <2>3. CASE closes = <<"stream">> /\ csv.gzip = "broken"
    <3>1. closes' = closes \o <<"stream">>
      BY <1>1, <2>3 DEF Csv!DeferredCloses
    <3>. QED  BY <1>1, <2>3, <3>1, LastClosed DEF Csv!ClosedInOrder
  <2>. QED  BY <1>1, <2>1, <2>2, <2>3
<1>. QED  BY <1>2, <1>3, <1>4 DEF CsvInv

LEMMA CsvStep ==
  ASSUME CsvInv, Csv!Next
  PROVE  CsvInv'
BY CsvOpens, CsvReads, CsvReadsEnd, CsvAccepts, CsvBatchFails, CsvLastBatch, CsvReturns DEF Csv!Next

LEMMA CsvStart ==
  ASSUME Csv!Init
  PROVE  CsvInv
<1>1. /\ pc = "open" /\ read = 0 /\ batch = <<>> /\ total = 0 /\ accepted = <<>>
      /\ tolerated = FALSE /\ closes = <<>> /\ result = "none"
  BY DEF Csv!Init
<1>2. CsvRecord
  <2>1. PICK n \in 0..MaxRecords : csv.records \in [1..n -> {"row", "bad"}]
    BY DEF Csv!Init, Csv!Files
  <2>2. n \in Nat
    BY RequestsAssumption DEF Csv!CsvAssumption
  <2>3. Len(csv.records) = n
    BY <2>1, <2>2
  <2>4. csv.batchSize \in Nat /\ csv.gzip \in {"off", "sound", "broken"}
    BY RequestsAssumption DEF Csv!Init, Csv!CsvAssumption
  <2>. QED  BY <2>1, <2>2, <2>3, <2>4 DEF CsvRecord
<1>3. CsvTypes /\ DOMAIN batch = {} /\ DOMAIN accepted = {} /\ Len(batch) = 0
  <2>1. batch \in Seq(Nat) /\ accepted \in Seq(Nat) /\ Len(batch) = 0 /\ DOMAIN batch = {} /\ DOMAIN accepted = {}
    BY <1>1
  <2>2. read \in 0..Len(csv.records)
    BY <1>1, <1>2 DEF CsvRecord
  <2>. QED  BY <1>1, <1>2, <2>1, <2>2 DEF CsvTypes
<1>4. BatchInv /\ CloseInv
  BY <1>1, <1>3 DEF BatchInv, CloseInv, Increasing, ReadRows, Has
<1>5. SizeInv
  <2>1. ASSUME NEW s \in Nat, s # 0  PROVE 0 % s = 0
    <3>1. 0 = s * (0 \div s) + (0 % s) /\ 0 \div s \in Nat /\ 0 % s \in 0..(s - 1)
      BY <2>1, Division
    <3>2. s * (0 \div s) \in Nat
      BY <3>1
    <3>. QED  BY <3>1, <3>2
  <2>. QED  BY <1>1, <1>2, <1>3, <2>1 DEF SizeInv, CsvRecord
<1>6. Csv!PanicsOnlyAfterFailure /\ Csv!ClosedInOrder
  BY <1>1 DEF Csv!PanicsOnlyAfterFailure, Csv!ClosedInOrder
<1>. QED  BY <1>1, <1>3, <1>4, <1>5, <1>6 DEF CsvInv

LEMMA RowsAreAccounted ==
  ASSUME CsvInv  PROVE RowsAccounted
<1>1. Csv!RowsOnceInOrder
  <2>1. CASE pc \in {"deferred", "done"}
    BY <2>1 DEF CsvInv
  <2>2. CASE pc \in {"open", "read", "batch", "last"}
    BY <2>2, TakenInOrder DEF CsvInv, BatchInv, Csv!RowsOnceInOrder, Has
  <2>. QED  BY <2>1, <2>2 DEF CsvInv, CsvTypes
<1>. QED  BY <1>1 DEF CsvInv, RowsAccounted

-----------------------------------------------------------------------------
(* HttpService.                                                            *)

RequestFields ==
  {"stage", "method", "uri", "action", "query", "ctype", "body", "desc", "done", "err", "code",
   "result", "ctxErr", "encoded", "status", "content"}

(* What is known of a request at each stage.                               *)
RequestInv(q) ==
  /\ DOMAIN q = RequestFields /\ q.done \in BOOLEAN
  /\ q.stage \in {"none", "arrived", "handling", "returned", "sent", "panic"}
  /\ q.body \in Http!Contents
  /\ q.stage \in {"none", "arrived", "handling", "returned"} => q.encoded = TRUE /\ q.ctxErr = "nil"
  /\ q.stage \in {"none", "arrived", "handling"} => q.err = "nil" /\ ~q.done
  /\ q.stage \in {"none", "arrived"} => q.desc = Http!NoDesc
  /\ q.stage \in {"handling", "returned"} => q.desc.mType \in {"rest", "soap"}
  /\ q.stage = "handling" \/ q.done => (q.desc.shape = "body" => q.body \in {"ok", "noContent"})
  /\ q.stage = "returned" /\ q.err = "nil" => q.done \/ "interceptor" \in hooks
  /\ q.stage = "sent" =>
       /\ q.status = 200 /\ hooks \cap {"errorHandler", "unimplErrorMapper", "interceptor"} = {} =>
            q.done \/ q.content = "static" \/ Http!Silent(q) \/ Http!Ignored(q)
       /\ q.desc # Http!NoDesc /\ "errorHandler" \notin hooks =>
            \/ Http!Silent(q) \/ Http!OwnStatus(q)
            \/ q.status = 200 <=> q.ctxErr = "nil" /\ q.encoded = TRUE

CallInv(c) ==
  /\ DOMAIN call[c] = {"state", "want", "result"}
  /\ call[c].result = "ok" =>
       call[c].state = "done" /\ req[c].stage = "sent" /\ req[c].status = 200

(* The history is a sequence.                                             *)
IsHistory == \E S : calls \in Seq(S)

HttpInv ==
  /\ DOMAIN req = Clients /\ DOMAIN call = Clients
  /\ \A c \in Clients : RequestInv(req[c]) /\ CallInv(c)
  /\ \A k \in DOMAIN actions : actions[k] # Http!NoDesc
  /\ IsHistory
  /\ TableAsRegistered

-----------------------------------------------------------------------------
(* Answers.                                                                *)

(* What an answer leaves as it is.                                         *)
Keeps(q, new) ==
  /\ DOMAIN new = RequestFields /\ new.body = q.body /\ new.desc = q.desc
  /\ new.done = q.done /\ new.ctxErr = q.ctxErr /\ new.result = q.result /\ new.code = q.code

IsAnswer(q, new, status) ==
  /\ Keeps(q, new) /\ new.stage = "sent"
  /\ \/ new.status = status /\ new.encoded = q.encoded
     \/ new.status = 500 /\ new.encoded = FALSE

(* The handler, or what came before it, is over.                           *)
Over(q, new) ==
  /\ DOMAIN new = RequestFields /\ new.body = q.body /\ new.desc = q.desc
  /\ new.done = q.done /\ new.ctxErr = q.ctxErr /\ new.encoded = q.encoded
  /\ new.stage = "returned"

(* All that may be returned for an error.                                  *)
Errors(q) ==
  Http!Failed(q) \cup {Http!Fault(q, 400), Http!Fails(q, "soapFault"), Http!Fails(q, "validation")}

LEMMA Failing ==
  ASSUME NEW q, DOMAIN q = RequestFields, NEW new \in Errors(q)
  PROVE  Over(q, new) /\ new.err # "nil"
<1>1. ASSUME NEW err \in {"error", "fault", "soapFault", "validation"}
      PROVE  Over(q, Http!Fails(q, err)) /\ Http!Fails(q, err).err = err
  BY <1>1 DEF Http!Fails, RequestFields, Over
<1>2. ASSUME NEW code
      PROVE  Over(q, Http!Fault(q, code)) /\ Http!Fault(q, code).err = "fault"
  <2> DEFINE f == Http!Fails(q, "fault")
  <2>1. Over(q, f) /\ f.err = "fault"
    BY <1>1
  <2> HIDE DEF f
  <2>2. Over(q, [f EXCEPT !.code = code]) /\ [f EXCEPT !.code = code].err = "fault"
    BY <2>1 DEF Over, RequestFields
  <2>. QED  BY <2>2 DEF Http!Fault, f
<1>3. \/ \E err \in {"error", "soapFault", "validation"} : new = Http!Fails(q, err)
      \/ \E code \in Http!FaultCodes \cup {400} : new = Http!Fault(q, code)
  BY DEF Errors, Http!Failed
<1>. QED  BY <1>1, <1>2, <1>3

LEMMA Succeeding ==
  ASSUME NEW q, DOMAIN q = RequestFields, NEW new \in Http!Succeeded(q)
  PROVE  Over(q, new) /\ new.err = "nil"
<1>1. PICK r \in BOOLEAN, s \in {200, 404} : new = Http!Success(q, r, s)
  BY DEF Http!Succeeded
<1>2. Over(q, Http!Success(q, r, s)) /\ Http!Success(q, r, s).err = "nil"
  BY DEF Http!Success, Http!Fails, Http!nil, RequestFields, Over
<1>. QED  BY <1>1, <1>2

LEMMA Refusing ==
  ASSUME NEW q, NEW new, Over(q, new), q.body \in Http!Contents, q.desc.mType \in {"rest", "soap"},
         q.encoded = TRUE, q.ctxErr = "nil", q.done = FALSE,
         new.err = "nil" => "interceptor" \in hooks
  PROVE  RequestInv(new)
BY DEF RequestInv, Over

LEMMA SendingAnswer ==
  ASSUME NEW q, NEW status, NEW content, DOMAIN q = RequestFields
  PROVE  /\ Keeps(q, Http!Sends(q, status, content)) /\ Http!Sends(q, status, content).encoded = q.encoded
         /\ Http!Sends(q, status, content).stage = "sent" /\ Http!Sends(q, status, content).status = status
         /\ Http!Sends(q, status, content).content = content
BY DEF Http!Sends, RequestFields, Keeps

LEMMA Writing ==
  ASSUME NEW q, NEW status, DOMAIN q = RequestFields, NEW new \in Http!Written(q, status)
  PROVE  IsAnswer(q, new, status)
<1>1. CASE new = Http!Sends(q, status, "content")
  BY <1>1, SendingAnswer DEF IsAnswer
<1>2. CASE new = [Http!Sends(q, 500, "none") EXCEPT !.encoded = FALSE]
  <2> DEFINE r == Http!Sends(q, 500, "none")
  <2>1. Keeps(q, r) /\ r.stage = "sent" /\ r.status = 500
    BY SendingAnswer
  <2> HIDE DEF r
  <2>2. new = [r EXCEPT !.encoded = FALSE]
    BY <1>2 DEF r
  <2>3. Keeps(q, new)
    BY <2>1, <2>2 DEF Keeps, RequestFields
  <2>4. new.stage = "sent" /\ new.status = 500 /\ new.encoded = FALSE
    BY <2>1, <2>2 DEF Keeps, RequestFields
  <2>. QED  BY <2>3, <2>4 DEF IsAnswer
<1>. QED  BY <1>1, <1>2 DEF Http!Written

LEMMA Decoding ==
  ASSUME NEW q, q.stage = "arrived", q.body \in Http!Contents, NEW d \in Http!Decoded(q)
  PROVE  \/ d = q /\ (q.desc.shape = "body" => q.body \in {"ok", "noContent"})
         \/ d \in Errors(q)
         \/ d = [q EXCEPT !.stage = "panic"]
<1> DEFINE soap == q.desc.mType = "soap"
           noBody == q.desc.shape = "noBody"
<1>0. {Http!Fault(q, 400), Http!Fails(q, "soapFault"), Http!Fails(q, "validation")} \subseteq Errors(q)
  BY DEF Errors
<1>1. CASE ~soap /\ noBody
  <2>1. Http!Decoded(q) = {q}
    BY <1>1 DEF Http!Decoded
  <2>. QED  BY <1>1, <2>1
<1>2. CASE ~(~soap /\ noBody) /\ q.body \in {"bad", "empty"}
  <2>1. Http!Decoded(q) = {IF soap THEN Http!Fails(q, "soapFault") ELSE Http!Fault(q, 400)}
    BY <1>2 DEF Http!Decoded
  <2>. QED  BY <1>0, <2>1
<1>3. CASE soap /\ noBody /\ q.body \notin {"bad", "empty"}
  <2>1. Http!Decoded(q) = {Http!Fails(q, "soapFault")} \cup {[q EXCEPT !.stage = "panic"]}
    BY <1>3 DEF Http!Decoded
  <2>. QED  BY <1>0, <2>1
<1>4. CASE ~noBody /\ q.body = "invalid"
  <2>1. Http!Decoded(q) = {Http!Fails(q, "validation")}
    BY <1>4 DEF Http!Decoded, Http!Refused
  <2>. QED  BY <1>0, <2>1
<1>5. CASE ~noBody /\ q.body = "noContent"
  <2>1. Http!Decoded(q) \subseteq {q, Http!Fails(q, "validation"), [q EXCEPT !.stage = "panic"]}
    BY <1>5 DEF Http!Decoded, Http!Refused
  <2>. QED  BY <1>0, <1>5, <2>1
<1>6. CASE ~noBody /\ q.body = "ok"
  <2>1. Http!Decoded(q) = {q}
    BY <1>6 DEF Http!Decoded
  <2>. QED  BY <1>6, <2>1
<1>. QED  BY <1>1, <1>2, <1>3, <1>4, <1>5, <1>6 DEF Http!Contents

(* A request that arrived is answered, handled, failed, or the end of all. *)
LEMMA Dispatching ==
  ASSUME NEW q, RequestInv(q), q.stage = "arrived", NEW new \in Http!Dispatched(q),
         \A k \in DOMAIN actions : actions[k] # Http!NoDesc
  PROVE  RequestInv(new)
<1>0. /\ DOMAIN q = RequestFields /\ q.body \in Http!Contents /\ q.encoded = TRUE /\ q.ctxErr = "nil"
      /\ q.err = "nil" /\ q.done = FALSE /\ q.desc = Http!NoDesc
  BY DEF RequestInv
<1>1. CASE new = Http!Sends(q, 200, "static")
  BY <1>0, <1>1, SendingAnswer DEF RequestInv, Keeps
<1>2. CASE new \in Http!Unimplemented(q)
  <2>1. ASSUME NEW s \in {500, 501}, new \in Http!Written(q, s)
        PROVE  RequestInv(new)
    <3>1. IsAnswer(q, new, s)
      BY <1>0, <2>1, Writing
    <3>2. /\ DOMAIN new = RequestFields /\ new.body \in Http!Contents /\ new.done = FALSE
          /\ new.desc = Http!NoDesc /\ new.stage = "sent" /\ new.status # 200
      BY <1>0, <3>1 DEF IsAnswer, Keeps
    <3>. QED  BY <3>2 DEF RequestInv
  <2>2. CASE new = Http!Sends(q, 501, "none")
    BY <1>0, <2>2, SendingAnswer DEF RequestInv, Keeps
  <2>3. ASSUME NEW s \in {200, 404}, "unimplErrorMapper" \in hooks, new \in Http!Written(q, s)
        PROVE  RequestInv(new)
    <3>1. IsAnswer(q, new, s)
      BY <1>0, <2>3, Writing
    <3>2. /\ DOMAIN new = RequestFields /\ new.body \in Http!Contents /\ new.done = FALSE
          /\ new.desc = Http!NoDesc /\ new.stage = "sent"
      BY <1>0, <3>1 DEF IsAnswer, Keeps
    <3>3. hooks \cap {"errorHandler", "unimplErrorMapper", "interceptor"} # {}
      BY <2>3
    <3>. QED  BY <3>2, <3>3 DEF RequestInv
  <2>4. \/ \E s \in {500, 501} : new \in Http!Written(q, s)
        \/ new = Http!Sends(q, 501, "none")
        \/ "unimplErrorMapper" \in hooks /\ \E s \in {200, 404} : new \in Http!Written(q, s)
    BY <1>2 DEF Http!Unimplemented
  <2>. QED  BY <2>1, <2>2, <2>3, <2>4
<1> DEFINE p == [q EXCEPT !.desc = actions[Http!Key(q)]]
<1>3. /\ DOMAIN p = RequestFields /\ p.body \in Http!Contents /\ p.encoded = TRUE /\ p.ctxErr = "nil"
      /\ p.err = "nil" /\ p.done = FALSE /\ p.stage = "arrived"
  BY <1>0 DEF RequestFields
<1> HIDE DEF p
<1>4. CASE p.desc.mType \notin {"rest", "soap"} /\ p.desc # Http!NoDesc /\ new = Http!Sends(p, 200, "none")
  <2>1. /\ DOMAIN new = RequestFields /\ new.body \in Http!Contents /\ new.done = FALSE
        /\ new.desc = p.desc /\ new.stage = "sent" /\ new.status = 200 /\ new.ctxErr = "nil"
        /\ new.encoded = TRUE
    BY <1>3, <1>4, SendingAnswer DEF Keeps
  <2>2. new.desc # Http!NoDesc => Http!Ignored(new)
    BY <1>4, <2>1 DEF Http!Ignored, Http!MTypes
  <2>. QED  BY <1>4, <2>1, <2>2 DEF RequestInv
<1>5. ASSUME p.desc.mType \in {"rest", "soap"},
             NEW m \in Http!AfterMiddlewares(p), NEW d \in Http!Decoded(m), new \in Http!Intercepted(d)
      PROVE  RequestInv(new)
  <2>1. m = p \/ m \in Errors(p)
    BY <1>5 DEF Http!AfterMiddlewares, Errors
  <2>2. ASSUME NEW r \in Errors(p)
        PROVE  RequestInv(r) /\ r.stage = "returned"
    <3>1. Over(p, r) /\ r.err # "nil"
      BY <1>3, Failing
    <3>. QED  BY <1>3, <1>5, <3>1, Refusing DEF Over
  <2>3. CASE m # p
    <3>1. RequestInv(m) /\ m.stage = "returned"
      BY <2>1, <2>2, <2>3
    <3>2. d = m
      BY <1>5, <3>1 DEF Http!Decoded
    <3>3. new = d
      BY <1>5, <3>1, <3>2 DEF Http!Intercepted
    <3>. QED  BY <3>1, <3>2, <3>3
  <2>4. CASE m = p
    <3>1. \/ d = p /\ (p.desc.shape = "body" => p.body \in {"ok", "noContent"})
          \/ d \in Errors(p)
          \/ d = [p EXCEPT !.stage = "panic"]
      BY <1>3, <1>5, <2>4, Decoding
    <3>2. CASE d \in Errors(p)
      <4>1. RequestInv(d) /\ d.stage = "returned"
        BY <2>2, <3>2
      <4>. QED  BY <1>5, <4>1 DEF Http!Intercepted
    <3>3. CASE d = [p EXCEPT !.stage = "panic"]
      <4>1. RequestInv(d) /\ d.stage = "panic"
        BY <1>3, <3>3 DEF RequestInv, RequestFields
      <4>. QED  BY <1>5, <4>1 DEF Http!Intercepted
    <3>4. CASE d = p /\ (p.desc.shape = "body" => p.body \in {"ok", "noContent"})
      <4>1. \/ new = [p EXCEPT !.stage = "handling"]
            \/ new \in Errors(p)
            \/ "interceptor" \in hooks /\ new \in Http!Succeeded(p)
        BY <1>3, <1>5, <3>4 DEF Http!Intercepted, Errors
      <4>2. CASE new = [p EXCEPT !.stage = "handling"]
        BY <1>3, <1>5, <3>4, <4>2 DEF RequestInv, RequestFields
      <4>3. CASE "interceptor" \in hooks /\ new \in Http!Succeeded(p)
        <5>1. Over(p, new)
          BY <1>3, <4>3, Succeeding
        <5>. QED  BY <1>3, <1>5, <4>3, <5>1, Refusing
      <4>. QED  BY <2>2, <4>1, <4>2, <4>3
    <3>. QED  BY <3>1, <3>2, <3>3, <3>4
  <2>. QED  BY <2>3, <2>4
<1>6. \/ new = Http!Sends(q, 200, "static") \/ new \in Http!Unimplemented(q)
      \/ p.desc.mType \notin {"rest", "soap"} /\ p.desc # Http!NoDesc /\ new = Http!Sends(p, 200, "none")
      \/ /\ p.desc.mType \in {"rest", "soap"}
         /\ \E m \in Http!AfterMiddlewares(p) : \E d \in Http!Decoded(m) : new \in Http!Intercepted(d)
  <2>1. p.desc = actions[Http!Key(q)]
    BY <1>0 DEF p, RequestFields
  <2>. QED  BY <2>1 DEF Http!Dispatched, Http!MTypes, p
<1>. QED  BY <1>1, <1>2, <1>4, <1>5, <1>6

(* The statuses that an error, or none, allows.                            *)
Fits(q, status) ==
  \/ q.err = "nil" /\ status = 200
  \/ q.err = "nil" /\ q.desc.mType # "rest" /\ ~q.result
  \/ q.err # "nil" /\ ("errorHandler" \in hooks \/ status # 200)
  \/ q.err = "fault" /\ q.desc.mType = "rest" /\ q.code \in {0, 200}

LEMMA AnswerIs ==
  ASSUME NEW q,
         NEW new \in IF q.desc.mType = "rest" THEN Http!RestAnswered(q) ELSE Http!SoapAnswered(q)
  PROVE  \E s :
           /\ Fits(q, s)
           /\ \/ new \in Http!Written([q EXCEPT !.ctxErr = q.err], s)
              \/ new = Http!Sends([q EXCEPT !.ctxErr = q.err], s, "none")
<1> DEFINE e == [q EXCEPT !.ctxErr = q.err]
           Is(s) == new \in Http!Written(e, s) \/ new = Http!Sends(e, s, "none")
<1>1. CASE q.err = "nil" /\ q.desc.mType = "rest"
  <2>1. Is(200)
    BY <1>1 DEF Http!RestAnswered, Http!nil
  <2>. QED  BY <1>1, <2>1 DEF Fits
<1>2. CASE q.err = "nil" /\ q.desc.mType # "rest"
  <2>1. Is(IF q.result THEN 200 ELSE q.status)
    BY <1>2 DEF Http!SoapAnswered, Http!nil
  <2>2. Fits(q, IF q.result THEN 200 ELSE q.status)
    BY <1>2 DEF Fits
  <2>. QED  BY <2>1, <2>2
<1>3. CASE q.err # "nil" /\ "errorHandler" \in hooks
  <2>1. \E s \in {200, 404} : Is(s)
    BY <1>3 DEF Http!RestAnswered, Http!SoapAnswered, Http!nil
  <2>. QED  BY <1>3, <2>1 DEF Fits
<1>4. CASE q.err # "nil" /\ "errorHandler" \notin hooks /\ q.desc.mType = "rest"
  <2> DEFINE s == IF q.err = "fault" THEN Http!Shown(q.code) ELSE 500
  <2>1. Is(s)
    BY <1>4 DEF Http!RestAnswered, Http!nil
  <2>2. Fits(q, s)
    BY <1>4 DEF Fits, Http!Shown
  <2>. QED  BY <2>1, <2>2
<1>5. CASE q.err # "nil" /\ "errorHandler" \notin hooks /\ q.desc.mType # "rest"
  <2>1. Is(500)
    BY <1>5 DEF Http!SoapAnswered, Http!nil
  <2>. QED  BY <1>5, <2>1 DEF Fits
<1>. QED  BY <1>1, <1>2, <1>3, <1>4, <1>5

LEMMA Replying ==
  ASSUME NEW q, RequestInv(q), q.stage = "returned",
         NEW new \in IF q.desc.mType = "rest" THEN Http!RestAnswered(q) ELSE Http!SoapAnswered(q)
  PROVE  RequestInv(new)
<1> DEFINE e == [q EXCEPT !.ctxErr = q.err]
<1>1. PICK s : Fits(q, s) /\ (new \in Http!Written(e, s) \/ new = Http!Sends(e, s, "none"))
  BY AnswerIs
<1>2. /\ DOMAIN e = RequestFields /\ e.body = q.body /\ e.desc = q.desc /\ e.done = q.done
      /\ e.ctxErr = q.err /\ e.encoded = TRUE /\ e.result = q.result /\ e.code = q.code
  BY DEF RequestFields, RequestInv
<1> HIDE DEF e
<1>3. IsAnswer(e, new, s)
  <2>1. CASE new \in Http!Written(e, s)
    BY <1>2, <2>1, Writing
  <2>2. CASE new = Http!Sends(e, s, "none")
    BY <1>2, <2>2, SendingAnswer DEF IsAnswer
  <2>. QED  BY <1>1, <2>1, <2>2
<1>4. /\ DOMAIN new = RequestFields /\ new.body = q.body /\ new.desc = q.desc /\ new.done = q.done
      /\ new.ctxErr = q.err /\ new.result = q.result /\ new.code = q.code /\ new.stage = "sent"
      /\ \/ new.status = s /\ new.encoded = TRUE
         \/ new.status = 500 /\ new.encoded = FALSE
  BY <1>2, <1>3 DEF IsAnswer, Keeps
<1>5. /\ q.body \in Http!Contents /\ q.done \in BOOLEAN /\ q.desc.mType \in {"rest", "soap"}
      /\ q.done => (q.desc.shape = "body" => q.body \in {"ok", "noContent"})
      /\ q.err = "nil" => q.done \/ "interceptor" \in hooks
  BY DEF RequestInv
<1>6. ASSUME new.status = 200, hooks \cap {"errorHandler", "unimplErrorMapper", "interceptor"} = {}
      PROVE  new.done \/ Http!Silent(new)
  <2>1. "errorHandler" \notin hooks /\ "interceptor" \notin hooks /\ s = 200
    BY <1>4, <1>6
  <2>. QED  BY <1>1, <1>4, <1>5, <2>1 DEF Fits, Http!Silent
<1>7. ASSUME "errorHandler" \notin hooks
      PROVE  \/ Http!Silent(new) \/ Http!OwnStatus(new)
             \/ new.status = 200 <=> new.ctxErr = "nil" /\ new.encoded = TRUE
  BY <1>1, <1>4, <1>5, <1>7 DEF Fits, Http!Silent, Http!OwnStatus, Http!nil
<1>. QED  BY <1>4, <1>5, <1>6, <1>7 DEF RequestInv

-----------------------------------------------------------------------------
(* The steps of HttpService.                                               *)

LEMMA TableKept ==
  ASSUME TableAsRegistered, UNCHANGED <<actions, calls>>, phase' # phase => phase' # "setup"
  PROVE  TableAsRegistered'
<1>1. UNCHANGED Http!Standing
  BY DEF Http!Standing, Http!Stands
<1>2. CASE phase' = "setup"
  BY <1>1, <1>2 DEF TableAsRegistered, Http!TableAsRegistered, Http!Asked
<1>3. CASE phase' # "setup"
  BY <1>3 DEF TableAsRegistered, Http!TableAsRegistered
<1>. QED  BY <1>2, <1>3

LEMMA RequestMoves ==
  ASSUME HttpInv, NEW c \in Clients, NEW new, RequestInv(new), req[c].stage # "sent",
         req' = [req EXCEPT ![c] = new], UNCHANGED <<hooks, actions, static, calls, call>>,
         phase' # phase => phase' # "setup"
  PROVE  HttpInv'
<1>1. DOMAIN req = Clients /\ DOMAIN req' = Clients /\ DOMAIN call' = Clients
  BY DEF HttpInv
<1>2. \A d \in Clients : req'[d] = IF d = c THEN new ELSE req[d]
  BY <1>1
<1>3. \A d \in Clients : RequestInv(req'[d])
  BY <1>2 DEF HttpInv
<1>4. \A d \in Clients : RequestInv(req[d])'
  BY <1>3 DEF RequestInv
<1>5. \A d \in Clients : CallInv(d)'
  BY <1>2 DEF HttpInv, CallInv
<1>6. TableAsRegistered'
  BY TableKept DEF HttpInv
<1>. QED  BY <1>1, <1>4, <1>5, <1>6 DEF HttpInv, IsHistory

(* What a caller without an error rests on.                                *)
Backed(new, q) ==
  /\ DOMAIN new = {"state", "want", "result"}
  /\ new.result = "ok" => new.state = "done" /\ q.stage = "sent" /\ q.status = 200

LEMMA CallMoves ==
  ASSUME HttpInv, NEW c \in Clients, NEW new, NEW q, RequestInv(q), Backed(new, q),
         call' = [call EXCEPT ![c] = new], UNCHANGED <<hooks, actions, static, calls, phase>>,
         DOMAIN req' = Clients, \A d \in Clients : req'[d] = IF d = c THEN q ELSE req[d]
  PROVE  HttpInv'
<1>1. DOMAIN req = Clients /\ DOMAIN req' = Clients /\ DOMAIN call = Clients /\ DOMAIN call' = Clients
  BY DEF HttpInv
<1>2. \A d \in Clients : req'[d] = (IF d = c THEN q ELSE req[d]) /\ call'[d] = (IF d = c THEN new ELSE call[d])
  BY <1>1
<1>3. \A d \in Clients : RequestInv(req'[d])
  BY <1>2 DEF HttpInv
<1>4. \A d \in Clients : RequestInv(req[d])'
  BY <1>3 DEF RequestInv
<1>5. \A d \in Clients : CallInv(d)'
  BY <1>2 DEF HttpInv, CallInv, Backed
<1>6. TableAsRegistered'
  BY TableKept DEF HttpInv
<1>. QED  BY <1>1, <1>4, <1>5, <1>6 DEF HttpInv, IsHistory

LEMMA ServingSteps ==
  ASSUME HttpInv, NEW c \in Clients,
         Http!RequestBegins(c) \/ Http!HandlerReturns(c) \/ Http!UserPanics(c) \/ Http!RequestEnds(c)
  PROVE  HttpInv'
<1>0. RequestInv(req[c])
  BY DEF HttpInv
<1>1. CASE Http!RequestBegins(c)
  <2>1. PICK new \in Http!Dispatched(req[c]) :
          /\ Http!Step(c, "arrived", new)
          /\ phase' = IF new.stage = "panic" THEN "ended" ELSE phase
    BY <1>1 DEF Http!RequestBegins
  <2>2. /\ req[c].stage = "arrived" /\ req' = [req EXCEPT ![c] = new]
        /\ UNCHANGED <<hooks, actions, static, calls, call>>
        /\ phase' # phase => phase' # "setup"
    BY <2>1 DEF Http!Step, Http!registry
  <2>3. RequestInv(new)
    BY <1>0, <2>2, Dispatching DEF HttpInv
  <2>. QED  BY <2>2, <2>3, RequestMoves
<1>2. CASE Http!HandlerReturns(c)
  <2> DEFINE q == req[c]
  <2>0. PICK handled \in Http!Succeeded(q) \cup Http!Failed(q) :
          \E seen \in {handled} \cup (IF "interceptor" \in hooks
                                     THEN Http!Succeeded(q) \cup Http!Failed(q) ELSE {}) :
            Http!Step(c, "handling", [seen EXCEPT !.done = (handled.err = "nil")]) /\ UNCHANGED phase
    BY <1>2 DEF Http!HandlerReturns, Http!nil
  <2>1. PICK seen \in {handled} \cup (IF "interceptor" \in hooks
                                     THEN Http!Succeeded(q) \cup Http!Failed(q) ELSE {}) :
          Http!Step(c, "handling", [seen EXCEPT !.done = (handled.err = "nil")]) /\ UNCHANGED phase
    BY <2>0
  <2> DEFINE new == [seen EXCEPT !.done = (handled.err = "nil")]
  <2>2. /\ q.stage = "handling" /\ req' = [req EXCEPT ![c] = new]
        /\ UNCHANGED <<hooks, actions, static, calls, call, phase>>
    BY <2>1 DEF Http!Step, Http!registry
  <2> HIDE DEF q
  <2>3. DOMAIN q = RequestFields
    BY <1>0 DEF RequestInv, q
  <2>4. Over(q, seen)
    BY <2>1, <2>3, Failing, Succeeding DEF Errors
  <2>5. seen.err = "nil" => handled.err = "nil" \/ "interceptor" \in hooks
    BY <2>1
  <2>6. /\ DOMAIN new = RequestFields /\ new.body = q.body /\ new.desc = q.desc /\ new.ctxErr = q.ctxErr
        /\ new.encoded = q.encoded /\ new.stage = "returned" /\ new.err = seen.err
        /\ new.done = (handled.err = "nil")
    BY <2>4 DEF Over, RequestFields
  <2> HIDE DEF new
  <2>7. /\ q.body \in Http!Contents /\ q.encoded = TRUE /\ q.ctxErr = "nil"
        /\ q.desc.shape = "body" => q.body \in {"ok", "noContent"}
        /\ q.desc.mType \in {"rest", "soap"}
    BY <1>0, <2>2 DEF RequestInv, q
  <2>8. RequestInv(new)
    BY <2>5, <2>6, <2>7 DEF RequestInv
  <2>. QED  BY <2>2, <2>8, RequestMoves DEF q
<1>3. CASE Http!UserPanics(c)
  <2> DEFINE q == req[c]
             new == [q EXCEPT !.stage = "panic"]
  <2>1. /\ q.stage \in {"handling", "returned"} /\ req' = [req EXCEPT ![c] = new]
        /\ UNCHANGED <<hooks, actions, static, calls, call>>
        /\ phase' # phase => phase' # "setup"
    BY <1>3 DEF Http!UserPanics, Http!Step, Http!registry
  <2>2. RequestInv(new)
    BY <1>0, <2>1 DEF RequestInv, RequestFields
  <2>. QED  BY <2>1, <2>2, RequestMoves
<1>4. CASE Http!RequestEnds(c)
  <2>1. PICK new \in IF req[c].desc.mType = "rest" THEN Http!RestAnswered(req[c])
                                                    ELSE Http!SoapAnswered(req[c]) :
          Http!Step(c, "returned", new) /\ UNCHANGED phase
    BY <1>4 DEF Http!RequestEnds
  <2>2. /\ req[c].stage = "returned" /\ req' = [req EXCEPT ![c] = new]
        /\ UNCHANGED <<hooks, actions, static, calls, call>>
        /\ phase' # phase => phase' # "setup"
    BY <2>1 DEF Http!Step, Http!registry
  <2>3. RequestInv(new)
    BY <1>0, <2>1, <2>2, Replying
  <2>. QED  BY <2>2, <2>3, RequestMoves
<1>. QED  BY <1>1, <1>2, <1>3, <1>4

(* A request that a client sends.                                          *)
LEMMA RequestSent ==
  ASSUME HttpInv, NEW c \in Clients, NEW new, NEW q, Http!Sent(c, new, q),
         DOMAIN new = {"state", "want", "result"}, new.result # "ok", RequestInv(q)
  PROVE  HttpInv'
<1>1. /\ call' = [call EXCEPT ![c] = new] /\ req' = [req EXCEPT ![c] = q]
      /\ UNCHANGED <<hooks, actions, static, calls, phase>>
  BY DEF Http!Sent, Http!registry
<1>2. DOMAIN req' = Clients /\ \A d \in Clients : req'[d] = IF d = c THEN q ELSE req[d]
  BY <1>1 DEF HttpInv
<1>3. Backed(new, q)
  BY DEF Backed
<1>. QED  BY <1>1, <1>2, <1>3, CallMoves

LEMMA NewRequest ==
  ASSUME NEW q, DOMAIN q = RequestFields, q.stage \in {"none", "arrived"}, q.body \in Http!Contents,
         q.encoded = TRUE, q.ctxErr = "nil", q.err = "nil", q.done = FALSE, q.desc = Http!NoDesc
  PROVE  RequestInv(q)
BY DEF RequestInv

LEMMA ClientSteps ==
  ASSUME HttpInv, NEW c \in Clients,
         Http!Invoke(c) \/ Http!InvokeRejected(c) \/ Http!Requested(c) \/ Http!Receive(c) \/ Http!Expire(c)
  PROVE  HttpInv'
<1>0. /\ DOMAIN Http!NoRequest = RequestFields /\ Http!NoRequest.stage = "none"
      /\ Http!NoRequest.body = "empty" /\ Http!NoRequest.encoded = TRUE /\ Http!NoRequest.ctxErr = "nil"
      /\ Http!NoRequest.err = "nil" /\ Http!NoRequest.done = FALSE /\ Http!NoRequest.desc = Http!NoDesc
      /\ {"ok", "bad", "invalid", "empty"} \subseteq Http!Contents
  BY DEF Http!NoRequest, Http!nil, RequestFields, Http!Contents
<1>1. CASE Http!Invoke(c)
  <2>1. PICK m \in {"GET", "POST"}, u \in Uris, b \in {"ok", "bad", "invalid", "empty"},
             w \in {"nothing", "response", "dynamic"} :
          Http!Sent(c, [Http!NoCall EXCEPT !.state = "waiting", !.want = w], Http!prepareRequest(m, u, b))
    BY <1>1 DEF Http!Invoke, Http!Bodies
  <2> DEFINE new == [Http!NoCall EXCEPT !.state = "waiting", !.want = w]
             q == Http!prepareRequest(m, u, b)
  <2>2. DOMAIN new = {"state", "want", "result"} /\ new.result # "ok"
    BY DEF Http!NoCall, Http!nil
  <2>3. /\ DOMAIN q = RequestFields /\ q.stage = "arrived" /\ q.body \in {"ok", "bad", "invalid", "empty"}
        /\ q.encoded = TRUE /\ q.ctxErr = "nil" /\ q.err = "nil" /\ q.done = FALSE /\ q.desc = Http!NoDesc
    BY <1>0 DEF Http!prepareRequest, RequestFields
  <2> HIDE DEF q, new
  <2>4. RequestInv(q)
    BY <1>0, <2>3, NewRequest
  <2>. QED  BY <2>1, <2>2, <2>4, RequestSent DEF q, new
<1>2. CASE Http!InvokeRejected(c)
  <2> DEFINE new == [Http!NoCall EXCEPT !.state = "done", !.result = "encode"]
  <2>1. Http!Sent(c, new, Http!NoRequest)
    BY <1>2 DEF Http!InvokeRejected
  <2>2. DOMAIN new = {"state", "want", "result"} /\ new.result # "ok"
    BY DEF Http!NoCall, Http!nil
  <2> HIDE DEF new
  <2>3. RequestInv(Http!NoRequest)
    BY <1>0, NewRequest
  <2>. QED  BY <2>1, <2>2, <2>3, RequestSent
<1>3. CASE Http!Requested(c)
  <2>1. PICK msg \in Messages :
          Http!Sent(c, [Http!NoCall EXCEPT !.state = "waiting", !.want = "raw"],
               [Http!NoRequest EXCEPT !.stage = "arrived", !.method = msg.method, !.uri = msg.uri,
                                      !.action = msg.action, !.query = msg.query,
                                      !.ctype = msg.ctype, !.body = msg.body])
    BY <1>3 DEF Http!Requested
  <2> DEFINE new == [Http!NoCall EXCEPT !.state = "waiting", !.want = "raw"]
             q == [Http!NoRequest EXCEPT !.stage = "arrived", !.method = msg.method, !.uri = msg.uri,
                                         !.action = msg.action, !.query = msg.query,
                                         !.ctype = msg.ctype, !.body = msg.body]
  <2>2. DOMAIN new = {"state", "want", "result"} /\ new.result # "ok"
    BY DEF Http!NoCall, Http!nil
  <2>3. msg.body \in Http!Contents
    BY RequestsAssumption DEF Http!HooksAssumption
  <2>4. /\ DOMAIN q = RequestFields /\ q.stage = "arrived" /\ q.body = msg.body
        /\ q.encoded = TRUE /\ q.ctxErr = "nil" /\ q.err = "nil" /\ q.done = FALSE /\ q.desc = Http!NoDesc
    BY <1>0 DEF RequestFields
  <2> HIDE DEF q, new
  <2>5. RequestInv(q)
    BY <2>3, <2>4, NewRequest
  <2>. QED  BY <2>1, <2>2, <2>5, RequestSent DEF q, new
<1>4. ASSUME NEW res, Http!Finish(c, res), res = "ok" => req[c].stage = "sent" /\ req[c].status = 200
      PROVE  HttpInv'
  <2> DEFINE new == [call[c] EXCEPT !.state = "done", !.result = res]
             q == req[c]
  <2>1. call' = [call EXCEPT ![c] = new] /\ UNCHANGED <<hooks, actions, static, calls, phase>>
    BY <1>4 DEF Http!Finish, Http!registry
  <2>2. DOMAIN call[c] = {"state", "want", "result"} /\ RequestInv(q) /\ DOMAIN req = Clients
    BY DEF HttpInv, CallInv
  <2>3. DOMAIN new = {"state", "want", "result"} /\ new.state = "done" /\ new.result = res
    BY <2>2
  <2>4. DOMAIN req' = Clients /\ \A d \in Clients : req'[d] = IF d = c THEN q ELSE req[d]
    BY <1>4, <2>2 DEF Http!Finish
  <2>5. Backed(new, q)
    BY <1>4, <2>3 DEF Backed
  <2>6. RequestInv(q)
    BY <2>2
  <2> HIDE DEF new, q
  <2>. QED  BY ONLY HttpInv, c \in Clients, <2>1, <2>4, <2>5, <2>6, CallMoves
<1>5. CASE Http!Receive(c)
  <2>1. req[c].stage = "sent"
    BY <1>5 DEF Http!Receive
  <2>2. PICK res \in IF req[c].status = 200
                      THEN Http!ResponseRead(call[c].want, req[c].content) ELSE {"status"} :
          Http!Finish(c, res)
    BY <1>5 DEF Http!Receive, Http!checkResponseStatusCode
  <2> DEFINE status == req[c].status
  <2>3. CASE status = 200
    BY <1>4, <2>1, <2>2, <2>3
  <2>4. CASE status # 200
    <3>1. res = "status"
      BY <2>2, <2>4
    <3>. QED  BY <1>4, <2>2, <3>1
  <2>. QED  BY <2>3, <2>4
<1>6. CASE Http!Expire(c)
  BY <1>4, <1>6 DEF Http!Expire
<1>. QED  BY <1>1, <1>2, <1>3, <1>5, <1>6

-----------------------------------------------------------------------------
(* Registration.                                                           *)

LEMMA LargestOne ==
  ASSUME NEW n \in Nat, NEW S \in SUBSET (1..n), S # {}
  PROVE  \E m \in S : \A x \in S : x <= m
<1> DEFINE T == {n - x : x \in S}
<1>0. \A x \in S : n - x \in Nat
  OBVIOUS
<1>1. T \subseteq Nat /\ T # {}
  <2>1. PICK s \in S : TRUE
    OBVIOUS
  <2>2. n - s \in T
    BY <2>1
  <2>. QED  BY <1>0, <2>2
<1>2. PICK y \in T : \A z \in T : ~(<<z, y>> \in OpToRel(<, Nat))
  BY <1>1, NatLessThanWellFounded, WFMin
<1>3. \A z \in T : ~(z < y)
  BY <1>1, <1>2 DEF OpToRel
<1>4. PICK m \in S : y = n - m
  OBVIOUS
<1>5. \A x \in S : x <= m
  BY <1>3, <1>4
<1>. QED  BY <1>5

(* When no field fails the keys of all fields are added, with the last     *)
(* field of each.                                                          *)
LEMMA FieldsRegistered ==
  ASSUME NEW u, NEW fields \in Controllers, NEW t, t = Http!registerControllers(u, fields), ~t.failed
  PROVE  /\ \A k : k \in DOMAIN t.actions <=>
                    k \in DOMAIN actions \/ \E i \in DOMAIN fields : u \o fields[i].action = k
         /\ \A i \in DOMAIN fields :
              (\A j \in DOMAIN fields : j > i => u \o fields[j].action # u \o fields[i].action)
                => t.actions[u \o fields[i].action] = Http!fieldDesc(fields[i])
         /\ \A k \in DOMAIN actions :
              (\A i \in DOMAIN fields : u \o fields[i].action # k) => t.actions[k] = actions[k]
         /\ \A i \in DOMAIN fields : Http!Registrable(fields[i])
<1> DEFINE n == Len(fields)
           failing == {j \in DOMAIN fields : ~Http!Registrable(fields[j])}
           taken == {j \in DOMAIN fields : \A l \in failing : j < l}
           key(j) == u \o fields[j].action
           kept == {j \in taken : \A l \in taken : j < l => key(l) # key(j)}
           Of(k) == CHOOSE j \in kept : key(j) = k
           keys == {key(j) : j \in kept}
           all == [k \in keys \cup DOMAIN actions |->
                     IF k \in keys THEN Http!fieldDesc(fields[Of(k)]) ELSE actions[k]]
<1>1. n \in Nat /\ DOMAIN fields = 1..n
  BY RequestsAssumption DEF Http!HooksAssumption
<1>2. t.actions = all /\ t.failed = (failing # {})
  BY DEF Http!registerControllers, Http!toKey
<1>3. taken = 1..n
  BY <1>1, <1>2
<1>4. ASSUME NEW i \in DOMAIN fields
      PROVE  \E m \in kept : key(m) = key(i)
  <2> DEFINE S == {j \in 1..n : key(j) = key(i)}
  <2>1. S \in SUBSET (1..n) /\ i \in S
    BY <1>1
  <2> HIDE DEF S
  <2>2. PICK m \in S : \A x \in S : x <= m
    BY <1>1, <2>1, LargestOne
  <2>3. m \in 1..n /\ key(m) = key(i)
    BY <2>2 DEF S
  <2>4. ASSUME NEW l \in taken, m < l, key(l) = key(m)
        PROVE  FALSE
    <3>1. l \in S
      BY <1>3, <2>3, <2>4 DEF S
    <3>. QED  BY <1>1, <1>3, <2>2, <2>3, <2>4, <3>1
  <2>5. m \in kept
    BY <1>3, <2>3, <2>4
  <2>. QED  BY <2>3, <2>5
<1>5. \A k : k \in keys <=> \E i \in DOMAIN fields : key(i) = k
  BY <1>1, <1>3, <1>4
<1>6. DOMAIN all = keys \cup DOMAIN actions
  OBVIOUS
<1>7. ASSUME NEW i \in DOMAIN fields, \A j \in DOMAIN fields : j > i => key(j) # key(i)
      PROVE  all[key(i)] = Http!fieldDesc(fields[i])
  <2>1. i \in kept
    BY <1>1, <1>3, <1>7
  <2>2. ASSUME NEW m \in kept, key(m) = key(i)
        PROVE  m = i
    <3>1. ~(m < i) /\ ~(i < m)
      BY <1>1, <1>3, <1>7, <2>1, <2>2
    <3>. QED  BY <1>1, <1>3, <2>1, <3>1
  <2>3. Of(key(i)) = i
    BY <2>1, <2>2
  <2>4. key(i) \in keys
    BY <2>1
  <2>. QED  BY <2>3, <2>4
<1>8. ASSUME NEW k \in DOMAIN actions, \A i \in DOMAIN fields : key(i) # k
      PROVE  all[k] = actions[k]
  BY <1>5, <1>8
<1>9. \A i \in DOMAIN fields : Http!Registrable(fields[i])
  BY <1>2
<1> HIDE DEF all, keys
<1>. QED  BY <1>2, <1>5, <1>6, <1>7, <1>8, <1>9

(* The places of the history that stand, and what is at them.              *)
Place(i, x) == i \in DOMAIN calls /\ x \in DOMAIN calls[i].asked /\ Http!Stands(i)
At(i, x) == calls[i].asked[x]
After(j, y, i, x) == j > i \/ (j = i /\ y > x)

TableByPlace ==
  /\ \A k : k \in DOMAIN actions <=> \E i, x : Place(i, x) /\ At(i, x).key = k
  /\ \A i, x :
       Place(i, x) /\ (\A j, y : Place(j, y) /\ After(j, y, i, x) => At(j, y).key # At(i, x).key)
         => actions[At(i, x).key] = At(i, x).desc

LEMMA ByPlace == TableAsRegistered <=> (phase = "setup" => TableByPlace)
<1>1. \A p : p \in Http!Standing <=> \E i, x : p = <<i, x>> /\ Place(i, x)
  BY DEF Http!Standing, Place
<1>2. \A i, x : Http!Asked(<<i, x>>) = At(i, x)
  BY DEF Http!Asked, At
<1>3. \A i, x, j, y : Http!Later(<<j, y>>, <<i, x>>) <=> After(j, y, i, x)
  BY DEF Http!Later, After
<1>4. \A k : k \in {Http!Asked(p).key : p \in Http!Standing} <=> \E i, x : Place(i, x) /\ At(i, x).key = k
  <2>1. ASSUME NEW k, NEW p \in Http!Standing, k = Http!Asked(p).key
        PROVE  \E i, x : Place(i, x) /\ At(i, x).key = k
    <3>1. PICK i, x : p = <<i, x>> /\ Place(i, x)
      BY <1>1, <2>1
    <3>2. At(i, x).key = k
      BY <1>2, <2>1, <3>1
    <3>. QED  BY <3>1, <3>2
  <2>2. ASSUME NEW i, NEW x, Place(i, x)
        PROVE  At(i, x).key \in {Http!Asked(p).key : p \in Http!Standing}
    <3>1. <<i, x>> \in Http!Standing /\ Http!Asked(<<i, x>>) = At(i, x)
      BY <1>1, <1>2, <2>2
    <3>. QED  BY <3>1
  <2>. QED  BY <2>1, <2>2
<1>5. ASSUME NEW i, NEW x
      PROVE  (\A q \in Http!Standing : Http!Later(q, <<i, x>>) => Http!Asked(q).key # Http!Asked(<<i, x>>).key)
               <=> \A j, y : Place(j, y) /\ After(j, y, i, x) => At(j, y).key # At(i, x).key
  <2>1. ASSUME \A q \in Http!Standing : Http!Later(q, <<i, x>>) => Http!Asked(q).key # Http!Asked(<<i, x>>).key,
               NEW j, NEW y, Place(j, y), After(j, y, i, x)
        PROVE  At(j, y).key # At(i, x).key
    <3>1. <<j, y>> \in Http!Standing /\ Http!Later(<<j, y>>, <<i, x>>)
      BY <1>1, <1>3, <2>1
    <3>2. Http!Asked(<<j, y>>) = At(j, y) /\ Http!Asked(<<i, x>>) = At(i, x)
      BY <1>2
    <3>. QED  BY <2>1, <3>1, <3>2
  <2>2. ASSUME \A j, y : Place(j, y) /\ After(j, y, i, x) => At(j, y).key # At(i, x).key,
               NEW q \in Http!Standing, Http!Later(q, <<i, x>>)
        PROVE  Http!Asked(q).key # Http!Asked(<<i, x>>).key
    <3>1. PICK j, y : q = <<j, y>> /\ Place(j, y)
      BY <1>1, <2>2
    <3>2. After(j, y, i, x)
      BY <1>3, <2>2, <3>1
    <3>3. Http!Asked(q) = At(j, y) /\ Http!Asked(<<i, x>>) = At(i, x)
      BY <1>2, <3>1
    <3>. QED  BY <2>2, <3>1, <3>2, <3>3
  <2>. QED  BY <2>1, <2>2
<1> DEFINE Last(p) == \A q \in Http!Standing : Http!Later(q, p) => Http!Asked(q).key # Http!Asked(p).key
           LastPlace(i, x) == \A j, y : Place(j, y) /\ After(j, y, i, x) => At(j, y).key # At(i, x).key
<1>6. (\A p \in Http!Standing : Last(p) => actions[Http!Asked(p).key] = Http!Asked(p).desc)
        <=> \A i, x : Place(i, x) /\ LastPlace(i, x) => actions[At(i, x).key] = At(i, x).desc
  <2>1. \A i, x : Last(<<i, x>>) <=> LastPlace(i, x)
    BY <1>5
  <2> HIDE DEF Last, LastPlace
  <2>2. ASSUME \A p \in Http!Standing : Last(p) => actions[Http!Asked(p).key] = Http!Asked(p).desc,
               NEW i, NEW x, Place(i, x), LastPlace(i, x)
        PROVE  actions[At(i, x).key] = At(i, x).desc
    <3>1. <<i, x>> \in Http!Standing /\ Last(<<i, x>>) /\ Http!Asked(<<i, x>>) = At(i, x)
      BY <1>1, <1>2, <2>1, <2>2
    <3>. QED  BY <2>2, <3>1
  <2>3. ASSUME \A i, x : Place(i, x) /\ LastPlace(i, x) => actions[At(i, x).key] = At(i, x).desc,
               NEW p \in Http!Standing, Last(p)
        PROVE  actions[Http!Asked(p).key] = Http!Asked(p).desc
    <3>1. PICK i, x : p = <<i, x>> /\ Place(i, x)
      BY <1>1, <2>3
    <3>2. LastPlace(i, x) /\ Http!Asked(p) = At(i, x)
      BY <1>2, <2>1, <2>3, <3>1
    <3>. QED  BY <2>3, <3>1, <3>2
  <2>. QED  BY <2>2, <2>3
<1>7. DOMAIN actions = {Http!Asked(p).key : p \in Http!Standing}
        <=> \A k : k \in DOMAIN actions <=> k \in {Http!Asked(p).key : p \in Http!Standing}
  OBVIOUS
<1>. QED  BY <1>4, <1>6, <1>7 DEF TableAsRegistered, Http!TableAsRegistered, TableByPlace

(* What a call adds to the history.                                        *)
LEMMA CallAdded ==
  ASSUME IsHistory, NEW new, calls' = Append(calls, new)
  PROVE  /\ IsHistory'
         /\ Len(calls) \in Nat /\ DOMAIN calls = 1..Len(calls) /\ DOMAIN calls' = 1..(Len(calls) + 1)
         /\ \A i \in DOMAIN calls : calls'[i] = calls[i]
         /\ calls'[Len(calls) + 1] = new
<1>1. PICK S : calls \in Seq(S)
  BY DEF IsHistory
<1>2. calls \in Seq(S \cup {new})
  BY <1>1
<1>3. calls' \in Seq(S \cup {new})
  BY <1>2, AppendProperties
<1>. QED  BY <1>2, <1>3, AppendProperties DEF IsHistory

(* The table takes the entries that were asked for.                        *)
Extends(asked) ==
  /\ \A k : k \in DOMAIN actions' <=> k \in DOMAIN actions \/ \E x \in DOMAIN asked : asked[x].key = k
  /\ \A x \in DOMAIN asked :
       (\A y \in DOMAIN asked : y > x => asked[y].key # asked[x].key) => actions'[asked[x].key] = asked[x].desc
  /\ \A k \in DOMAIN actions : (\A x \in DOMAIN asked : asked[x].key # k) => actions'[k] = actions[k]

LEMMA TableGrows ==
  ASSUME TableByPlace, IsHistory, NEW new, calls' = Append(calls, new), new.ok = TRUE,
         NEW asked, new.asked = asked,
         Extends(asked)
  PROVE  TableByPlace'
<1>1. PICK L \in Nat : /\ DOMAIN calls = 1..L /\ DOMAIN calls' = 1..(L + 1)
                       /\ \A i \in DOMAIN calls : calls'[i] = calls[i]
                       /\ calls'[L + 1] = new
  BY CallAdded
<1>2. \A i \in 1..L : Http!Stands(i)' <=> Http!Stands(i)
  BY <1>1 DEF Http!Stands
<1>3. Http!Stands(L + 1)'
  BY <1>1 DEF Http!Stands
<1>4. \A i, x : Place(i, x)' <=> Place(i, x) \/ (i = L + 1 /\ x \in DOMAIN asked)
  BY <1>1, <1>2, <1>3 DEF Place
<1>5. /\ \A i, x : Place(i, x) => i \in 1..L /\ At(i, x)' = At(i, x)
      /\ \A x : At(L + 1, x)' = asked[x]
  BY <1>1 DEF Place, At
<1>6. \A k : k \in DOMAIN actions' <=> \E i, x : Place(i, x)' /\ At(i, x)'.key = k
  <2>1. \A k : k \in DOMAIN actions <=> \E i, x : Place(i, x) /\ At(i, x).key = k
    BY DEF TableByPlace
  <2>. QED  BY <1>4, <1>5, <2>1 DEF Extends
<1>7. ASSUME NEW i, NEW x, Place(i, x)',
             \A j, y : Place(j, y)' /\ After(j, y, i, x) => At(j, y)'.key # At(i, x)'.key
      PROVE  actions'[At(i, x)'.key] = At(i, x)'.desc
  <2>1. CASE i = L + 1 /\ x \in DOMAIN asked
    <3>1. \A y \in DOMAIN asked : y > x => asked[y].key # asked[x].key
      BY <1>4, <1>5, <1>7, <2>1 DEF After
    <3>. QED  BY <1>5, <2>1, <3>1 DEF Extends
  <2>2. CASE Place(i, x)
    <3>1. \A j, y : Place(j, y) /\ After(j, y, i, x) => At(j, y).key # At(i, x).key
      BY <1>4, <1>5, <1>7, <2>2
    <3>2. actions[At(i, x).key] = At(i, x).desc /\ At(i, x).key \in DOMAIN actions
      BY <2>2, <3>1 DEF TableByPlace
    <3>3. \A y \in DOMAIN asked : asked[y].key # At(i, x).key
      <4>1. ASSUME NEW y \in DOMAIN asked
            PROVE  asked[y].key # At(i, x).key
        <5>1. Place(L + 1, y)' /\ After(L + 1, y, i, x)
          BY <1>1, <1>4, <1>5, <2>2 DEF After
        <5>. QED  BY <1>5, <1>7, <2>2, <5>1
      <4>. QED  BY <4>1
    <3>. QED  BY <1>5, <2>2, <3>2, <3>3 DEF Extends
  <2>. QED  BY <1>4, <1>7, <2>1, <2>2
<1>. QED  BY <1>6, <1>7 DEF TableByPlace, After

(* A refused call that is none of RegisterControllers changes nothing, and *)
(* one that is takes everything with it.                                   *)
LEMMA TableSurvives ==
  ASSUME TableByPlace, IsHistory, NEW new, calls' = Append(calls, new), new.ok = FALSE,
         IF new.kind = "controllers" THEN DOMAIN actions' = {} ELSE actions' = actions
  PROVE  TableByPlace'
<1>1. PICK L \in Nat : /\ DOMAIN calls = 1..L /\ DOMAIN calls' = 1..(L + 1)
                       /\ \A i \in DOMAIN calls : calls'[i] = calls[i]
                       /\ calls'[L + 1] = new
  BY CallAdded
<1>2. ~Http!Stands(L + 1)'
  BY <1>1 DEF Http!Stands
<1>3. CASE new.kind = "controllers"
  <2>1. \A i \in 1..(L + 1) : ~Http!Stands(i)'
    BY <1>1, <1>2, <1>3 DEF Http!Stands
  <2>2. \A i, x : ~Place(i, x)'
    BY <1>1, <2>1 DEF Place
  <2>. QED  BY <1>3, <2>2 DEF TableByPlace
<1>4. CASE new.kind # "controllers"
  <2>1. \A i \in 1..L : Http!Stands(i)' <=> Http!Stands(i)
    BY <1>1, <1>4 DEF Http!Stands
  <2>2. \A i, x : Place(i, x)' <=> Place(i, x)
    BY <1>1, <1>2, <2>1 DEF Place
  <2>3. \A i, x : Place(i, x) => At(i, x)' = At(i, x)
    BY <1>1 DEF Place, At
  <2>. QED  BY <1>4, <2>2, <2>3 DEF TableByPlace, After
<1>. QED  BY <1>3, <1>4

LEMMA Descs ==
  /\ \A shape \in Http!Shapes : shape # "nil"
  /\ \A mType, shape : Http!toDesc(mType, shape).shape = shape
  /\ \A f : Http!fieldDesc(f).shape = f.shape
  /\ Http!NoDesc.shape = "nil"
  /\ \A key, desc : Http!Entry(key, desc).key = key /\ Http!Entry(key, desc).desc = desc
BY DEF Http!Shapes, Http!toDesc, Http!fieldDesc, Http!NoDesc, Http!nil, Http!Entry

(* The part of HttpInv that a call of the Register functions may disturb.  *)
LEMMA CallsRegister ==
  ASSUME HttpInv, NEW kind, NEW asked, NEW ok \in BOOLEAN, Http!Called(kind, asked, ok),
         TableByPlace /\ calls' = Append(calls, [kind |-> kind, asked |-> asked, ok |-> ok]) => TableByPlace',
         \A k \in DOMAIN actions' : actions'[k] # Http!NoDesc
  PROVE  HttpInv'
<1>1. /\ phase = "setup" /\ calls' = Append(calls, [kind |-> kind, asked |-> asked, ok |-> ok])
      /\ UNCHANGED <<hooks, phase, call, req>>
  BY DEF Http!Called
<1>2. TableByPlace
  BY <1>1, ByPlace DEF HttpInv
<1>3. TableAsRegistered'
  <2>1. (TableAsRegistered <=> (phase = "setup" => TableByPlace))'
    BY ByPlace, PTL
  <2>. QED  BY <1>1, <1>2, <2>1
<1>4. IsHistory'
  BY <1>1, CallAdded DEF HttpInv
<1>5. /\ DOMAIN req' = Clients /\ DOMAIN call' = Clients
      /\ \A c \in Clients : RequestInv(req[c])' /\ CallInv(c)'
  BY <1>1 DEF HttpInv, RequestInv, CallInv
<1>. QED  BY <1>3, <1>4, <1>5 DEF HttpInv

LEMMA RegistrationSteps ==
  ASSUME HttpInv, Http!Register \/ Http!RegisterControllers \/ Http!RegisterStatic \/ Http!Serve
  PROVE  HttpInv'
<1>0. IsHistory /\ \A k \in DOMAIN actions : actions[k] # Http!NoDesc
  BY DEF HttpInv
<1>1. CASE Http!Register
  <2>1. PICK h \in Handlers :
          LET key == Http!toKey(h.uri, h.action)
              desc == Http!toDesc(h.mType, h.shape)
          IN  /\ Http!Called("handler", <<Http!Entry(key, desc)>>, Http!Valid(h.shape))
              /\ actions' = IF Http!Valid(h.shape)
                            THEN [k \in {key} \cup DOMAIN actions |-> IF k = key THEN desc ELSE actions[k]]
                            ELSE actions
    BY <1>1 DEF Http!Register
  <2> DEFINE key == Http!toKey(h.uri, h.action)
             desc == Http!toDesc(h.mType, h.shape)
             asked == <<Http!Entry(key, desc)>>
             ok == Http!Valid(h.shape)
             new == [kind |-> "handler", asked |-> asked, ok |-> ok]
  <2>2. /\ Http!Called("handler", asked, ok)
        /\ actions' = IF ok THEN [k \in {key} \cup DOMAIN actions |-> IF k = key THEN desc ELSE actions[k]]
                            ELSE actions
    BY <2>1
  <2>3. /\ DOMAIN asked = {1} /\ asked[1].key = key /\ asked[1].desc = desc /\ ok \in BOOLEAN
        /\ ok => desc # Http!NoDesc
    BY Descs DEF Http!Valid
  <2>. HIDE DEF key, desc, ok, asked
  <2>4. new.kind = "handler" /\ new.asked = asked /\ new.ok = ok
    OBVIOUS
  <2>5. CASE ok
    <3>1. /\ DOMAIN actions' = DOMAIN actions \cup {key} /\ actions'[key] = desc
          /\ \A k \in DOMAIN actions : k # key => actions'[k] = actions[k]
      BY <2>2, <2>5
    <3>2. ASSUME TableByPlace, calls' = Append(calls, new)
          PROVE  TableByPlace'
      <4> HIDE DEF new
      <4>1. \A k : k \in DOMAIN actions' <=> k \in DOMAIN actions \/ \E x \in DOMAIN asked : asked[x].key = k
        BY <2>3, <3>1
      <4>2. \A x \in DOMAIN asked :
              (\A y \in DOMAIN asked : y > x => asked[y].key # asked[x].key)
                => actions'[asked[x].key] = asked[x].desc
        BY <2>3, <3>1
      <4>3. \A k \in DOMAIN actions : (\A x \in DOMAIN asked : asked[x].key # k) => actions'[k] = actions[k]
        BY <2>3, <3>1
      <4>4. Extends(asked)
        BY <4>1, <4>2, <4>3 DEF Extends
      <4>5. new.ok = TRUE
        BY <2>4, <2>5
      <4>. QED  BY ONLY <1>0, <2>4, <3>2, <4>4, <4>5, TableGrows
    <3>3. \A k \in DOMAIN actions' : actions'[k] # Http!NoDesc
      BY <1>0, <2>3, <2>5, <3>1
    <3>. QED  BY <2>2, <2>3, <3>2, <3>3, CallsRegister
  <2>6. CASE ~ok
    <3>1. ASSUME TableByPlace, calls' = Append(calls, new)
          PROVE  TableByPlace'
      <4> HIDE DEF new
      <4>. QED  BY <1>0, <2>2, <2>3, <2>4, <2>6, <3>1, TableSurvives
    <3>. QED  BY <1>0, <2>2, <2>3, <2>6, <3>1, CallsRegister
  <2>. QED  BY <2>5, <2>6
<1>2. CASE Http!RegisterControllers
  <2>1. PICK u \in Uris, fields \in Controllers :
          LET t == Http!registerControllers(u, fields)
          IN  Http!CallsControllers(u, fields) /\ actions' = IF t.failed THEN Http!NoTable ELSE t.actions
    BY <1>2 DEF Http!RegisterControllers
  <2> DEFINE t == Http!registerControllers(u, fields)
             asked == [i \in DOMAIN fields |->
                         Http!Entry(Http!toKey(u, fields[i].action), Http!fieldDesc(fields[i]))]
             ok == ~t.failed
             new == [kind |-> "controllers", asked |-> asked, ok |-> ok]
  <2>2. Http!Called("controllers", asked, ok) /\ actions' = IF t.failed THEN Http!NoTable ELSE t.actions
    BY <2>1 DEF Http!CallsControllers
  <2>3. /\ DOMAIN asked = DOMAIN fields
        /\ \A i \in DOMAIN fields : asked[i].key = u \o fields[i].action /\ asked[i].desc = Http!fieldDesc(fields[i])
    BY Descs DEF Http!toKey
  <2>4. t.failed \in BOOLEAN /\ (~t.failed =>
          /\ \A k : k \in DOMAIN t.actions <=>
                    k \in DOMAIN actions \/ \E i \in DOMAIN fields : u \o fields[i].action = k
          /\ \A i \in DOMAIN fields :
              (\A j \in DOMAIN fields : j > i => u \o fields[j].action # u \o fields[i].action)
                => t.actions[u \o fields[i].action] = Http!fieldDesc(fields[i])
          /\ \A k \in DOMAIN actions :
              (\A i \in DOMAIN fields : u \o fields[i].action # k) => t.actions[k] = actions[k]
          /\ \A i \in DOMAIN fields : Http!Registrable(fields[i]))
    <3>1. t.failed \in BOOLEAN
      BY DEF Http!registerControllers
    <3>. HIDE DEF t
    <3>. QED  BY <3>1, FieldsRegistered DEF t
  <2> HIDE DEF t, asked
  <2>5. new.kind = "controllers" /\ new.asked = asked /\ new.ok = ok /\ ok \in BOOLEAN
    BY <2>4
  <2>6. CASE ~t.failed
    <3>1. actions' = t.actions
      BY <2>2, <2>6
    <3>2. ASSUME TableByPlace, calls' = Append(calls, new)
          PROVE  TableByPlace'
      <4>1. \A k : k \in DOMAIN actions' <=> k \in DOMAIN actions \/ \E x \in DOMAIN asked : asked[x].key = k
        <5>1. \A k : k \in DOMAIN t.actions <=>
                       k \in DOMAIN actions \/ \E i \in DOMAIN fields : u \o fields[i].action = k
          BY <2>4, <2>6
        <5>. QED  BY <2>3, <3>1, <5>1
      <4>5. ASSUME NEW x \in DOMAIN asked, \A y \in DOMAIN asked : y > x => asked[y].key # asked[x].key
            PROVE  actions'[asked[x].key] = asked[x].desc
        <5>1. \A j \in DOMAIN fields : j > x => u \o fields[j].action # u \o fields[x].action
          BY <2>3, <4>5
        <5>2. x \in DOMAIN fields /\ asked[x].key = u \o fields[x].action /\ asked[x].desc = Http!fieldDesc(fields[x])
          BY <2>3
        <5>3. t.actions[u \o fields[x].action] = Http!fieldDesc(fields[x])
          BY <2>4, <2>6, <5>1, <5>2
        <5>. QED  BY <3>1, <5>2, <5>3
      <4>6. ASSUME NEW k \in DOMAIN actions, \A x \in DOMAIN asked : asked[x].key # k
            PROVE  actions'[k] = actions[k]
        <5>1. \A i \in DOMAIN fields : u \o fields[i].action # k
          BY <2>3, <4>6
        <5>. QED  BY <2>4, <2>6, <3>1, <5>1
      <4>2. new.ok = TRUE
        BY <2>5, <2>6
      <4> HIDE DEF new
      <4>7. Extends(asked)
        BY <4>1, <4>5, <4>6 DEF Extends
      <4>. QED  BY ONLY <1>0, <2>5, <3>2, <4>2, <4>7, TableGrows
    <3>3. \A k \in DOMAIN actions' : actions'[k] # Http!NoDesc
      <4>1. ASSUME NEW i \in DOMAIN fields
            PROVE  Http!fieldDesc(fields[i]) # Http!NoDesc
        <5>1. fields[i].shape # "nil"
          BY <2>4, <2>6 DEF Http!Registrable, Http!nil
        <5>2. Http!fieldDesc(fields[i]).shape = fields[i].shape
          BY Descs
        <5>. QED  BY <5>1, <5>2, Descs
      <4>2. ASSUME NEW k, \E i \in DOMAIN fields : u \o fields[i].action = k
            PROVE  actions'[k] # Http!NoDesc
        <5> DEFINE S == {j \in 1..Len(fields) : u \o fields[j].action = k}
        <5>1. Len(fields) \in Nat /\ DOMAIN fields = 1..Len(fields)
          BY RequestsAssumption DEF Http!HooksAssumption
        <5>2. S \in SUBSET (1..Len(fields)) /\ S # {}
          BY <4>2, <5>1
        <5>3. PICK m \in S : \A x \in S : x <= m
          <6> HIDE DEF S
          <6>. QED  BY <5>1, <5>2, LargestOne
        <5>4. m \in DOMAIN fields /\ u \o fields[m].action = k
          BY <5>1
        <5>5. ASSUME NEW j \in DOMAIN fields, j > m
              PROVE  u \o fields[j].action # u \o fields[m].action
          <6>1. j \in S => j <= m
            BY <5>3
          <6>2. j \notin S
            BY <5>1, <5>4, <5>5, <6>1
          <6>. QED  BY <5>1, <5>4, <6>2
        <5>6. t.actions[k] = Http!fieldDesc(fields[m])
          BY <2>4, <2>6, <5>4, <5>5
        <5>. QED  BY <3>1, <4>1, <5>4, <5>6
      <4>. QED  BY <1>0, <2>4, <2>6, <3>1, <4>2
    <3>. QED  BY <2>2, <2>5, <3>2, <3>3, CallsRegister
  <2>7. CASE t.failed
    <3>1. DOMAIN actions' = {}
      BY <2>2, <2>7 DEF Http!NoTable
    <3>2. ASSUME TableByPlace, calls' = Append(calls, new)
          PROVE  TableByPlace'
      <4>1. new.ok = FALSE
        BY <2>5, <2>7
      <4> HIDE DEF new
      <4>. QED  BY <1>0, <2>5, <3>1, <3>2, <4>1, TableSurvives
    <3>. QED  BY <2>2, <2>5, <3>1, <3>2, CallsRegister
  <2>. QED  BY <2>4, <2>6, <2>7
<1>3. CASE Http!RegisterStatic
  <2>1. PICK files \in Files, ok \in BOOLEAN : Http!Called("static", <<>>, ok) /\ UNCHANGED actions
    BY <1>3 DEF Http!RegisterStatic
  <2> DEFINE new == [kind |-> "static", asked |-> <<>>, ok |-> ok]
  <2>2. new.kind = "static" /\ new.asked = <<>> /\ new.ok = ok
    OBVIOUS
  <2>3. ASSUME TableByPlace, calls' = Append(calls, new)
        PROVE  TableByPlace'
    <3> HIDE DEF new
    <3>1. CASE ok
      <4>1. Extends(<<>>)
        BY <2>1 DEF Extends
      <4>2. new.ok = TRUE
        BY <2>2, <3>1
      <4>. QED  BY ONLY <1>0, <2>2, <2>3, <4>1, <4>2, TableGrows
    <3>2. CASE ~ok
      BY <1>0, <2>1, <2>2, <2>3, <3>2, TableSurvives
    <3>. QED  BY <3>1, <3>2
  <2>. QED  BY <1>0, <2>1, <2>3, CallsRegister
<1>4. CASE Http!Serve
  <2>1. phase' = "serving" /\ calls' = <<>> /\ UNCHANGED <<hooks, actions, call, req>>
    BY <1>4 DEF Http!Serve
  <2>2. TableAsRegistered'
    BY <2>1 DEF TableAsRegistered, Http!TableAsRegistered
  <2>3. IsHistory'
    <3>1. calls' \in Seq({})
      BY <2>1
    <3>. QED  BY <3>1 DEF IsHistory
  <2>4. /\ DOMAIN req' = Clients /\ DOMAIN call' = Clients
        /\ \A c \in Clients : RequestInv(req[c])' /\ CallInv(c)'
    BY <2>1 DEF HttpInv, RequestInv, CallInv
  <2>. QED  BY <1>0, <2>1, <2>2, <2>3, <2>4 DEF HttpInv
<1>. QED  BY <1>1, <1>2, <1>3, <1>4

LEMMA HttpStep ==
  ASSUME HttpInv, Http!Next
  PROVE  HttpInv'
BY RegistrationSteps, ServingSteps, ClientSteps DEF Http!Next

LEMMA HttpStart ==
  ASSUME Http!Init
  PROVE  HttpInv
<1>1. /\ req = [c \in Clients |-> Http!NoRequest] /\ call = [c \in Clients |-> Http!NoCall]
      /\ calls = <<>> /\ actions = Http!NoTable
  BY DEF Http!Init
<1>2. RequestInv(Http!NoRequest)
  <2>1. /\ DOMAIN Http!NoRequest = RequestFields /\ Http!NoRequest.stage = "none"
        /\ Http!NoRequest.body = "empty" /\ Http!NoRequest.encoded = TRUE /\ Http!NoRequest.ctxErr = "nil"
        /\ Http!NoRequest.err = "nil" /\ Http!NoRequest.done = FALSE /\ Http!NoRequest.desc = Http!NoDesc
        /\ "empty" \in Http!Contents
    BY DEF Http!NoRequest, Http!nil, RequestFields, Http!Contents
  <2>. QED  BY <2>1, NewRequest
<1>3. DOMAIN Http!NoCall = {"state", "want", "result"} /\ Http!NoCall.result # "ok"
  BY DEF Http!NoCall, Http!nil
<1>4. \A c \in Clients : req[c] = Http!NoRequest /\ call[c] = Http!NoCall
  BY <1>1
<1>5. \A c \in Clients : RequestInv(req[c]) /\ CallInv(c)
  BY <1>2, <1>3, <1>4 DEF CallInv
<1>6. DOMAIN actions = {} /\ DOMAIN calls = {} /\ calls \in Seq({})
  BY <1>1 DEF Http!NoTable
<1>7. TableAsRegistered
  BY <1>6, ByPlace DEF TableByPlace, Place
<1>. QED  BY <1>1, <1>5, <1>6, <1>7 DEF HttpInv, IsHistory

LEMMA FailuresAreTold ==
  ASSUME HttpInv
  PROVE  FailuresTold
<1>1. Http!StatusTellsOutcome
  BY DEF HttpInv, RequestInv, Http!StatusTellsOutcome, Http!nil
<1>2. Http!ClientLearnsFailure
  BY DEF HttpInv, RequestInv, CallInv, Http!ClientLearnsFailure
<1>3. Http!HandledBodiesAreValid
  BY DEF HttpInv, RequestInv, Http!HandledBodiesAreValid
<1>. QED  BY <1>1, <1>2, <1>3 DEF FailuresTold

-----------------------------------------------------------------------------
(* The three together.                                                     *)

Inductive == TransferInv /\ CsvInv /\ HttpInv

LEMMA Untouched ==
  /\ TransferInv /\ UNCHANGED fileVars => TransferInv'
  /\ CsvInv /\ UNCHANGED csvVars => CsvInv'
  /\ HttpInv /\ UNCHANGED httpVars => HttpInv'
<1>1. ASSUME TransferInv, UNCHANGED fileVars
      PROVE  TransferInv'
  <2>1. UNCHANGED <<transfer, inbox, closed, broken, sender, receiver>>
    BY <1>1 DEF fileVars
  <2>2. UNCHANGED <<In, Lead, Ended, Reads, Live>>
    BY <2>1 DEF In, Lead, Ended, Reads, Live
  <2>3. UNCHANGED Chunks
    BY <2>2 DEF Chunks
  <2>4. TransferTypes' /\ KindInv' /\ WaitInv'
    BY <1>1, <2>1, <2>2 DEF TransferInv, TransferTypes, KindInv, WaitInv
  <2>6. OrderInv'
    <3>1. Whole(receiver.got + Chunks)' <=> Whole(receiver.got + Chunks)
      BY <2>1, <2>3 DEF Whole
    <3>. QED  BY <1>1, <2>1, <2>2, <3>1 DEF TransferInv, OrderInv
  <2>7. CountInv'
    BY <1>1, <2>1, <2>2, <2>3 DEF TransferInv, CountInv
  <2>8. ToldInv'
    <3>1. Whole(receiver.got)' <=> Whole(receiver.got)
      BY <2>1 DEF Whole
    <3>. QED  BY <1>1, <2>1, <2>2, <3>1 DEF TransferInv, ToldInv
  <2>. QED  BY <2>4, <2>6, <2>7, <2>8 DEF TransferInv
<1>2. ASSUME CsvInv, UNCHANGED csvVars
      PROVE  CsvInv'
  <2>1. UNCHANGED <<csv, pc, read, batch, total, accepted, tolerated, closes, result>>
    BY <1>2 DEF csvVars
  <2>3. CsvTypes' /\ SizeInv' /\ CloseInv'
    BY <1>2, <2>1 DEF CsvInv, CsvTypes, CsvRecord, SizeInv, CloseInv
  <2>4. BatchInv'
    BY <1>2, <2>1 DEF CsvInv, BatchInv, Increasing, Has, ReadRows, Csv!Row
  <2>5. Csv!RowsOnceInOrder' <=> Csv!RowsOnceInOrder
    BY <2>1 DEF Csv!RowsOnceInOrder, Csv!Row
  <2>6. Csv!PanicsOnlyAfterFailure' /\ Csv!ClosedInOrder'
    BY <1>2, <2>1 DEF CsvInv, Csv!PanicsOnlyAfterFailure, Csv!ClosedInOrder, Csv!Size
  <2>. QED  BY <1>2, <2>1, <2>3, <2>4, <2>5, <2>6 DEF CsvInv
<1>3. ASSUME HttpInv, UNCHANGED httpVars
      PROVE  HttpInv'
  <2>1. TableAsRegistered'
    BY <1>3, TableKept DEF HttpInv, httpVars
  <2>. QED  BY <1>3, <2>1 DEF httpVars, HttpInv, RequestInv, CallInv, IsHistory
<1>. QED  BY <1>1, <1>2, <1>3

LEMMA InductiveHolds == FairSpec => []Inductive
<1>1. Init => Inductive
  <2> SUFFICES ASSUME Init
               PROVE  Inductive
    OBVIOUS
  <2>1. Http!Init /\ Transfer!Init /\ Csv!Init
    BY DEF Init
  <2>. QED  BY <2>1, TransferStart, CsvStart, HttpStart DEF Inductive
<1>2. Inductive /\ [Next]_vars => Inductive'
  <2> SUFFICES ASSUME Inductive, [Next]_vars
               PROVE  Inductive'
    OBVIOUS
  <2>1. CASE Next
    BY <2>1, Untouched, TransferStep, CsvStep, HttpStep DEF Next, Inductive
  <2>2. CASE UNCHANGED vars
    BY <2>2, Untouched DEF vars, Inductive
  <2>. QED  BY <2>1, <2>2
<1>. QED  BY <1>1, <1>2, PTL DEF FairSpec

(* A file ends where its sender ended it: ReadFile succeeds with the whole *)
(* file only, a sender without an error had its file written, and a client *)
(* learns of the success of the server, for files and windows of any size. *)
THEOREM FilesArriveWhole == FairSpec => []FileArrives
BY InductiveHolds, FilesArrive, PTL DEF Inductive

(* ReadAllLines hands out every row once and in order, panics after a      *)
(* tolerated failure or with size zero only, and CsvReader closes in order,*)
(* for any records and batch sizes.                                        *)
THEOREM RowsTakenOnce == FairSpec => []RowsAccounted
BY InductiveHolds, RowsAreAccounted, PTL DEF Inductive

(* Without an error handler a status says what the post processors see,    *)
(* except for a fault with code 0 or 200 and a SOAP answer without a       *)
(* result; JsonRestClient gets no error for a request that was not         *)
(* handled, except for such a fault, for an action of no known type and    *)
(* where a hook answers; and an action with a body runs on one that        *)
(* decoded and was valid: for any clients, tables, hooks and messages.     *)
THEOREM FailuresAlwaysTold == FairSpec => []FailuresTold
BY InductiveHolds, FailuresAreTold, PTL DEF Inductive

(* Of every key the table has what the last call that still stands, and in *)
(* it the last field, asked for, and no other key: for any handlers and    *)
(* controllers and any number of calls.                                    *)
THEOREM TableStands == FairSpec => []TableAsRegistered
BY InductiveHolds, PTL DEF Inductive, HttpInv

=============================================================================
