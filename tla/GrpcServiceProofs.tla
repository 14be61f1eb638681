------------------------- MODULE GrpcServiceProofs -------------------------
(***************************************************************************)
(* Proofs about GrpcService, for any callers, controllers, methods and     *)
(* endpoints: what is drained, what is retried, what the hooks learn.      *)
(***************************************************************************)
EXTENDS GrpcService, TLAPS

Errors == Codes \cup {nil}

RequestRecord ==
  [stage : Stages, method : Methods \cup {NoMethod}, stream : BOOLEAN,
   err : Errors, ctxErr : Errors, reply : Codes \cup Answers, panicked : BOOLEAN]

CallRecord ==
  [state : {"idle", "trying", "waiting", "consuming", "done"},
   raw : BOOLEAN, stream : BOOLEAN,
   method : Methods \cup {NoMethod}, tries : 0..MaxTries, opened : BOOLEAN,
   result : Codes \cup Answers \cup {"encode", "decode", "DeadlineExceeded"}]

(* The post processors of a request that has ended were told its outcome.  *)
OutcomeSeen(q) ==
  q.stage = "done" /\ ~q.stream /\ Lookup(q) = nil /\ ~q.panicked
    => (q.ctxErr = nil <=> q.reply = "ok")

(* A call that goes on has tries left, one at the server is in one of its  *)
(* tries, and one that ended with Unavailable had them all or was a stream.*)
CallSound(o) ==
  /\ o.state = "trying" => o.tries < MaxTries
  /\ o.state \in {"waiting", "consuming"} => o.tries \in Tries
  /\ o.state = "consuming" => o.opened
  /\ ~o.raw /\ o.state = "done" /\ o.result = "Unavailable" => o.tries = MaxTries \/ o.opened

IInv ==
  /\ TypeOK
  /\ \A r \in AllRequests : OutcomeSeen(reqs[r])
  /\ \A c \in Callers : CallSound(call[c])
  /\ StopDrains

-----------------------------------------------------------------------------
(* The operators that say what the code makes of a request.                *)

LEMMA PanicsRecord ==
  ASSUME NEW q \in RequestRecord
  PROVE  Panics(q) \in RequestRecord /\ Panics(q).stage = "done" /\ Panics(q).panicked
BY DEF Panics, RequestRecord, Stages, Answers, nil

LEMMA FailsRecord ==
  ASSUME NEW q \in RequestRecord, NEW err \in Errors
  PROVE  Fails(q, err) \in RequestRecord /\ Fails(q, err).stage = "returned"
BY DEF Fails, RequestRecord, Stages

LEMMA RefusedRecord ==
  ASSUME NEW q \in RequestRecord, NEW err \in Errors
  PROVE  /\ [Fails(q, err) EXCEPT !.ctxErr = err] \in RequestRecord
         /\ [Fails(q, err) EXCEPT !.ctxErr = err].stage = "returned"
<1>1. PICK f \in RequestRecord : f = Fails(q, err) /\ f.stage = "returned"
  BY FailsRecord
<1>2. [f EXCEPT !.ctxErr = err] \in RequestRecord /\ [f EXCEPT !.ctxErr = err].stage = "returned"
  BY <1>1 DEF RequestRecord
<1>. QED  BY <1>1, <1>2

LEMMA DecodedRecords ==
  ASSUME NEW q \in RequestRecord, NEW d \in Decoded(q)
  PROVE  d \in RequestRecord /\ (d = q \/ d.stage = "returned" \/ d.panicked)
<1>1. CASE d = q
  BY <1>1
<1>2. CASE d = Panics(q)
  BY <1>2, PanicsRecord
<1>3. ASSUME NEW err \in {"InvalidArgument", "error"}, d = [Fails(q, err) EXCEPT !.ctxErr = err]
      PROVE  d \in RequestRecord /\ d.stage = "returned"
  BY <1>3, RefusedRecord DEF Errors, Codes
<1>. QED  BY <1>1, <1>2, <1>3 DEF Decoded

LEMMA CalledRecords ==
  ASSUME NEW q \in RequestRecord, NEW d \in Called(q)
  PROVE  d \in RequestRecord /\ OutcomeSeen(d)
<1>1. ASSUME NEW s \in {"asking", "handling"}, d = [q EXCEPT !.stage = s]
      PROVE  d \in RequestRecord /\ d.stage # "done"
  BY <1>1 DEF RequestRecord, Stages
<1>2. CASE d = Panics(q)
  BY <1>2, PanicsRecord DEF OutcomeSeen
<1>3. CASE d = Fails(q, "error")
  BY <1>3, FailsRecord DEF OutcomeSeen, Errors, Codes
<1>. QED  BY <1>1, <1>2, <1>3 DEF Called, OutcomeSeen

LEMMA HandledRecords ==
  ASSUME NEW q \in RequestRecord, q.stage = "returned", NEW h \in FailureHandled(q)
  PROVE  h \in RequestRecord /\ (h.stage = "returned" \/ h.panicked)
<1>1. CASE h = q
  BY <1>1
<1>2. CASE h = Panics(q)
  BY <1>2, PanicsRecord
<1>3. ASSUME NEW err \in {nil, "error"}, h = [q EXCEPT !.err = err]
      PROVE  h \in RequestRecord /\ h.stage = "returned"
  BY <1>3 DEF RequestRecord, Errors, Codes
<1>. QED  BY <1>1, <1>2, <1>3 DEF FailureHandled

LEMMA EndedRecord ==
  ASSUME NEW q \in RequestRecord, NEW reply \in Codes \cup Answers, NEW err \in Errors
  PROVE  /\ Ended(q, reply, err) \in RequestRecord
         /\ Ended(q, reply, err).reply = reply /\ Ended(q, reply, err).ctxErr = err
BY DEF Ended, RequestRecord, Stages

LEMMA RepliedRecords ==
  ASSUME NEW q \in RequestRecord, NEW n \in Replied(q)
  PROVE  n \in RequestRecord /\ (n.ctxErr = nil <=> n.reply = "ok")
<1>1. q.err \in Errors
  BY DEF RequestRecord
<1>2. /\ handleError(q.err) \in Codes \cup Answers
      /\ q.err # nil => handleError(q.err) # "ok"
  BY <1>1 DEF handleError, Errors, Codes, Answers, nil
<1>3. CASE q.err # nil /\ n = Ended(q, handleError(q.err), q.err)
  BY <1>1, <1>2, <1>3, EndedRecord
<1>4. CASE n = Ended(q, "ok", nil)
  BY <1>4, EndedRecord DEF Errors, Answers
<1>5. CASE n = Ended(q, "Unknown", "error")
  BY <1>5, EndedRecord DEF Errors, Codes, Answers, nil
<1>. QED  BY <1>3, <1>4, <1>5 DEF Replied

LEMMA NoRequestRecord == NoRequest \in RequestRecord /\ OutcomeSeen(NoRequest) /\ ~Running(NoRequest)
BY DEF NoRequest, RequestRecord, OutcomeSeen, Running, Stages, Errors, Answers, nil

-----------------------------------------------------------------------------
(* What a step does to one request or one call.                            *)

(* The request r becomes y, of which the hooks know the outcome.           *)
RequestBecomes(r, y) ==
  /\ reqs' = [reqs EXCEPT ![r] = y]
  /\ y \in RequestRecord /\ OutcomeSeen(y)

LEMMA AdvanceDoes ==
  ASSUME NEW r \in AllRequests, NEW at \in {"arrived", "handling", "asking", "returned"},
         NEW new \in RequestRecord, OutcomeSeen(new), Advance(r, at, new)
  PROVE  /\ \E y : RequestBecomes(r, y)
         /\ Running(reqs[r])
         /\ UNCHANGED <<endpoints, table, exited, serverVars, clientVars>>
BY NoRequestRecord DEF Advance, RequestBecomes, Running

LEMMA ServeDoes ==
  ASSUME TypeOK, NEW r \in AllRequests, Serve(r)
  PROVE  /\ \E y : RequestBecomes(r, y)
         /\ Running(reqs[r])
         /\ UNCHANGED <<endpoints, table, exited, serverVars, clientVars>>
<1>. PICK q \in RequestRecord : q = reqs[r]
  BY DEF TypeOK, RequestRecord, Errors
<1>1. CASE RequestBegins(r)
  <2>1. CASE Lookup(q) # nil /\ Advance(r, "arrived", [q EXCEPT !.stage = "done", !.reply = Lookup(q)])
    <3>1. PICK err \in Codes : err = Lookup(q)
      BY <2>1 DEF Lookup, Codes
    <3>2. PICK n : n = [q EXCEPT !.stage = "done", !.reply = err]
      OBVIOUS
    <3>3. n \in RequestRecord /\ n.method = q.method /\ n.stream = q.stream
      BY <3>2 DEF RequestRecord, Stages
    <3>4. OutcomeSeen(n)
      BY <2>1, <3>3 DEF OutcomeSeen, Lookup
    <3>. QED  BY <2>1, <3>1, <3>2, <3>3, <3>4, AdvanceDoes
  <2>2. ASSUME NEW d \in Decoded(q), NEW new \in IF d.stage = "arrived" THEN Called(d) ELSE {d},
               Advance(r, "arrived", new)
        PROVE  new \in RequestRecord /\ OutcomeSeen(new)
    <3>1. d \in RequestRecord /\ (d = q \/ d.stage = "returned" \/ d.panicked)
      BY DecodedRecords
    <3>2. CASE d.stage = "arrived"
      BY <3>1, <3>2, CalledRecords
    <3>3. CASE d.stage # "arrived"
      <4>1. q.stage = "arrived"
        BY <2>2 DEF Advance
      <4>. QED  BY <3>1, <3>3, <4>1 DEF OutcomeSeen
    <3>. QED  BY <3>2, <3>3
  <2>. QED  BY <1>1, <2>1, <2>2, AdvanceDoes DEF RequestBegins
<1>2. CASE HandlerAsks(r)
  <2>1. PICK n : n = [q EXCEPT !.stage = "handling"]
    OBVIOUS
  <2>2. n \in RequestRecord /\ OutcomeSeen(n)
    BY <2>1 DEF RequestRecord, Stages, OutcomeSeen
  <2>. QED  BY <1>2, <2>1, <2>2, AdvanceDoes DEF HandlerAsks
<1>3. CASE HandlerReturns(r)
  <2>1. PICK err \in {nil, "error", "Unavailable"} : Advance(r, "handling", Fails(q, err))
    BY <1>3 DEF HandlerReturns
  <2>2. Fails(q, err) \in RequestRecord /\ OutcomeSeen(Fails(q, err))
    BY FailsRecord DEF Errors, Codes, OutcomeSeen
  <2>. QED  BY <2>1, <2>2, AdvanceDoes
<1>4. CASE RequestEnds(r)
  <2>1. PICK h \in FailureHandled(q) :
          \E new \in IF h.stage = "returned" THEN Replied(h) ELSE {h} :
            Advance(r, "returned", [new EXCEPT !.err = nil])
    BY <1>4 DEF RequestEnds
  <2>2. PICK new \in IF h.stage = "returned" THEN Replied(h) ELSE {h} :
          Advance(r, "returned", [new EXCEPT !.err = nil])
    BY <2>1
  <2>3. h \in RequestRecord /\ (h.stage = "returned" \/ h.panicked)
    BY <2>2, HandledRecords DEF Advance
  <2>4. new \in RequestRecord /\ (new.panicked \/ (new.ctxErr = nil <=> new.reply = "ok"))
    BY <2>2, <2>3, RepliedRecords
  <2>5. PICK n : n = [new EXCEPT !.err = nil]
    OBVIOUS
  <2>6. n \in RequestRecord /\ n.panicked = new.panicked /\ n.ctxErr = new.ctxErr
        /\ n.reply = new.reply
    BY <2>4, <2>5 DEF RequestRecord, Errors
  <2>7. OutcomeSeen(n)
    BY <2>4, <2>6 DEF OutcomeSeen
  <2>. QED  BY <2>2, <2>5, <2>6, <2>7, AdvanceDoes
<1>. QED  BY <1>1, <1>2, <1>3, <1>4 DEF Serve

LEMMA RetryRecord ==
  ASSUME NEW o \in CallRecord, o.tries \in Tries
  PROVE  retryUnavailable(o) \in CallRecord /\ CallSound(retryUnavailable(o))
<1>1. CASE o.result = "Unavailable" /\ ~o.raw /\ o.tries < MaxTries
  <2>1. PICK n : n = [o EXCEPT !.state = "trying", !.result = nil]
    OBVIOUS
  <2>2. n \in CallRecord /\ CallSound(n)
    BY <1>1, <2>1 DEF CallRecord, CallSound, Answers
  <2>. QED  BY <1>1, <2>1, <2>2 DEF retryUnavailable
<1>2. CASE ~(o.result = "Unavailable" /\ ~o.raw /\ o.tries < MaxTries)
  <2>1. PICK n : n = [o EXCEPT !.state = "done"]
    OBVIOUS
  <2>2. n \in CallRecord /\ CallSound(n)
    BY <1>2, <2>1 DEF CallRecord, CallSound, Tries, MaxTries
  <2>. QED  BY <1>2, <2>1, <2>2 DEF retryUnavailable
<1>. QED  BY <1>1, <1>2

(* The call of c becomes o, and losses and the server are left alone.      *)
CallBecomes(c, o) ==
  /\ call' = [call EXCEPT ![c] = o]
  /\ o \in CallRecord /\ CallSound(o)
  /\ UNCHANGED <<endpoints, table, exited, serverVars>>

ClientDone(c) ==
  /\ \E o : CallBecomes(c, o)
  /\ losses' \in 0..MaxLosses
  /\ \/ UNCHANGED reqs
     \/ \E r \in AllRequests : \E y :
          RequestBecomes(r, y) /\ (Running(y) => server = "serving")

LEMMA IdleDoes ==
  ASSUME TypeOK, NEW c \in Callers, Invoke(c) \/ Conn(c) \/ InvokeRejected(c)
  PROVE  ClientDone(c)
<1>1. NoCall \in CallRecord
  BY DEF NoCall, CallRecord, Answers, MaxTries
<1>2. ASSUME NEW raw \in BOOLEAN, NEW m \in Methods \cup {NoMethod}, NEW s \in BOOLEAN
      PROVE  LET n == [NoCall EXCEPT !.state = "trying", !.raw = raw, !.stream = s, !.method = m]
             IN  n \in CallRecord /\ CallSound(n)
  <2>1. PICK n : n = [NoCall EXCEPT !.state = "trying", !.raw = raw, !.stream = s, !.method = m]
    OBVIOUS
  <2>2. n = [state |-> "trying", raw |-> raw, stream |-> s, method |-> m, tries |-> 0,
             opened |-> FALSE, result |-> nil]
    BY <2>1 DEF NoCall
  <2>3. n \in CallRecord /\ CallSound(n)
    BY <2>2 DEF CallRecord, CallSound, Answers, MaxTries
  <2>. QED  BY <2>1, <2>3, Zenon
<1>3. ASSUME NEW raw \in BOOLEAN, Calls(c, raw, Methods) \/ Calls(c, raw, Methods \cup {NoMethod})
      PROVE  ClientDone(c)
  BY <1>2, <1>3 DEF Calls, SetCall, CallBecomes, ClientDone, TypeOK
<1>4. LET n == [NoCall EXCEPT !.state = "done", !.result = "encode"]
      IN  n \in CallRecord /\ CallSound(n)
  <2>1. PICK n : n = [NoCall EXCEPT !.state = "done", !.result = "encode"]
    OBVIOUS
  <2>2. n = [state |-> "done", raw |-> FALSE, stream |-> FALSE, method |-> NoMethod, tries |-> 0,
             opened |-> FALSE, result |-> "encode"]
    BY <2>1 DEF NoCall
  <2>3. n \in CallRecord /\ CallSound(n)
    BY <2>2 DEF CallRecord, CallSound, MaxTries
  <2>. QED  BY <2>1, <2>3, Zenon
<1>5. CASE InvokeRejected(c)
  BY <1>4, <1>5 DEF InvokeRejected, SetCall, CallBecomes, ClientDone, TypeOK
<1>. QED  BY <1>3, <1>5 DEF Invoke, Conn

LEMMA SendDoes ==
  ASSUME TypeOK, NEW c \in Callers, CallSound(call[c]), Send(c)
  PROVE  ClientDone(c)
<1>1. PICK x \in CallRecord : x = call[c] /\ CallSound(x)
  BY DEF TypeOK, CallRecord
<1>2. PICK o : o = [x EXCEPT !.tries = @ + 1]
  OBVIOUS
<1>3. x.state = "trying" /\ server = "serving"
  <2>1. [call[c] EXCEPT !.tries = @ + 1].state = "trying" /\ server = "serving"
    BY DEF Send
  <2>. QED  BY <1>1, <2>1 DEF CallRecord
<1>4. /\ o \in CallRecord /\ o.tries \in Tries /\ o.raw = x.raw /\ o.stream = x.stream
      /\ o.method = x.method
  BY <1>1, <1>2, <1>3 DEF CallRecord, CallSound, Tries, MaxTries
<1>5. PICK n : n = [o EXCEPT !.state = IF o.stream THEN "consuming" ELSE "waiting",
                             !.opened = o.stream]
  OBVIOUS
<1>6. n \in CallRecord /\ CallSound(n)
  BY <1>4, <1>5 DEF CallRecord, CallSound, Tries
<1>7. PICK y : y = [NoRequest EXCEPT !.stage = "arrived", !.stream = o.stream, !.method = o.method]
  OBVIOUS
<1>8. y \in RequestRecord /\ OutcomeSeen(y)
  BY <1>4, <1>7 DEF CallRecord, RequestRecord, NoRequest, OutcomeSeen, Stages, Errors, Answers
<1>9. /\ SetCall(c, n) /\ reqs' = [reqs EXCEPT ![<<c, o.tries>>] = y] /\ UNCHANGED losses
  BY <1>1, <1>2, <1>5, <1>7, Zenon DEF Send
<1>10. <<c, o.tries>> \in AllRequests
  BY <1>4 DEF AllRequests
<1>. QED
  BY <1>3, <1>6, <1>8, <1>9, <1>10 DEF ClientDone, CallBecomes, RequestBecomes, SetCall, TypeOK

LEMMA SendRefusedDoes ==
  ASSUME TypeOK, NEW c \in Callers, CallSound(call[c]), SendRefused(c)
  PROVE  ClientDone(c)
<1>1. PICK x \in CallRecord : x = call[c] /\ CallSound(x)
  BY DEF TypeOK, CallRecord
<1>2. PICK o : o = [x EXCEPT !.tries = @ + 1, !.result = "Unavailable"]
  OBVIOUS
<1>3. o \in CallRecord /\ o.tries \in Tries
  <2>1. x.state = "trying"
    BY <1>1 DEF SendRefused
  <2>2. x.tries \in 0..2
    BY <1>1, <2>1 DEF CallSound, CallRecord, MaxTries
  <2>3. PICK t \in 1..3 : t = x.tries + 1
    BY <2>2
  <2>4. o = [state |-> x.state, raw |-> x.raw, stream |-> x.stream, method |-> x.method,
             tries |-> t, opened |-> x.opened, result |-> "Unavailable"]
    BY <1>2, <2>3 DEF CallRecord
  <2>. QED  BY <2>3, <2>4 DEF CallRecord, Codes, Tries, MaxTries
<1>4. SetCall(c, retryUnavailable(o)) /\ UNCHANGED <<losses, reqs>>
  BY <1>1, <1>2, Zenon DEF SendRefused
<1>. QED
  BY <1>3, <1>4, RetryRecord DEF ClientDone, CallBecomes, SetCall, TypeOK

LEMMA ReceiveDoes ==
  ASSUME TypeOK, NEW c \in Callers, CallSound(call[c]), Receive(c)
  PROVE  ClientDone(c)
<1>1. PICK x \in CallRecord : x = call[c] /\ CallSound(x)
  BY DEF TypeOK, CallRecord
<1>2. x.state = "waiting" /\ x.tries \in Tries
  BY <1>1 DEF Receive, CallSound
<1>3. <<c, x.tries>> \in AllRequests
  BY <1>2 DEF AllRequests
<1>4. reqs[<<c, x.tries>>].reply \in Codes \cup Answers
  BY <1>3 DEF TypeOK
<1>5. PICK res \in Codes \cup Answers \cup {"decode"} :
        SetCall(c, retryUnavailable([x EXCEPT !.result = res]))
  BY <1>1, <1>4 DEF Receive, Answers
<1>6. [x EXCEPT !.result = res] \in CallRecord /\ [x EXCEPT !.result = res].tries \in Tries
  BY <1>2 DEF CallRecord
<1>7. reqs' = [reqs EXCEPT ![<<c, x.tries>>] = NoRequest] /\ UNCHANGED losses
  BY <1>1 DEF Receive
<1>. QED
  BY <1>3, <1>5, <1>6, <1>7, RetryRecord, NoRequestRecord
     DEF ClientDone, CallBecomes, RequestBecomes, SetCall, TypeOK

LEMMA ConsumerEndsDoes ==
  ASSUME TypeOK, NEW c \in Callers, CallSound(call[c]), ConsumerEnds(c)
  PROVE  ClientDone(c)
<1>1. PICK x \in CallRecord : x = call[c] /\ CallSound(x)
  BY DEF TypeOK, CallRecord
<1>2. x.state = "consuming" /\ x.tries \in Tries /\ x.opened
  BY <1>1 DEF ConsumerEnds, CallSound
<1>3. <<c, x.tries>> \in AllRequests
  BY <1>2 DEF AllRequests
<1>4. PICK reply \in Codes \cup Answers : reply = reqs[<<c, x.tries>>].reply
  BY <1>3 DEF TypeOK
<1>5. PICK n : n = [x EXCEPT !.state = "done", !.result = reply]
  OBVIOUS
<1>6. n \in CallRecord /\ CallSound(n)
  BY <1>2, <1>5 DEF CallRecord, CallSound
<1>7. /\ SetCall(c, n) /\ reqs' = [reqs EXCEPT ![<<c, x.tries>>] = NoRequest] /\ UNCHANGED losses
  BY <1>1, <1>4, <1>5, Zenon DEF ConsumerEnds
<1>. QED
  BY <1>3, <1>6, <1>7, NoRequestRecord DEF ClientDone, CallBecomes, RequestBecomes, SetCall, TypeOK

LEMMA ConnectionLostDoes ==
  ASSUME TypeOK, NEW c \in Callers, CallSound(call[c]), ConnectionLost(c)
  PROVE  ClientDone(c)
<1>1. PICK x \in CallRecord : x = call[c] /\ CallSound(x)
  BY DEF TypeOK, CallRecord
<1>2. PICK o : o = [x EXCEPT !.result = "Unavailable"]
  OBVIOUS
<1>3. o \in CallRecord /\ o.state = x.state /\ o.tries = x.tries /\ o.opened = x.opened
  BY <1>2 DEF CallRecord, Codes
<1>4. o.state \in {"waiting", "consuming"} /\ UNCHANGED reqs /\ losses' \in 0..MaxLosses
  BY <1>1, <1>2, ConstantsAssumption DEF ConnectionLost, TypeOK
<1>5. o.tries \in Tries /\ (o.state = "consuming" => o.opened)
  BY <1>1, <1>3, <1>4 DEF CallSound
<1>6. PICK n : n = [o EXCEPT !.state = "done"]
  OBVIOUS
<1>7. o.opened => n \in CallRecord /\ CallSound(n)
  BY <1>3, <1>6 DEF CallRecord, CallSound
<1>8. SetCall(c, IF o.state = "waiting" THEN retryUnavailable(o) ELSE n)
  BY <1>1, <1>2, <1>6 DEF ConnectionLost
<1>. QED
  BY <1>3, <1>4, <1>5, <1>7, <1>8, RetryRecord DEF ClientDone, CallBecomes, SetCall

LEMMA ExpireDoes ==
  ASSUME TypeOK, NEW c \in Callers, Expire(c)
  PROVE  ClientDone(c)
<1>1. PICK x \in CallRecord : x = call[c]
  BY DEF TypeOK, CallRecord
<1>2. PICK n : n = [x EXCEPT !.state = "done", !.result = "DeadlineExceeded"]
  OBVIOUS
<1>3. n \in CallRecord /\ CallSound(n)
  BY <1>2 DEF CallRecord, CallSound
<1>4. SetCall(c, n) /\ UNCHANGED <<losses, reqs>>
  BY <1>1, <1>2, Zenon DEF Expire
<1>. QED  BY <1>3, <1>4 DEF ClientDone, CallBecomes, SetCall, TypeOK

-----------------------------------------------------------------------------
(* The invariant over each kind of step.                                   *)

LEMMA InitInv == Init => IInv
<1>. SUFFICES ASSUME Init PROVE IInv
  OBVIOUS
<1>1. NoCall \in CallRecord /\ CallSound(NoCall)
  BY DEF NoCall, CallRecord, CallSound, Answers, MaxTries
<1>2. \A r \in AllRequests : reqs[r] \in RequestRecord /\ OutcomeSeen(reqs[r]) /\ ~Running(reqs[r])
  BY NoRequestRecord DEF Init
<1>3. \A c \in Callers : CallSound(call[c])
  BY <1>1 DEF Init
<1>4. TypeOK
  <2>1. call \in [Callers -> CallRecord] /\ reqs \in [AllRequests -> RequestRecord]
    BY <1>1, NoRequestRecord DEF Init
  <2>2. /\ exited \in BOOLEAN /\ lock = Nobody /\ server = "nil" /\ ops = 0 /\ losses = 0
        /\ ctl = [k \in Controllers |-> "idle"]
    BY DEF Init
  <2>. QED
    BY <2>1, <2>2, ConstantsAssumption DEF TypeOK, CallRecord, RequestRecord, Errors
<1>5. StopDrains
  BY <1>2 DEF StopDrains, NothingRuns
<1>. QED  BY <1>2, <1>3, <1>4, <1>5 DEF IInv

(* Steps of the server's functions leave calls alone, and the requests too *)
(* unless they end the process.                                            *)
LEMMA FatalStep ==
  ASSUME IInv, Fatal
  PROVE  IInv'
<1>1. TypeOK'
  BY NoRequestRecord DEF IInv, Fatal, TypeOK, RequestRecord, Errors, clientVars
<1>2. \A r \in AllRequests : OutcomeSeen(reqs[r])' /\ ~Running(reqs'[r])
  BY NoRequestRecord DEF Fatal, OutcomeSeen, Lookup
<1>3. \A c \in Callers : CallSound(call[c])'
  BY DEF IInv, Fatal, CallSound, clientVars
<1>4. StopDrains'
  BY <1>2 DEF StopDrains, NothingRuns, Running
<1>. QED  BY <1>1, <1>2, <1>3, <1>4 DEF IInv

LEMMA ServerStep ==
  ASSUME IInv, NEW k \in Controllers, CallServer(k) \/ Server(k) \/ ListenFails(k)
  PROVE  IInv'
<1>1. CASE StartTwice(k)
  BY <1>1, FatalStep DEF StartTwice
<1>2. ASSUME UNCHANGED <<table, reqs, clientVars>>, TypeOK', server' = "nil" => server = "nil" \/ NothingRuns
      PROVE  IInv'
  <2>1. \A r \in AllRequests : OutcomeSeen(reqs[r])'
    BY <1>2 DEF IInv, OutcomeSeen, Lookup
  <2>2. \A c \in Callers : CallSound(call[c])'
    BY <1>2 DEF IInv, CallSound, clientVars
  <2>3. StopDrains'
    BY <1>2 DEF IInv, StopDrains, NothingRuns, Running
  <2>. QED  BY <1>2, <2>1, <2>2, <2>3 DEF IInv
<1>. USE DEF TypeOK, quiet, clientVars, Goto, Free
<1>3. CASE CallServer(k)
  <2>1. UNCHANGED <<table, reqs, clientVars>> /\ TypeOK'
    BY <1>3, ConstantsAssumption DEF IInv, CallServer
  <2>2. server' = "nil" => server = "nil" \/ NothingRuns
    BY <1>3 DEF CallServer
  <2>. QED  BY <1>2, <2>1, <2>2
<1>4. CASE StartBackendGrpcServer(k)
  <2>1. UNCHANGED <<table, reqs, clientVars>> /\ TypeOK'
    BY <1>4 DEF IInv, StartBackendGrpcServer
  <2>2. server' = "nil" => server = "nil" \/ NothingRuns
    BY <1>4 DEF StartBackendGrpcServer
  <2>. QED  BY <1>2, <2>1, <2>2
<1>5. CASE Listens(k)
  <2>1. UNCHANGED <<table, reqs, clientVars>> /\ TypeOK'
    BY <1>5 DEF IInv, Listens
  <2>2. server' = "nil" => server = "nil" \/ NothingRuns
    BY <1>5 DEF Listens
  <2>. QED  BY <1>2, <2>1, <2>2
<1>6. CASE StartBackendGrpcServerOn(k)
  <2>1. UNCHANGED <<table, reqs, clientVars>> /\ TypeOK'
    BY <1>6 DEF IInv, StartBackendGrpcServerOn
  <2>2. server' = "nil" => server = "nil" \/ NothingRuns
    BY <1>6 DEF StartBackendGrpcServerOn
  <2>. QED  BY <1>2, <2>1, <2>2
<1>7. CASE StopGrpcServer(k)
  <2>1. UNCHANGED <<table, reqs, clientVars>> /\ TypeOK'
    BY <1>7 DEF IInv, StopGrpcServer
  <2>2. server' = "nil" => server = "nil" \/ NothingRuns
    BY <1>7 DEF StopGrpcServer
  <2>. QED  BY <1>2, <2>1, <2>2
<1>8. CASE StopDrained(k)
  <2>1. UNCHANGED <<table, reqs, clientVars>> /\ TypeOK'
    BY <1>8 DEF IInv, StopDrained
  <2>2. server' = "nil" => server = "nil" \/ NothingRuns
    BY <1>8 DEF StopDrained
  <2>. QED  BY <1>2, <2>1, <2>2
<1>9. CASE UpdateHandlers(k)
  <2>1. UNCHANGED <<table, reqs, clientVars>> /\ TypeOK'
    BY <1>9 DEF IInv, UpdateHandlers
  <2>2. server' = "nil" => server = "nil" \/ NothingRuns
    BY <1>9 DEF UpdateHandlers
  <2>. QED  BY <1>2, <2>1, <2>2
<1>10. CASE ServerIsInitialized(k)
  <2>1. UNCHANGED <<table, reqs, clientVars>> /\ TypeOK'
    BY <1>10 DEF IInv, ServerIsInitialized
  <2>2. server' = "nil" => server = "nil" \/ NothingRuns
    BY <1>10 DEF ServerIsInitialized
  <2>. QED  BY <1>2, <2>1, <2>2
<1>11. CASE ListenFails(k)
  <2>1. UNCHANGED <<table, reqs, clientVars>> /\ TypeOK'
    BY <1>11 DEF IInv, ListenFails
  <2>2. server' = "nil" => server = "nil" \/ NothingRuns
    BY <1>11 DEF ListenFails
  <2>. QED  BY <1>2, <2>1, <2>2
<1>. QED
  BY <1>1, <1>3, <1>4, <1>5, <1>6, <1>7, <1>8, <1>9, <1>10, <1>11 DEF Server

LEMMA ServeStep ==
  ASSUME IInv, NEW r \in AllRequests, Serve(r)
  PROVE  IInv'
<1>1. PICK y : RequestBecomes(r, y)
  BY ServeDoes DEF IInv
<1>2. Running(reqs[r]) /\ UNCHANGED <<endpoints, table, exited, serverVars, clientVars>>
  BY ServeDoes DEF IInv
<1>3. DOMAIN reqs = AllRequests /\ reqs' = [reqs EXCEPT ![r] = y] /\ y \in RequestRecord
  BY <1>1 DEF RequestBecomes, IInv, TypeOK
<1>4. TypeOK'
  BY <1>2, <1>3 DEF IInv, TypeOK, serverVars, clientVars, RequestRecord, Errors
<1>5. \A q \in AllRequests : OutcomeSeen(reqs[q])'
  <2>1. \A q \in AllRequests : reqs'[q] = IF q = r THEN y ELSE reqs[q]
    BY <1>3
  <2>2. \A q \in AllRequests : OutcomeSeen(reqs'[q])
    BY <1>1, <2>1 DEF RequestBecomes, IInv
  <2>. QED  BY <1>2, <2>2 DEF OutcomeSeen, Lookup
<1>6. \A c \in Callers : CallSound(call[c])'
  BY <1>2 DEF IInv, CallSound, clientVars
<1>7. StopDrains'
  BY <1>2 DEF IInv, StopDrains, NothingRuns, serverVars
<1>. QED  BY <1>4, <1>5, <1>6, <1>7 DEF IInv

LEMMA ClientStep ==
  ASSUME IInv, NEW c \in Callers,
         Invoke(c) \/ Conn(c) \/ InvokeRejected(c) \/ Client(c) \/ ConnectionLost(c) \/ Expire(c)
  PROVE  IInv'
<1>1. ClientDone(c)
  BY IdleDoes, SendDoes, SendRefusedDoes, ReceiveDoes, ConsumerEndsDoes, ConnectionLostDoes,
     ExpireDoes DEF IInv, Client
<1>2. PICK o : CallBecomes(c, o)
  BY <1>1 DEF ClientDone
<1>3. /\ call' = [call EXCEPT ![c] = o] /\ o \in CallRecord /\ CallSound(o)
      /\ UNCHANGED <<endpoints, table, exited, lock, server, ctl, ops>>
  BY <1>2 DEF CallBecomes, serverVars
<1>4. \A d \in Callers : CallSound(call[d])'
  <2>1. \A d \in Callers : call'[d] = IF d = c THEN o ELSE call[d]
    BY <1>3 DEF IInv, TypeOK
  <2>2. \A d \in Callers : CallSound(call'[d])
    BY <1>3, <2>1 DEF IInv
  <2>. QED  BY <2>2 DEF CallSound
<1>5. ASSUME reqs' \in [AllRequests -> RequestRecord]
      PROVE  TypeOK'
  BY <1>1, <1>3, <1>5 DEF ClientDone, IInv, TypeOK, CallRecord, RequestRecord, Errors
<1>6. CASE UNCHANGED reqs
  <2>1. \A q \in AllRequests : OutcomeSeen(reqs[q])'
    BY <1>3, <1>6 DEF IInv, OutcomeSeen, Lookup
  <2>2. StopDrains'
    BY <1>3, <1>6 DEF IInv, StopDrains, NothingRuns, Running
  <2>3. TypeOK'
    BY <1>5, <1>6 DEF IInv, TypeOK, RequestRecord, Errors
  <2>. QED  BY <1>4, <2>1, <2>2, <2>3 DEF IInv
<1>7. ASSUME NEW r \in AllRequests, NEW y, RequestBecomes(r, y), Running(y) => server = "serving"
      PROVE  IInv'
  <2>1. DOMAIN reqs = AllRequests /\ reqs' = [reqs EXCEPT ![r] = y] /\ y \in RequestRecord
    BY <1>7 DEF RequestBecomes, IInv, TypeOK
  <2>2. \A q \in AllRequests : reqs'[q] = IF q = r THEN y ELSE reqs[q]
    BY <2>1
  <2>3. TypeOK'
    BY <1>5, <2>1 DEF IInv, TypeOK, RequestRecord, Errors
  <2>4. \A q \in AllRequests : OutcomeSeen(reqs[q])'
    <3>1. \A q \in AllRequests : OutcomeSeen(reqs'[q])
      BY <1>7, <2>2 DEF RequestBecomes, IInv
    <3>. QED  BY <1>3, <3>1 DEF OutcomeSeen, Lookup
  <2>5. StopDrains'
    BY <1>3, <1>7, <2>2 DEF IInv, StopDrains, NothingRuns, Running
  <2>. QED  BY <1>4, <2>3, <2>4, <2>5 DEF IInv
<1>. QED  BY <1>1, <1>6, <1>7 DEF ClientDone

LEMMA Inductive == IInv /\ [Next]_vars => IInv'
<1>. SUFFICES ASSUME IInv, [Next]_vars PROVE IInv'
  OBVIOUS
<1>1. ASSUME NEW k \in Controllers, CallServer(k) \/ Server(k) \/ ListenFails(k) PROVE IInv'
  BY <1>1, ServerStep
<1>2. CASE ServeFails
  BY <1>2, FatalStep DEF ServeFails
<1>3. ASSUME NEW r \in AllRequests, Serve(r) PROVE IInv'
  BY <1>3, ServeStep
<1>4. ASSUME NEW c \in Callers,
             Invoke(c) \/ Conn(c) \/ InvokeRejected(c) \/ Client(c) \/ ConnectionLost(c) \/ Expire(c)
      PROVE  IInv'
  BY <1>4, ClientStep
<1>5. CASE UNCHANGED vars
  BY <1>5 DEF vars, serverVars, clientVars, IInv, TypeOK, OutcomeSeen, Lookup, CallSound,
              StopDrains, NothingRuns, Running
<1>. QED  BY <1>1, <1>2, <1>3, <1>4, <1>5 DEF Next

LEMMA Invariant == Spec => []IInv
BY InitInv, Inductive, PTL DEF Spec

-----------------------------------------------------------------------------
(* The handler table.                                                      *)

LEMMA PutAllPaths ==
  ASSUME NEW list, NEW S
  PROVE  DOMAIN PutAll(list, S) = {list[i].path : i \in S}
BY DEF PutAll

LEMMA PutAllDeclared ==
  ASSUME NEW list, NEW F, NEW S, F \cup S = DOMAIN list
  PROVE  GetEndpoints(list) = DOMAIN PutAll(list, F) \cup DOMAIN PutAll(list, S)
<1>1. {list[i].path : i \in DOMAIN list}
        = {list[i].path : i \in F} \cup {list[i].path : i \in S}
  <2>1. \A i : i \in DOMAIN list <=> i \in F \/ i \in S
    OBVIOUS
  <2>. QED  BY <2>1, Zenon
<1>. QED  BY <1>1, PutAllPaths DEF GetEndpoints

(* Without a second endpoint for a path every endpoint is the one served.  *)
LEMMA PutAllServes ==
  ASSUME NEW list, NEW S \in SUBSET Nat, NEW i \in S,
         \A j \in S : ~SamePathBefore(list, S, j)
  PROVE  \E p \in DOMAIN PutAll(list, S) : PutAll(list, S)[p] = i
<1>. DEFINE p == list[i].path
            Chosen(j) == list[j].path = p /\ \A k \in S : list[k].path = p => k <= j
<1>1. p \in {list[j].path : j \in S} /\ p \in DOMAIN PutAll(list, S)
  BY PutAllPaths
<1>2. \A j \in S : list[j].path = p => j = i
  BY DEF SamePathBefore
<1>3. Chosen(i)
  BY <1>2
<1>4. (CHOOSE j \in S : Chosen(j)) = i
  <2>1. \A j \in S : Chosen(j) => j = i
    BY <1>2
  <2>. HIDE DEF Chosen
  <2>. QED  BY <1>3, <2>1
<1>5. PutAll(list, S)[p] = CHOOSE j \in S : Chosen(j)
  BY <1>1 DEF PutAll
<1>. QED  BY <1>1, <1>4, <1>5

LEMMA DescriptorsServed ==
  ASSUME NEW list \in Seq(Endpoint), NEW t, t = resolveHandlersByDescriptors(list), ~t.failed
  PROVE  /\ \A i \in DOMAIN list :
              \/ \E p \in DOMAIN t.functions : t.functions[p] = i
              \/ \E p \in DOMAIN t.streams : t.streams[p] = i
         /\ GetEndpoints(list) = DOMAIN t.functions \cup DOMAIN t.streams
<1>. DEFINE S == {i \in DOMAIN list : list[i].kind = "stream"}
            F == DOMAIN list \ S
<1>1. /\ t.functions = PutAll(list, F) /\ t.streams = PutAll(list, S)
      /\ \A i \in F : AcceptsDescriptor(list, F, i)
      /\ \A i \in S : AcceptsDescriptor(list, S, i)
  BY DEF resolveHandlersByDescriptors
<1>2. S \in SUBSET Nat /\ F \in SUBSET Nat /\ F \cup S = DOMAIN list
  <2>1. DOMAIN list \in SUBSET Nat
    <3>1. DOMAIN list = 1..Len(list) /\ Len(list) \in Nat
      OBVIOUS
    <3>. QED  BY <3>1
  <2>. QED  BY <2>1
<1>. HIDE DEF S, F
<1>3. ASSUME NEW i \in F
      PROVE  \E p \in DOMAIN PutAll(list, F) : PutAll(list, F)[p] = i
  BY <1>1, <1>2, <1>3, PutAllServes DEF AcceptsDescriptor
<1>4. ASSUME NEW i \in S
      PROVE  \E p \in DOMAIN PutAll(list, S) : PutAll(list, S)[p] = i
  BY <1>1, <1>2, <1>4, PutAllServes DEF AcceptsDescriptor
<1>5. GetEndpoints(list) = DOMAIN PutAll(list, F) \cup DOMAIN PutAll(list, S)
  BY <1>2, PutAllDeclared
<1>. QED  BY <1>1, <1>2, <1>3, <1>4, <1>5

LEMMA StructsServed ==
  ASSUME NEW list, NEW t, t = resolveHandlers(list)
  PROVE  GetEndpoints(list) = DOMAIN t.functions \cup DOMAIN t.streams
<1>. DEFINE S == {i \in DOMAIN list : list[i].kind = "stream" /\ ~list[i].inMap}
            F == DOMAIN list \ S
<1>1. t.functions = PutAll(list, F) /\ t.streams = PutAll(list, S)
  BY DEF resolveHandlers
<1>2. F \cup S = DOMAIN list
  OBVIOUS
<1>. HIDE DEF S, F
<1>. QED  BY <1>1, <1>2, PutAllDeclared

(* The table is the one the constructor made: no step changes it.          *)
ServiceMade == endpoints \in EndpointLists /\ table = NewService(endpoints)

LEMMA ServiceStays == ServiceMade /\ [Next]_vars => ServiceMade'
<1>. SUFFICES ASSUME ServiceMade, [Next]_vars PROVE UNCHANGED <<endpoints, table>>
  BY DEF ServiceMade, NewService, resolveHandlers, resolveHandlersByDescriptors
<1>1. ASSUME NEW k \in Controllers, CallServer(k) \/ Server(k) \/ ListenFails(k)
      PROVE  UNCHANGED <<endpoints, table>>
  BY <1>1 DEF CallServer, Server, ListenFails, StartTwice, Fatal, StartBackendGrpcServer, Listens,
              StartBackendGrpcServerOn, StopGrpcServer, StopDrained, UpdateHandlers,
              ServerIsInitialized, quiet
<1>2. CASE ServeFails
  BY <1>2 DEF ServeFails, Fatal
<1>3. ASSUME NEW r \in AllRequests, Serve(r)
      PROVE  UNCHANGED <<endpoints, table>>
  BY <1>3 DEF Serve, RequestBegins, HandlerAsks, HandlerReturns, RequestEnds, Advance
<1>4. ASSUME NEW c \in Callers,
             Invoke(c) \/ Conn(c) \/ InvokeRejected(c) \/ Client(c) \/ ConnectionLost(c) \/ Expire(c)
      PROVE  UNCHANGED <<endpoints, table>>
  BY <1>4 DEF Invoke, Conn, Calls, InvokeRejected, Client, Send, SendRefused, Receive, ConsumerEnds,
              ConnectionLost, Expire, SetCall
<1>5. CASE UNCHANGED vars
  BY <1>5 DEF vars
<1>. QED  BY <1>1, <1>2, <1>3, <1>4, <1>5 DEF Next

-----------------------------------------------------------------------------

(* NewDefaultService and GetDefaultService: whatever endpoints they are    *)
(* given, when they accept them each descriptor is served, and a module    *)
(* declares to the config service exactly the paths that it serves.        *)
THEOREM AcceptedEndpointsServed == Spec => []EndpointsServed
<1>1. Init => ServiceMade
  BY DEF Init, ServiceMade
<1>2. ServiceMade => EndpointsServed
  <2>. SUFFICES ASSUME ServiceMade, ~table.failed PROVE EndpointsServed!2
    BY DEF EndpointsServed
  <2>1. endpoints.list \in Seq(Endpoint) /\ endpoints.how \in {"descriptors", "structs"}
    BY ConstantsAssumption DEF ServiceMade
  <2>. QED  BY <2>1, DescriptorsServed, StructsServed DEF ServiceMade, NewService
<1>. QED  BY <1>1, <1>2, ServiceStays, PTL DEF Spec

(* GracefulStop's promise: when the server is given up no request runs,    *)
(* whatever clients do meanwhile, and none begins until the next start.    *)
THEOREM StopHasDrained == Spec => []StopDrains
<1>1. IInv => StopDrains
  BY DEF IInv
<1>. QED  BY <1>1, Invariant, PTL

(* A request that found its handler is reported to the post processors as  *)
(* failed exactly when its client is, unless a hook outside of the handler *)
(* panicked.                                                               *)
THEOREM OutcomesSeen == Spec => []PostProcessorsSeeOutcome
<1>1. IInv => PostProcessorsSeeOutcome
  BY DEF IInv, PostProcessorsSeeOutcome, OutcomeSeen
<1>. QED  BY <1>1, Invariant, PTL

(* No call tries more than three times, and none reports Unavailable       *)
(* before that unless its stream had been opened.                          *)
THEOREM RetriesExhausted == Spec => []UnavailableAfterRetries
<1>1. IInv => UnavailableAfterRetries
  BY DEF IInv, UnavailableAfterRetries, CallSound
<1>. QED  BY <1>1, Invariant, PTL

=============================================================================
