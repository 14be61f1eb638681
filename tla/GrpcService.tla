----------------------------- MODULE GrpcService -----------------------------
(***************************************************************************)
(* Package backend: the process-wide gRPC server with its lock             *)
(* (server.go), the handler table and the execution of a request           *)
(* (default_service.go, func.go), and the client that retries an           *)
(* unavailable service (rx_grpc_client.go).                                *)
(*                                                                         *)
(* Controllers are goroutines that call the functions of server.go;        *)
(* Callers are client goroutines in Invoke or InvokeStream, or, with a raw *)
(* call, on the stub that Conn returns: no header need be there and        *)
(* nothing is retried.  Every try of a call is a request of its own, which *)
(* goes on at the server after the client has given it up.                 *)
(***************************************************************************)
EXTENDS Naturals, Sequences

CONSTANTS
  Callers,
  Controllers,
  Nobody,         \* the holder of the free lock
  Methods,
  NoMethod,       \* the method of a request without the header
  EndpointLists,  \* what the constructor of the service may be given
  AskingMethods,  \* methods whose handler calls ServerIsInitialized
  Faults,         \* a subset of FaultKinds
  MaxLosses,      \* bound: connections that break
  MaxOps          \* bound: calls of the functions of server.go

FaultKinds == {"listen", "serve", "lose"}

(* "invalid": no function, or one with a signature that is refused.        *)
Endpoint == [path : Methods, kind : {"func", "stream", "invalid"}, inMap : BOOLEAN]

ASSUME ConstantsAssumption ==
  /\ Nobody \notin Controllers
  /\ NoMethod \notin Methods
  /\ AskingMethods \subseteq Methods
  /\ EndpointLists \subseteq [how : {"descriptors", "structs"}, list : Seq(Endpoint)]
  /\ Faults \subseteq FaultKinds
  /\ MaxOps \in Nat /\ MaxLosses \in Nat

VARIABLES
  endpoints,  \* the endpoints and how they were given: "descriptors", "structs"
  table,      \* functions and streamConsumers of the service
  exited,     \* log.Fatalf
  lock,
  server,     \* "nil", "serving", "stopping"
  ctl,        \* what each controller is doing
  ops,
  losses,
  call,       \* the call of each caller
  reqs        \* the request of every try at the server

serverVars == <<lock, server, ctl, ops>>
clientVars == <<losses, call>>
vars == <<endpoints, table, exited, serverVars, clientVars, reqs>>

-----------------------------------------------------------------------------
(* The handler table: the position of the endpoint that serves a path.     *)

(* A map keeps the last of the endpoints that are put under one path.      *)
PutAll(list, positions) ==
  [p \in {list[i].path : i \in positions} |->
     CHOOSE i \in positions : /\ list[i].path = p
                              /\ \A j \in positions : list[j].path = p => j <= i]

SamePathBefore(list, positions, i) ==
  \E j \in positions : j < i /\ list[j].path = list[i].path

\* Variant: duplicates are not looked for.
AcceptsUnchecked(list, positions, i) == list[i].kind # "invalid"

(* One path may have a function and a stream, but not two of either.       *)
AcceptsDescriptor(list, positions, i) ==
  /\ list[i].kind # "invalid"
  /\ ~SamePathBefore(list, positions, i)

resolveHandlersByDescriptors(list) ==
  LET streams == {i \in DOMAIN list : list[i].kind = "stream"}
      functions == DOMAIN list \ streams
  IN  [functions |-> PutAll(list, functions),
       streams   |-> PutAll(list, streams),
       failed    |-> \/ \E i \in functions : ~AcceptsDescriptor(list, functions, i)
                     \/ \E i \in streams : ~AcceptsDescriptor(list, streams, i)]

(* Fields of a struct; an endpoint out of a map is always a function, and  *)
(* it replaces what is there, as a stream does.                            *)
AcceptsField(list, functions, i) ==
  /\ list[i].kind # "invalid"
  /\ list[i].inMap \/ ~SamePathBefore(list, functions, i)

resolveHandlers(list) ==
  LET streams == {i \in DOMAIN list : list[i].kind = "stream" /\ ~list[i].inMap}
      functions == DOMAIN list \ streams
  IN  [functions |-> PutAll(list, functions),
       streams   |-> PutAll(list, streams),
       failed    |-> \E i \in functions : ~AcceptsField(list, functions, i)]

(* NewDefaultService and GetDefaultService; they panic when it failed.     *)
NewService(e) == IF e.how = "descriptors" THEN resolveHandlersByDescriptors(e.list)
                                          ELSE resolveHandlers(e.list)

(* The paths a module declares to the config service for its structs.      *)
GetEndpoints(list) == {list[i].path : i \in DOMAIN list}

-----------------------------------------------------------------------------

MaxTries == 3
Tries == 1..MaxTries

(* Codes of an error a handler, hook or conversion makes; "error" is an    *)
(* error that is no gRPC status.                                           *)
Codes == {"Unimplemented", "DataLoss", "InvalidArgument", "Unavailable", "error"}
nil == "nil"
Answers == {nil, "ok", "Internal", "Unknown"}

Stages == {"none", "arrived", "handling", "asking", "returned", "done"}

NoRequest == [stage |-> "none", method |-> NoMethod, stream |-> FALSE,
              err |-> nil,    \* the error as the code has it so far
              ctxErr |-> nil, \* c.err, what post processors see
              reply |-> nil, panicked |-> FALSE]

NoCall == [state |-> "idle", raw |-> FALSE, stream |-> FALSE, method |-> NoMethod,
           tries |-> 0, opened |-> FALSE, result |-> nil]

Running(q) == q.stage \notin {"none", "done"}
AllRequests == Callers \X Tries
NothingRuns == \A r \in AllRequests : ~Running(reqs[r])

Init ==
  /\ endpoints \in EndpointLists
  /\ table = NewService(endpoints)
  /\ exited = FALSE
  /\ lock = Nobody
  /\ server = "nil"
  /\ ctl = [k \in Controllers |-> "idle"]
  /\ ops = 0
  /\ losses = 0
  /\ call = [c \in Callers |-> NoCall]
  /\ reqs = [r \in AllRequests |-> NoRequest]

-----------------------------------------------------------------------------
(* server.go                                                               *)

Free == lock = Nobody /\ ~exited
Goto(k, what) == ctl' = [ctl EXCEPT ![k] = what]

(* A goroutine calls one of the functions; it needs a service to start.    *)
CallServer(k) ==
  /\ ~exited /\ ctl[k] = "idle" /\ ops < MaxOps /\ ~table.failed
  /\ \E what \in {"start", "startOn", "stop", "update", "ask"} : Goto(k, what)
  /\ ops' = ops + 1
  /\ UNCHANGED <<endpoints, table, exited, lock, server, clientVars, reqs>>

quiet == UNCHANGED <<endpoints, table, ops, clientVars, reqs>>

(* log.Fatalf ends the process with everything it is doing.                *)
Fatal ==
  /\ exited' = TRUE
  /\ reqs' = [r \in AllRequests |-> NoRequest]
  /\ ctl' = [k \in Controllers |-> "idle"]
  /\ UNCHANGED <<endpoints, table, lock, server, ops, clientVars>>

StartTwice(k) ==
  /\ Free /\ ctl[k] \in {"start", "startOn"} /\ server # "nil"
  /\ Fatal

StartBackendGrpcServer(k) ==
  /\ Free /\ ctl[k] = "start" /\ server = "nil"
  /\ lock' = k
  /\ Goto(k, "listening")
  /\ UNCHANGED <<server, exited>> /\ quiet

Listens(k) ==
  /\ ctl[k] = "listening" /\ ~exited
  /\ server' = "serving"
  /\ lock' = Nobody
  /\ Goto(k, "idle")
  /\ UNCHANGED exited /\ quiet

(* The loop only sleeps: Listen is its initialisation and runs once.       *)
ListenFails(k) ==
  /\ ctl[k] = "listening" /\ "listen" \in Faults /\ ~exited
  /\ Goto(k, "sleeping")
  /\ UNCHANGED <<lock, server, exited>> /\ quiet

StartBackendGrpcServerOn(k) ==
  /\ Free /\ ctl[k] = "startOn" /\ server = "nil"
  /\ server' = "serving"
  /\ Goto(k, "idle")
  /\ UNCHANGED <<lock, exited>> /\ quiet

ServeFails ==
  /\ server = "serving" /\ "serve" \in Faults /\ ~exited
  /\ Fatal

\* Variant: the server is forgotten before it is stopped.
StopForgets(k) ==
  /\ Free /\ ctl[k] = "stop"
  /\ server' = "nil"
  /\ Goto(k, "idle")
  /\ UNCHANGED <<lock, exited>> /\ quiet

(* GracefulStop begins: new requests are refused.                          *)
StopGrpcServer(k) ==
  /\ Free /\ ctl[k] = "stop"
  /\ IF server = "nil"
     THEN Goto(k, "idle") /\ UNCHANGED <<lock, server>>
     ELSE Goto(k, "draining") /\ lock' = k /\ server' = "stopping"
  /\ UNCHANGED exited /\ quiet

StopDrained(k) ==
  /\ ctl[k] = "draining" /\ ~exited
  /\ NothingRuns
  /\ server' = "nil"
  /\ lock' = Nobody
  /\ Goto(k, "idle")
  /\ UNCHANGED exited /\ quiet

(* The variadic slice is passed on as one argument, whose Elem panics; the *)
(* deferred unlock runs.                                                   *)
UpdateHandlers(k) ==
  /\ Free /\ ctl[k] = "update"
  /\ Goto(k, IF server = "nil" THEN "idle" ELSE "panicked")
  /\ UNCHANGED <<lock, server, exited>> /\ quiet

\* Variant: the lock is not released.
AskKeepsLock(k) ==
  /\ Free /\ ctl[k] = "ask"
  /\ Goto(k, "idle")
  /\ lock' = k
  /\ UNCHANGED <<server, exited>> /\ quiet

ServerIsInitialized(k) ==
  /\ Free /\ ctl[k] = "ask"
  /\ Goto(k, "idle")
  /\ UNCHANGED <<lock, server, exited>> /\ quiet

-----------------------------------------------------------------------------
(* Request and RequestStream at the server; r is a caller and a try.  What *)
(* surrounds the handler touches nothing but the request: the code before  *)
(* it is one step and the code after it another, and an operator gives     *)
(* what each part of them may make of the request.                         *)

(* A client that has given up does not take the answer.                    *)
Awaited(r) == call[r[1]].state \in {"waiting", "consuming"} /\ call[r[1]].tries = r[2]

Advance(r, at, new) ==
  /\ reqs[r].stage = at /\ ~exited
  /\ reqs' = [reqs EXCEPT ![r] = IF new.stage = "done" /\ ~Awaited(r) THEN NoRequest
                                                                      ELSE new]
  /\ UNCHANGED <<endpoints, table, exited, serverVars, clientVars>>

Lookup(q) ==
  IF q.method = NoMethod THEN "DataLoss"
  ELSE IF q.method \in DOMAIN (IF q.stream THEN table.streams ELSE table.functions)
       THEN nil
       ELSE "Unimplemented"

(* A panic outside of call ends Request with (nil, nil).                   *)
Panics(q) == [q EXCEPT !.stage = "done", !.panicked = TRUE, !.reply = nil]

Fails(q, err) == [q EXCEPT !.stage = "returned", !.err = err]

(* The body is decoded and valid, or not; the validator may panic.  A      *)
(* stream has no body.                                                     *)
Decoded(q) ==
  {q} \cup (IF q.stream THEN {}
           ELSE {Panics(q)} \cup {[Fails(q, err) EXCEPT !.ctxErr = err] :
                                    err \in {"InvalidArgument", "error"}})

(* An interceptor refuses, panics or goes on to the handler, as Request    *)
(* does without one.                                                       *)
Called(q) ==
  {[q EXCEPT !.stage = IF q.method \in AskingMethods THEN "asking" ELSE "handling"]}
    \cup (IF q.stream THEN {} ELSE {Panics(q), Fails(q, "error")})

(* getHandler or getStreamHandler; an error is returned at once, with      *)
(* c.err not set.  Then everything up to the handler.                      *)
RequestBegins(r) ==
  LET q == reqs[r]
      err == Lookup(q)
  IN  IF err # nil
      THEN Advance(r, "arrived", [q EXCEPT !.stage = "done", !.reply = err])
      ELSE \E d \in Decoded(q) :
             \E new \in IF d.stage = "arrived" THEN Called(d) ELSE {d} :
               Advance(r, "arrived", new)

(* The handler's call of ServerIsInitialized.                              *)
HandlerAsks(r) ==
  /\ Free
  /\ Advance(r, "asking", [reqs[r] EXCEPT !.stage = "handling"])

(* function.call or the stream's consumer returns: a panic of the handler  *)
(* has become an error.                                                    *)
HandlerReturns(r) ==
  \E err \in {nil, "error", "Unavailable"} :
    Advance(r, "handling", Fails(reqs[r], err))

(* errHandler may turn the error into a result or another error, or panic; *)
(* without one, and for a stream, the error stays what it is.              *)
FailureHandled(q) ==
  {q} \cup (IF q.stream \/ q.err = nil THEN {}
           ELSE {Panics(q)} \cup {[q EXCEPT !.err = err] : err \in {nil, "error"}})

(* ResolveError: an error that is no status becomes Internal.              *)
handleError(err) == IF err = "error" THEN "Internal" ELSE err

Ended(q, reply, ctxErr) == [q EXCEPT !.stage = "done", !.reply = reply, !.ctxErr = ctxErr]

\* Variant: c.err is not set again after the error handler.
RepliedWithoutErr(q) ==
  {Ended(q, IF q.err = nil THEN "ok" ELSE handleError(q.err), q.ctxErr)}

(* c.err is assigned; without an error the result is encoded, which may    *)
(* fail: Request then returns the plain error, which gRPC calls Unknown.   *)
Replied(q) ==
  IF q.err # nil
  THEN {Ended(q, handleError(q.err), q.err)}
  ELSE {Ended(q, "ok", nil)} \cup (IF q.stream THEN {} ELSE {Ended(q, "Unknown", "error")})

(* Everything after the handler; the post processors run last, with        *)
(* whatever c.err is.                                                      *)
RequestEnds(r) ==
  \E h \in FailureHandled(reqs[r]) :
    \E new \in IF h.stage = "returned" THEN Replied(h) ELSE {h} :
      Advance(r, "returned", [new EXCEPT !.err = nil])

Serve(r) ==
  \/ RequestBegins(r) \/ HandlerAsks(r) \/ HandlerReturns(r) \/ RequestEnds(r)

-----------------------------------------------------------------------------
(* rx_grpc_client.go                                                       *)

SetCall(c, new) ==
  /\ call' = [call EXCEPT ![c] = new]
  /\ UNCHANGED <<endpoints, table, exited, serverVars>>

Calls(c, raw, methods) ==
  /\ ~exited /\ call[c] = NoCall
  /\ \E m \in methods, s \in BOOLEAN :
       SetCall(c, [NoCall EXCEPT !.state = "trying", !.raw = raw, !.stream = s, !.method = m])
  /\ UNCHANGED <<losses, reqs>>

(* Invoke and InvokeStream put the method into the header.                 *)
Invoke(c) == Calls(c, FALSE, Methods)
Conn(c)   == Calls(c, TRUE, Methods \cup {NoMethod})

(* The request body cannot be encoded.                                     *)
InvokeRejected(c) ==
  /\ ~exited /\ call[c] = NoCall
  /\ SetCall(c, [NoCall EXCEPT !.state = "done", !.result = "encode"])
  /\ UNCHANGED <<losses, reqs>>

\* Variant: one retry.
RetryOnce(o) ==
  IF o.result = "Unavailable" /\ ~o.raw /\ o.tries < 2
  THEN [o EXCEPT !.state = "trying", !.result = nil]
  ELSE [o EXCEPT !.state = "done"]

(* At most two retries, and only of Unavailable.                           *)
retryUnavailable(o) ==
  IF o.result = "Unavailable" /\ ~o.raw /\ o.tries < MaxTries
  THEN [o EXCEPT !.state = "trying", !.result = nil]
  ELSE [o EXCEPT !.state = "done"]

(* A try reaches the server; an open stream is handed to the consumer, and *)
(* nothing that happens on it is retried.                                  *)
Send(c) ==
  LET o == [call[c] EXCEPT !.tries = @ + 1]
  IN  /\ o.state = "trying" /\ server = "serving" /\ ~exited
      /\ SetCall(c, [o EXCEPT !.state = IF o.stream THEN "consuming" ELSE "waiting",
                              !.opened = o.stream])
      /\ reqs' = [reqs EXCEPT ![<<c, o.tries>>] =
                    [NoRequest EXCEPT !.stage = "arrived", !.stream = o.stream,
                                      !.method = o.method]]
      /\ UNCHANGED losses

SendRefused(c) ==
  /\ call[c].state = "trying" /\ (server # "serving" \/ exited)
  /\ SetCall(c, retryUnavailable([call[c] EXCEPT !.tries = @ + 1,
                                                    !.result = "Unavailable"]))
  /\ UNCHANGED <<losses, reqs>>

(* The answer of the current try, decoded into responsePointer when it is  *)
(* one; the missing answer of a panic cannot be sent, and gRPC makes an    *)
(* error of it.                                                            *)
Receive(c) ==
  LET o == call[c]
      q == reqs[<<c, o.tries>>]
  IN  /\ o.state = "waiting" /\ q.stage = "done" /\ ~exited
      /\ \E res \in CASE q.reply = "ok" -> {"ok", "decode"}
                       [] q.reply = nil  -> {"Internal"}
                       [] OTHER          -> {q.reply} :
           SetCall(c, retryUnavailable([o EXCEPT !.result = res]))
      /\ reqs' = [reqs EXCEPT ![<<c, o.tries>>] = NoRequest]
      /\ UNCHANGED losses

ConsumerEnds(c) ==
  LET o == call[c]
      q == reqs[<<c, o.tries>>]
  IN  /\ o.state = "consuming" /\ q.stage = "done" /\ ~exited
      /\ SetCall(c, [o EXCEPT !.state = "done", !.result = q.reply])
      /\ reqs' = [reqs EXCEPT ![<<c, o.tries>>] = NoRequest]
      /\ UNCHANGED losses

(* The connection breaks or the server's process ends: Unavailable for     *)
(* this try, whatever the server has done for it.                          *)
ConnectionLost(c) ==
  LET o == [call[c] EXCEPT !.result = "Unavailable"]
  IN  /\ o.state \in {"waiting", "consuming"}
      /\ IF exited THEN UNCHANGED losses
         ELSE "lose" \in Faults /\ losses < MaxLosses /\ losses' = losses + 1
      /\ SetCall(c, IF o.state = "waiting" THEN retryUnavailable(o)
                                           ELSE [o EXCEPT !.state = "done"])
      /\ UNCHANGED reqs

\* Variant: the context with the timeout is not given to the try.
ExpireBetweenTries(c) ==
  /\ call[c].state = "trying"
  /\ SetCall(c, [call[c] EXCEPT !.state = "done", !.result = "DeadlineExceeded"])
  /\ UNCHANGED <<losses, reqs>>

(* The timeout of the context, which covers all tries; a raw call has none *)
(* but what its caller gives it.                                           *)
Expire(c) ==
  /\ call[c].state \in {"trying", "waiting", "consuming"}
  /\ SetCall(c, [call[c] EXCEPT !.state = "done", !.result = "DeadlineExceeded"])
  /\ UNCHANGED <<losses, reqs>>

-----------------------------------------------------------------------------

Server(k) ==
  \/ StartTwice(k) \/ StartBackendGrpcServer(k) \/ Listens(k)
  \/ StartBackendGrpcServerOn(k) \/ StopGrpcServer(k) \/ StopDrained(k)
  \/ UpdateHandlers(k) \/ ServerIsInitialized(k)

Client(c) ==
  \/ Send(c) \/ SendRefused(c) \/ Receive(c) \/ ConsumerEnds(c)

Next ==
  \/ \E k \in Controllers : CallServer(k) \/ Server(k) \/ ListenFails(k)
  \/ ServeFails
  \/ \E r \in AllRequests : Serve(r)
  \/ \E c \in Callers : \/ Invoke(c) \/ Conn(c) \/ InvokeRejected(c) \/ Client(c)
                        \/ ConnectionLost(c) \/ Expire(c)

Spec == Init /\ [][Next]_vars

(* Goroutines run, handlers and hooks return, the timer that Invoke and    *)
(* InvokeStream set fires, and a process that has ended has no connections.*)
(* Calls and tries are finitely many, so that weak fairness of the         *)
(* controllers, of the requests and of the clients gets to each of them.   *)
Fairness ==
  /\ WF_vars(\E k \in Controllers : Server(k))
  /\ WF_vars(\E r \in AllRequests : Serve(r))
  /\ WF_vars(\E c \in Callers : Client(c))
  /\ \A c \in Callers : /\ WF_vars(~call[c].raw /\ Expire(c))
                        /\ WF_vars(exited /\ ConnectionLost(c))

FairSpec == Spec /\ Fairness

-----------------------------------------------------------------------------
(* Properties.                                                             *)

TypeOK ==
  /\ exited \in BOOLEAN
  /\ lock \in Controllers \cup {Nobody}
  /\ server \in {"nil", "serving", "stopping"}
  /\ ctl \in [Controllers -> {"idle", "start", "startOn", "listening", "sleeping",
                              "stop", "draining", "update", "ask", "panicked"}]
  /\ ops \in 0..MaxOps
  /\ losses \in 0..MaxLosses
  /\ call \in [Callers ->
       [state : {"idle", "trying", "waiting", "consuming", "done"},
        raw : BOOLEAN, stream : BOOLEAN,
        method : Methods \cup {NoMethod}, tries : 0..MaxTries, opened : BOOLEAN,
        result : Codes \cup Answers \cup {"encode", "decode", "DeadlineExceeded"}]]
  /\ reqs \in [AllRequests ->
       [stage : Stages, method : Methods \cup {NoMethod}, stream : BOOLEAN,
        err : Codes \cup {nil}, ctxErr : Codes \cup {nil},
        reply : Codes \cup Answers, panicked : BOOLEAN]]

(* The constructors check what they are given: when NewDefaultService      *)
(* accepts its descriptors every one of them is served, and what a module  *)
(* of structs declares to the config service is what it serves.            *)
EndpointsServed ==
  ~table.failed =>
    /\ endpoints.how = "descriptors" =>
         \A i \in DOMAIN endpoints.list :
           \/ \E p \in DOMAIN table.functions : table.functions[p] = i
           \/ \E p \in DOMAIN table.streams : table.streams[p] = i
    /\ GetEndpoints(endpoints.list) = DOMAIN table.functions \cup DOMAIN table.streams

(* The post processors of a request that found its handler learn of an     *)
(* error exactly when the client gets one, unless a hook outside of the    *)
(* handler panicked.                                                       *)
PostProcessorsSeeOutcome ==
  \A r \in AllRequests :
    LET q == reqs[r]
    IN  q.stage = "done" /\ ~q.stream /\ Lookup(q) = nil /\ ~q.panicked
          => (q.ctxErr = nil <=> q.reply = "ok")

(* The server is given up only when it has no request left.                *)
StopDrains == server = "nil" => NothingRuns

(* Invoke and InvokeStream try at most three times, and report Unavailable *)
(* only after three tries or after the stream was opened.                  *)
UnavailableAfterRetries ==
  TypeOK /\ \A c \in Callers :
    LET o == call[c]
    IN  ~o.raw /\ o.state = "done" /\ o.result = "Unavailable"
          => o.tries = MaxTries \/ o.opened

(* A function of server.go returns, unless Listen failed (that call keeps  *)
(* the lock and sleeps for ever) or a handler asks for the lock a stop     *)
(* holds until that handler is done.                                       *)
Asleep == \E k \in Controllers : ctl[k] = "sleeping"
StopDeadlock == server = "stopping" /\ \E r \in AllRequests : reqs[r].stage = "asking"

ControlReturns ==
  \A k \in Controllers :
    ctl[k] # "idle" ~> (ctl[k] \in {"idle", "panicked"} \/ exited \/ Asleep \/ StopDeadlock)

(* Invoke and InvokeStream return, whatever happens to the server; a raw   *)
(* call has no timeout of the library and returns when the server answers  *)
(* or ends, that is unless a handler waits for the lock for ever.          *)
InvokeReturns ==
  \A c \in Callers :
    /\ call[c].state = "trying" /\ ~call[c].raw ~> call[c].state = "done"
    /\ call[c].state = "trying" ~> (call[c].state = "done" \/ Asleep \/ StopDeadlock)

(* Every call returns, of the server's functions (but for the two named    *)
(* situations) and of the client.                                          *)
CallsReturn == ControlReturns /\ InvokeReturns

=============================================================================
