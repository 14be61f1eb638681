----------------------------- MODULE HttpService -----------------------------
(***************************************************************************)
(* Package http: the tables of an HttpService, what it makes of a request  *)
(* (service.go, register.go, validation.go), and the client of             *)
(* json_client.go.  A key is the path of a request followed by its         *)
(* SOAPAction, as a sequence of segments; requests share nothing but the   *)
(* tables and the process, which a panic ends.                             *)
(***************************************************************************)
EXTENDS Naturals, Sequences

CONSTANTS
  Clients,
  Uris,            \* sequences of segments
  Handlers,        \* what Register may be given: uri, action, mType, shape
  Controllers,     \* sequences of fields RegisterControllers may be given
  Files,           \* sequences of files RegisterStatic may be given
  Messages,        \* requests of clients other than JsonRestClient
  HookSets,        \* sets of hooks a service may be made with
  MaxRegistrations \* bound: calls of the Register functions

VARIABLES
  hooks,     \* the hooks that are set, a subset of HookKinds
  actions, static,
  phase,     \* "setup", "serving", "ended"
  calls,     \* the calls of the Register functions until the service serves
  call,      \* the call of each client
  req        \* its request at the server

registry == <<hooks, actions, static, calls>>
vars == <<registry, phase, call, req>>

HookKinds == {"mw", "errorHandler", "unimplErrorMapper", "interceptor"}
Contents == {"ok", "bad", "invalid", "empty", "noContent"}

(* What the constants have to be; the module of the run assumes it.        *)
HooksAssumption ==
  /\ HookSets \subseteq SUBSET HookKinds
  /\ MaxRegistrations \in Nat
  /\ \A fields \in Controllers : Len(fields) \in Nat /\ DOMAIN fields = 1..Len(fields)
  /\ \A msg \in Messages : msg.body \in Contents

nil == "nil"
NoTable == <<>>
MTypes == {"rest", "soap"}
Shapes == {"body", "noBody"}
NoDesc == [mType |-> nil, shape |-> nil]

-----------------------------------------------------------------------------
(* Registration                                                            *)

toKey(uri, action) == uri \o action

(* toDesc: parameters other than one context and one body are refused.     *)
toDesc(mType, shape) == [mType |-> mType, shape |-> shape]
Valid(shape) == shape \in Shapes

(* A field of a controller that is registered: its type is known, it is    *)
(* not nil, and it is a handler.                                           *)
Registrable(f) == f.mType \in MTypes \cup {""} /\ f.shape # nil /\ Valid(f.shape)

(* No type means SOAP.                                                     *)
fieldDesc(f) == toDesc(IF f.mType = "" THEN "soap" ELSE f.mType, f.shape)

(* The fields before the first that fails; the last one of a key is kept.  *)
registerControllers(uri, fields) ==
  LET failing == {i \in DOMAIN fields : ~Registrable(fields[i])}
      read == {i \in DOMAIN fields : \A j \in failing : i < j}
      key(i) == toKey(uri, fields[i].action)
      kept == {i \in read : \A j \in read : i < j => key(j) # key(i)}
      keys == {key(i) : i \in kept}
      Of(k) == CHOOSE i \in kept : key(i) = k
  IN  [actions |-> [k \in keys \cup DOMAIN actions |->
                      IF k \in keys THEN fieldDesc(fields[Of(k)]) ELSE actions[k]],
       failed  |-> failing # {}]

(* A call: the entries it asks for, and whether it returned no error.      *)
Entry(key, desc) == [key |-> key, desc |-> desc]

Called(kind, asked, ok) ==
  /\ phase = "setup" /\ Len(calls) < MaxRegistrations
  /\ calls' = Append(calls, [kind |-> kind, asked |-> asked, ok |-> ok])
  /\ UNCHANGED <<hooks, phase, call, req>>

(* Any type may be given.                                                  *)
Register ==
  /\ \E h \in Handlers :
       LET key == toKey(h.uri, h.action)
           desc == toDesc(h.mType, h.shape)
       IN  /\ Called("handler", <<Entry(key, desc)>>, Valid(h.shape))
           /\ actions' = IF Valid(h.shape)
                         THEN [k \in {key} \cup DOMAIN actions |-> IF k = key THEN desc ELSE actions[k]]
                         ELSE actions
  /\ UNCHANGED static

CallsControllers(u, fields) ==
  /\ Called("controllers",
            [i \in DOMAIN fields |-> Entry(toKey(u, fields[i].action), fieldDesc(fields[i]))],
            ~registerControllers(u, fields).failed)
  /\ UNCHANGED static

\* Variant: what was registered before the failing field stays.
RegisterControllersKeeps ==
  \E u \in Uris, fields \in Controllers :
    /\ CallsControllers(u, fields)
    /\ actions' = registerControllers(u, fields).actions

(* A failure takes every action with it, those of earlier calls too.       *)
RegisterControllers ==
  \E u \in Uris, fields \in Controllers :
    LET t == registerControllers(u, fields)
    IN  /\ CallsControllers(u, fields)
        /\ actions' = IF t.failed THEN NoTable ELSE t.actions

(* The files before the first that cannot be read are served.              *)
RegisterStatic ==
  /\ \E files \in Files :
       LET unread == {i \in DOMAIN files : ~files[i].readable}
           read == {i \in DOMAIN files : \A j \in unread : i < j}
       IN  /\ Called("static", <<>>, unread = {})
           /\ static' = static \cup {files[i].uri : i \in read}
  /\ UNCHANGED actions

Serve ==
  /\ phase = "setup" /\ phase' = "serving"
  /\ calls' = <<>>
  /\ UNCHANGED <<hooks, actions, static, call, req>>

-----------------------------------------------------------------------------
(* A request at the server                                                 *)

NoRequest == [stage |-> "none", method |-> "GET", uri |-> <<>>, action |-> <<>>,
              query |-> FALSE, ctype |-> "other", body |-> "empty",
              desc |-> NoDesc,  \* what it was dispatched to
              done |-> FALSE,  \* the handler ran and returned no error
              err |-> nil, code |-> 0, \* the error, the code of a RESTFault
              result |-> FALSE, \* there is something to encode
              ctxErr |-> nil,   \* what post processors see
              encoded |-> TRUE, status |-> 200, content |-> "none"]

Key(q) == toKey(q.uri, q.action)

Fails(q, err) == [q EXCEPT !.stage = "returned", !.err = err]
Fault(q, code) == [Fails(q, "fault") EXCEPT !.code = code]
Sends(q, status, content) == [q EXCEPT !.stage = "sent", !.status = status, !.content = content]

(* writeJsonBody and writeXmlBody: what cannot be encoded is an empty 500. *)
Written(q, status) ==
  {Sends(q, status, "content"), [Sends(q, 500, "none") EXCEPT !.encoded = FALSE]}

(* Only a GET of the whole request URI, without a query; no hook runs.     *)
ServedStatic(q) == q.uri \in static /\ q.method = "GET" /\ ~q.query

(* No action has the key: the mapper's content, if it has one, or an error *)
(* in the form the content type asks for.                                  *)
Unimplemented(q) ==
  (CASE q.ctype = "xml"   -> Written(q, 500)
     [] q.ctype = "json"  -> Written(q, 501)
     [] OTHER             -> {Sends(q, 501, "none")})
  \cup (IF "unimplErrorMapper" \in hooks /\ q.ctype # "other"
        THEN Written(q, 200) \cup Written(q, 404) ELSE {})

(* The program's own errors: any error, or a RESTFault with any code, also *)
(* with none.                                                              *)
FaultCodes == {0, 200, 404}
Failed(q) == {Fails(q, "error")} \cup {Fault(q, code) : code \in FaultCodes}

(* No error: there may be a result, and a status set on the way.           *)
Success(q, result, status) == [Fails(q, nil) EXCEPT !.result = result, !.status = status]
Succeeded(q) == {Success(q, result, status) : result \in BOOLEAN, status \in {200, 404}}

(* The first error of a middleware ends the request.                       *)
AfterMiddlewares(q) == {q} \cup (IF "mw" \in hooks THEN Failed(q) ELSE {})

(* validate: the error is no *RESTFault, it only embeds one.               *)
Refused(q) == Fails(q, "validation")

(* handleRestRequest and handleSoapRequest up to the call of the handler.  *)
(* A body that says nothing (null, an envelope without one) is a zero      *)
(* value.  Of SOAP content that the decoder left nil no element can be     *)
(* taken.                                                                  *)
Decoded(q) ==
  LET soap == q.desc.mType = "soap"
      panic == {[q EXCEPT !.stage = "panic"]}
      noBody == q.desc.shape = "noBody"
  IN  IF q.stage # "arrived" \/ (noBody /\ ~soap) THEN {q}
      ELSE IF q.body \in {"bad", "empty"} THEN {IF soap THEN Fails(q, "soapFault") ELSE Fault(q, 400)}
      ELSE IF noBody THEN {Fails(q, "soapFault")} \cup panic
      ELSE CASE q.body = "invalid"   -> {Refused(q)}
             [] q.body = "noContent" -> {q, Refused(q)} \cup (IF soap THEN panic ELSE {})
             [] OTHER                -> {q}

(* An interceptor may answer without calling the handler.                  *)
Intercepted(q) ==
  IF q.stage # "arrived" THEN {q}
  ELSE {[q EXCEPT !.stage = "handling"]}
         \cup (IF "interceptor" \in hooks THEN Succeeded(q) \cup Failed(q) ELSE {})

(* An action of neither type: nothing runs and nothing is said.            *)
Dispatched(q) ==
  IF ServedStatic(q) THEN {Sends(q, 200, "static")}
  ELSE IF Key(q) \notin DOMAIN actions THEN Unimplemented(q)
  ELSE LET d == [q EXCEPT !.desc = actions[Key(q)]]
       IN  IF d.desc.mType \notin MTypes THEN {Sends(d, 200, "none")}
           ELSE UNION {UNION {Intercepted(n) : n \in Decoded(m)} : m \in AfterMiddlewares(d)}

Step(c, at, new) ==
  /\ phase = "serving" /\ req[c].stage = at
  /\ req' = [req EXCEPT ![c] = new]
  /\ UNCHANGED <<registry, call>>

(* fasthttp recovers nothing: a panic ends the process.                    *)
RequestBegins(c) ==
  \E new \in Dispatched(req[c]) :
    /\ Step(c, "arrived", new)
    /\ phase' = IF new.stage = "panic" THEN "ended" ELSE phase

(* callF: the first error and the first result that is none; an            *)
(* interceptor may make something else of it.                              *)
HandlerReturns(c) ==
  /\ \E handled \in Succeeded(req[c]) \cup Failed(req[c]) :
       \E seen \in {handled} \cup (IF "interceptor" \in hooks
                                   THEN Succeeded(req[c]) \cup Failed(req[c]) ELSE {}) :
         Step(c, "handling", [seen EXCEPT !.done = (handled.err = nil)])
  /\ UNCHANGED phase

(* The handler or the error handler panics.                                *)
UserPanics(c) ==
  /\ req[c].stage \in {"handling", "returned"}
  /\ Step(c, req[c].stage, [req[c] EXCEPT !.stage = "panic"])
  /\ phase' = "ended"

(* A code of zero is sent as 200.                                          *)
Shown(code) == IF code = 0 THEN 200 ELSE code

(* An error goes to the error handler, which need not set a status or have *)
(* a result, or else becomes the fault it is, with its code, or a 500.     *)
RestAnswered(q) ==
  LET e == [q EXCEPT !.ctxErr = q.err]
  IN  IF q.err = nil
        THEN IF q.result THEN Written(e, 200) ELSE {Sends(e, 200, "none")}
      ELSE IF "errorHandler" \in hooks
        THEN UNION {Written(e, s) \cup {Sends(e, s, "none")} : s \in {200, 404}}
      ELSE Written(e, IF q.err = "fault" THEN Shown(q.code) ELSE 500)

(* An envelope is always written; without a result the status stays what   *)
(* it was.                                                                 *)
SoapAnswered(q) ==
  LET e == [q EXCEPT !.ctxErr = q.err]
  IN  IF q.err = nil THEN Written(e, IF q.result THEN 200 ELSE q.status)
      ELSE IF "errorHandler" \in hooks THEN Written(e, 200) \cup Written(e, 404)
      ELSE Written(e, 500)

(* The post processors run last.                                           *)
RequestEnds(c) ==
  /\ \E new \in IF req[c].desc.mType = "rest" THEN RestAnswered(req[c])
                                             ELSE SoapAnswered(req[c]) :
       Step(c, "returned", new)
  /\ UNCHANGED phase

-----------------------------------------------------------------------------
(* json_client.go                                                          *)

NoCall == [state |-> "idle", want |-> nil, result |-> nil]

Bodies == {"ok", "bad", "invalid"}

(* prepareRequest: a GET is sent without the body it was given.            *)
prepareRequest(method, uri, body) ==
  [NoRequest EXCEPT !.stage = "arrived", !.method = method, !.uri = uri,
                    !.body = IF method = "GET" THEN "empty" ELSE body]

Sent(c, new, q) ==
  /\ phase = "serving" /\ call[c].state = "idle"
  /\ call' = [call EXCEPT ![c] = new]
  /\ req' = [req EXCEPT ![c] = q]
  /\ UNCHANGED <<registry, phase>>

(* Invoke with or without a response pointer, InvokeWithDynamicResponse.   *)
Invoke(c) ==
  \E m \in {"GET", "POST"}, u \in Uris, b \in Bodies \cup {"empty"},
     w \in {"nothing", "response", "dynamic"} :
    Sent(c, [NoCall EXCEPT !.state = "waiting", !.want = w],
         prepareRequest(m, u, b))

InvokeRejected(c) ==
  Sent(c, [NoCall EXCEPT !.state = "done", !.result = "encode"], NoRequest)

(* Any other client.                                                       *)
Requested(c) ==
  \E msg \in Messages :
    Sent(c, [NoCall EXCEPT !.state = "waiting", !.want = "raw"],
         [NoRequest EXCEPT !.stage = "arrived", !.method = msg.method, !.uri = msg.uri,
                           !.action = msg.action, !.query = msg.query,
                           !.ctype = msg.ctype, !.body = msg.body])

Finish(c, result) ==
  /\ call[c].state = "waiting"
  /\ call' = [call EXCEPT ![c] = [@ EXCEPT !.state = "done", !.result = result]]
  /\ UNCHANGED <<registry, phase, req>>

\* Variant: only a server error is an error.
checkServerError(status) == status < 500

checkResponseStatusCode(status) == status = 200

(* What the caller asked for is decoded; a dynamic response may be empty,  *)
(* and is text when it is neither an object nor an array.                  *)
ResponseRead(want, content) ==
  IF want \in {"nothing", "raw"} THEN {"ok"}
  ELSE IF content = "none" THEN {IF want = "dynamic" THEN "ok" ELSE "decode"}
  ELSE {"ok", "decode"}

Receive(c) ==
  /\ phase = "serving" /\ req[c].stage = "sent"
  /\ \E res \in IF checkResponseStatusCode(req[c].status)
                THEN ResponseRead(call[c].want, req[c].content) ELSE {"status"} :
       Finish(c, res)

(* The timeout of DoTimeout, or the end of the server.                     *)
Expire(c) == Finish(c, "timeout")

-----------------------------------------------------------------------------

Init ==
  /\ hooks \in HookSets
  /\ actions = NoTable /\ static = {}
  /\ phase = "setup" /\ calls = <<>>
  /\ call = [c \in Clients |-> NoCall]
  /\ req = [c \in Clients |-> NoRequest]

Next ==
  \/ Register \/ RegisterControllers \/ RegisterStatic \/ Serve
  \/ \E c \in Clients :
       \/ RequestBegins(c) \/ HandlerReturns(c) \/ UserPanics(c) \/ RequestEnds(c)
       \/ Invoke(c) \/ InvokeRejected(c) \/ Requested(c) \/ Receive(c) \/ Expire(c)

Spec == Init /\ [][Next]_vars

-----------------------------------------------------------------------------
(* Properties.                                                             *)

(* What a call that returned no error asked for stands until a             *)
(* RegisterControllers is refused.                                         *)
Stands(i) ==
  calls[i].ok /\ \A j \in DOMAIN calls : j > i /\ calls[j].kind = "controllers" => calls[j].ok

Standing == {p \in UNION {{i} \X DOMAIN calls[i].asked : i \in DOMAIN calls} : Stands(p[1])}

Asked(p) == calls[p[1]].asked[p[2]]

Later(p, q) == p[1] > q[1] \/ (p[1] = q[1] /\ p[2] > q[2])

(* The table is what the calls asked for that succeeded since the last     *)
(* refused RegisterControllers, of every key the last that asked for it:   *)
(* no field is lost, none that was refused is left, and an error at a      *)
(* later field leaves nothing of an earlier one or of an earlier call.     *)
TableAsRegistered ==
  phase = "setup" =>
    /\ DOMAIN actions = {Asked(p).key : p \in Standing}
    /\ \A p \in Standing :
         (\A q \in Standing : Later(q, p) => Asked(q).key # Asked(p).key)
           => actions[Asked(p).key] = Asked(p).desc

(* Failures the service itself answers with 200: a RESTFault without a     *)
(* code or with that one.  A SOAP action without a result leaves the       *)
(* status to its handler.                                                  *)
Silent(q) == q.desc.mType = "rest" /\ q.ctxErr = "fault" /\ q.code \in {0, 200}
OwnStatus(q) == q.desc.mType = "soap" /\ q.ctxErr = nil /\ ~q.result

(* Without an error handler the status says what the post processors see   *)
(* in Error(): 200 exactly when there is no error and the response could   *)
(* be encoded.                                                             *)
StatusTellsOutcome ==
  \A c \in Clients :
    LET q == req[c]
    IN  q.stage = "sent" /\ q.desc # NoDesc /\ "errorHandler" \notin hooks
          => \/ Silent(q) \/ OwnStatus(q)
             \/ q.status = 200 <=> q.ctxErr = nil /\ q.encoded

(* An action of an unknown type, of which nothing is run.                  *)
Ignored(q) == q.desc # NoDesc /\ q.desc.mType \notin MTypes

(* Between JsonRestClient and HttpService: a call that returns no error    *)
(* was handled to its end, or read a file, unless the program itself       *)
(* answers an error with 200, by a hook or by a fault, or gave the action  *)
(* a type that does not exist.                                             *)
ClientLearnsFailure ==
  \A c \in Clients :
    call[c].result = "ok" /\ hooks \cap {"errorHandler", "unimplErrorMapper", "interceptor"} = {}
      => \/ req[c].done \/ req[c].content = "static"
         \/ Silent(req[c]) \/ Ignored(req[c])

(* The handler of an action with a body runs only on one that decoded and  *)
(* passed the validator, although decoding, validation and the call of the *)
(* handler are each skipped by other conditions.                           *)
HandledBodiesAreValid ==
  \A c \in Clients :
    req[c].done /\ req[c].desc.shape = "body" => req[c].body \in {"ok", "noContent"}

=============================================================================
