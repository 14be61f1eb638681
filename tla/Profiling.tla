------------------------------ MODULE Profiling ------------------------------
(***************************************************************************)
(* The handlers that start and stop profiling (metric/profiling.go) and    *)
(* the agent they start, which collects one profile after the other and    *)
(* sends each until the collector takes or rejects it (agent.go,           *)
(* retry.go).                                                              *)
(***************************************************************************)
EXTENDS Naturals, Sequences, SequencesExt, FiniteSetsExt

CONSTANTS
  Handlers,    \* goroutines that serve a request
  Nobody,      \* the holder of the free lock
  TypeLists,   \* values of the argument "types", split
  MaxAgents,   \* bound: agents ever started
  MaxRequests  \* bound: requests

(* What the constants have to be; the module of the run assumes it.        *)
ProfilingAssumption ==
  Nobody \notin Handlers /\ MaxAgents \in Nat /\ MaxRequests \in Nat

VARIABLES
  profileLock,
  profileAgent, \* the agent in use, 0 for none
  handler,      \* what each goroutine is doing
  requests,
  agent

vars == <<profileLock, profileAgent, handler, requests, agent>>

Agents == 1..MaxAgents

-----------------------------------------------------------------------------
(* Types of profiles                                                       *)

Order == <<"cpu", "heap", "block", "mutex", "goroutine", "trace", "threadcreate">>
ProfileTypes == ToSet(Order)
defaultProfileType == "cpu"

(* What follows "all" is not looked at, nor what follows an unknown type,  *)
(* which fails.                                                            *)
parseTypes(types) ==
  LET ends == {i \in DOMAIN types : types[i] \notin ProfileTypes}
      seen == {types[i] : i \in {j \in DOMAIN types : \A k \in ends : j <= k}}
  IN  [types  |-> IF "all" \in seen THEN ProfileTypes ELSE seen \cap ProfileTypes,
       failed |-> ~(seen \subseteq ProfileTypes \cup {"all"})]

(* New profiles the CPU unless told otherwise, and no option tells it so.  *)
Enabled(types) == types \cup {defaultProfileType}

After(t, k) ==
  LET i == CHOOSE j \in DOMAIN Order : Order[j] = t
  IN  Order[((i + k - 1) % Len(Order)) + 1]

nextProfileType(enabled, t) ==
  After(t, Min({k \in 1..Len(Order) : After(t, k) \in enabled}))

-----------------------------------------------------------------------------
(* The handlers                                                            *)

NoAgent == [stage |-> "none", enabled |-> {}, ptype |-> defaultProfileType,
            unread |-> TRUE,     \* the body of the request can be sent
            stop |-> FALSE, cancelled |-> FALSE,
            round |-> <<>>]      \* types since the last whole tick

Init ==
  /\ profileLock = Nobody /\ profileAgent = 0
  /\ handler = [h \in Handlers |-> "idle"]
  /\ requests = 0
  /\ agent = [a \in Agents |-> NoAgent]

Become(h, what) == handler' = [handler EXCEPT ![h] = what]

Request(h) ==
  /\ handler[h] = "idle" /\ requests < MaxRequests
  /\ \E what \in {"enable", "disable"} : Become(h, what)
  /\ requests' = requests + 1
  /\ UNCHANGED <<profileLock, profileAgent, agent>>

(* An agent exists, an argument is missing or wrong, or the collector's    *)
(* address is empty, which is an error of Start.                           *)
EnableRefused(h) ==
  /\ handler[h] = "enable" /\ profileLock = Nobody
  /\ Become(h, "idle")
  /\ UNCHANGED <<profileLock, profileAgent, requests, agent>>

handleEnableProfilingRequest(h) ==
  /\ handler[h] = "enable" /\ profileLock = Nobody /\ profileAgent = 0
  /\ \E types \in TypeLists, a \in Agents :
       LET parsed == parseTypes(types)
       IN  /\ ~parsed.failed
           /\ \A b \in Agents : agent[b].stage = "none" <=> b >= a
           /\ agent' = [agent EXCEPT ![a] = [NoAgent EXCEPT !.stage = "waiting",
                                                            !.enabled = Enabled(parsed.types)]]
           /\ profileAgent' = a
  /\ Become(h, "idle")
  /\ UNCHANGED <<profileLock, requests>>

DisableNothing(h) ==
  /\ handler[h] = "disable" /\ profileLock = Nobody /\ profileAgent = 0
  /\ Become(h, "idle")
  /\ UNCHANGED <<profileLock, profileAgent, requests, agent>>

\* Variant: Stop does not wait for done.
DisableAtOnce(h) ==
  /\ handler[h] = "disable" /\ profileLock = Nobody /\ profileAgent # 0
  /\ agent' = [agent EXCEPT ![profileAgent].stop = TRUE]
  /\ profileAgent' = 0
  /\ Become(h, "idle")
  /\ UNCHANGED <<profileLock, requests>>

(* Stop closes the channel and waits with the lock held.                   *)
handleDisableProfilingRequest(h) ==
  /\ handler[h] = "disable" /\ profileLock = Nobody /\ profileAgent # 0
  /\ agent' = [agent EXCEPT ![profileAgent].stop = TRUE]
  /\ profileLock' = h
  /\ Become(h, "stopping")
  /\ UNCHANGED <<profileAgent, requests>>

Stopped(h) ==
  /\ handler[h] = "stopping" /\ agent[profileAgent].stage = "done"
  /\ profileAgent' = 0 /\ profileLock' = Nobody
  /\ Become(h, "idle")
  /\ UNCHANGED <<requests, agent>>

-----------------------------------------------------------------------------
(* The agent                                                               *)

Step(a, at, new) ==
  /\ agent[a].stage = at
  /\ agent' = [agent EXCEPT ![a] = new]
  /\ UNCHANGED <<profileLock, profileAgent, handler, requests>>

Goto(a, at, stage) == Step(a, at, [agent[a] EXCEPT !.stage = stage])

(* The goroutine that turns stop into the cancellation of the context.     *)
Cancels(a) ==
  /\ agent[a].stop /\ ~agent[a].cancelled
  /\ Step(a, agent[a].stage, [agent[a] EXCEPT !.cancelled = TRUE])

(* The timer is always set to a second or more, so that the select takes   *)
(* stop once it is closed.                                                 *)
TimerFires(a) ==
  LET g == agent[a]
  IN  /\ ~g.stop
      /\ Step(a, "waiting",
              [g EXCEPT !.stage = "collecting",
                        !.round = IF g.ptype = defaultProfileType THEN <<g.ptype>>
                                                                  ELSE Append(@, g.ptype)])

Leaves(a) == agent[a].stop /\ Goto(a, "waiting", "done")

(* The buffer and the timer are reset and the next type is up.             *)
Turn(a, at) ==
  Step(a, at, [agent[a] EXCEPT !.stage = "waiting", !.unread = TRUE,
                               !.ptype = nextProfileType(agent[a].enabled, @)])

(* Collecting takes its duration, which a cancellation cuts short.         *)
collectProfile(a) == Goto(a, "collecting", "sending")
CollectFails(a) == Turn(a, "collecting")

(* doRequest: the collector takes or rejects the profile (below 500), or   *)
(* the context is cancelled, which ends the retries.                       *)
Sent(a) == agent[a].unread /\ ~agent[a].cancelled /\ Turn(a, "sending")

\* Variant: a cancelled context is an error like the others.
CancelRetried(a) == agent[a].cancelled /\ Goto(a, "sending", "backoff")

Cancelled(a) == agent[a].cancelled /\ Turn(a, "sending")

(* The collector is not reached, or it fails after it has read the body,   *)
(* of which there is nothing left for the next try.                        *)
SendFails(a) ==
  /\ ~agent[a].cancelled
  /\ \E unread \in {agent[a].unread, FALSE} :
       Step(a, "sending", [agent[a] EXCEPT !.stage = "backoff", !.unread = unread])

(* Retry sleeps without looking at the context.                            *)
BackoffEnds(a) == Goto(a, "backoff", "sending")

Runs(a) ==
  \/ Cancels(a) \/ TimerFires(a) \/ Leaves(a) \/ collectProfile(a) \/ CollectFails(a)
  \/ Sent(a) \/ Cancelled(a) \/ SendFails(a) \/ BackoffEnds(a)

Handles(h) ==
  \/ EnableRefused(h) \/ handleEnableProfilingRequest(h)
  \/ DisableNothing(h) \/ handleDisableProfilingRequest(h) \/ Stopped(h)

Next ==
  \/ \E h \in Handlers : Request(h) \/ Handles(h)
  \/ \E a \in Agents : Runs(a)

(* Goroutines run, sleeps end and the collector answers or does not within *)
(* the client's time; handlers get the lock in some order.                 *)
Fairness ==
  /\ \A a \in Agents : WF_vars(Runs(a)) /\ WF_vars(Cancels(a))
  /\ WF_vars(\E h \in Handlers : Handles(h))

Spec == Init /\ [][Next]_vars
FairSpec == Spec /\ Fairness

-----------------------------------------------------------------------------
(* Properties.                                                             *)

TypeOK ==
  /\ profileLock \in Handlers \cup {Nobody}
  /\ profileAgent \in Agents \cup {0}
  /\ handler \in [Handlers -> {"idle", "enable", "disable", "stopping"}]
  /\ requests \in 0..MaxRequests
  /\ agent \in [Agents ->
       [stage : {"none", "waiting", "collecting", "sending", "backoff", "done"},
        enabled : SUBSET ProfileTypes, ptype : ProfileTypes, unread : BOOLEAN,
        stop : BOOLEAN, cancelled : BOOLEAN, round : Seq(ProfileTypes)]]

Active(a) == agent[a].stage \notin {"none", "done"}

(* Only one CPU profile and one trace can run in a process: at most one    *)
(* agent is at work, the one the handlers know of, however often profiling *)
(* is stopped and started while a profile is being collected or sent.      *)
OneAgent == \A a \in Agents : Active(a) => a = profileAgent

(* When the agent sleeps the whole tick it has tried every enabled type    *)
(* once since it last did.                                                 *)
RoundComplete ==
  \A a \in Agents :
    LET g == agent[a]
    IN  g.stage = "waiting" /\ g.ptype = defaultProfileType /\ g.round # <<>>
          => IsInjective(g.round) /\ ToSet(g.round) = g.enabled

(* Both handlers return, although a stop waits for an agent that retries   *)
(* without end and an enabling request waits for the stop.                 *)
RequestsReturn == \A h \in Handlers : handler[h] # "idle" ~> handler[h] = "idle"

=============================================================================
