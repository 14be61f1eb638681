---------------------------- MODULE ScriptEngine ----------------------------
(***************************************************************************)
(* Package scripts: executions that share a pool of goja runtimes, each    *)
(* with a timer that interrupts the runtime it was started for (goja.go),  *)
(* and the names in a runtime: those set for one execution (options.go),   *)
(* and those a script defines itself with var and function, which stay.    *)
(***************************************************************************)
EXTENDS Naturals, FiniteSets

CONSTANTS
  Executions,
  Vms,             \* bound: runtimes that exist
  Looping,         \* the executions whose script does not end by itself
  DataOf,          \* the names of WithSet of each execution
  DefinesOf        \* the names its script defines at its top level

Globals == {"arg", "console"}
Own(e) == Globals \cup DataOf[e]
Names == UNION {Own(e) \cup DefinesOf[e] : e \in Executions}

\* Who has given a name its value; {} is undefined.
Host(e) == {<<"host", e>>}
Script(e) == {<<"script", e>>}

(* What the constants have to be; the module of the run assumes it.        *)
ScriptAssumption ==
  /\ Looping \subseteq Executions
  /\ DOMAIN DataOf = Executions /\ DOMAIN DefinesOf = Executions

VARIABLES
  pool,        \* runtimes that are in the pool or do not exist yet
  interrupted, \* the runtimes with a pending interrupt
  names,       \* what each name is in each runtime
  exec,
  late         \* an interrupt came after its execution had ended

vars == <<pool, interrupted, names, exec, late>>

NoVm == "none"
NewExec == [stage |-> "idle", vm |-> NoVm, alive |-> TRUE, timer |-> "none", result |-> "none"]

Init ==
  /\ pool = Vms /\ interrupted = {}
  /\ names = [v \in Vms |-> [n \in Names |-> {}]]
  /\ exec = [e \in Executions |-> NewExec]
  /\ late = FALSE

Set(e, new) == exec' = [exec EXCEPT ![e] = new]

(* A runtime from the pool, or a new one, with the names and the timer.    *)
Execute(e) ==
  /\ exec[e].stage = "idle"
  /\ \E v \in pool :
       /\ pool' = pool \ {v}
       /\ names' = [names EXCEPT ![v] = [n \in Names |-> IF n \in Own(e) THEN Host(e) ELSE @[n]]]
       /\ Set(e, [exec[e] EXCEPT !.stage = "running", !.vm = v, !.timer = "armed"])
  /\ UNCHANGED <<interrupted, late>>

(* The names set for the execution are taken back; others of those that    *)
(* the script has defined stay.                                            *)
unset(e, defined) ==
  [n \in Names |-> IF n \in Own(e) THEN {}
                   ELSE IF n \in defined THEN Script(e) ELSE names[exec[e].vm][n]]

(* RunProgram returns, and unset is called.  A pending interrupt ends a    *)
(* script as soon as it runs, whatever it has defined by then.             *)
Returns(e) ==
  LET x == exec[e]
  IN  /\ x.stage = "running"
      /\ \E defined \in SUBSET DefinesOf[e] :
           /\ \/ x.vm \in interrupted /\ Set(e, [x EXCEPT !.stage = "ran", !.result = "interrupted"])
              \/ /\ e \notin Looping /\ defined = DefinesOf[e]
                 /\ Set(e, [x EXCEPT !.stage = "ran", !.result = "returned"])
           /\ names' = [names EXCEPT ![x.vm] = unset(e, defined)]
      /\ UNCHANGED <<pool, interrupted, late>>

(* The deferred function: isAlive and the timer, then the runtime.         *)
Dies(e) ==
  LET x == exec[e]
  IN  /\ x.stage = "ran"
      /\ Set(e, [x EXCEPT !.stage = "dead", !.alive = FALSE,
                          !.timer = IF @ = "armed" THEN "stopped" ELSE @])
      /\ UNCHANGED <<pool, interrupted, names, late>>

\* Variant: the runtime keeps a pending interrupt.
PutsAsIs(e) ==
  /\ exec[e].stage = "dead"
  /\ Set(e, [exec[e] EXCEPT !.stage = "done"])
  /\ pool' = pool \cup {exec[e].vm}
  /\ UNCHANGED <<interrupted, names, late>>

Puts(e) ==
  /\ exec[e].stage = "dead"
  /\ Set(e, [exec[e] EXCEPT !.stage = "done"])
  /\ interrupted' = interrupted \ {exec[e].vm}
  /\ pool' = pool \cup {exec[e].vm}
  /\ UNCHANGED <<names, late>>

(* The goroutine of the timer looks at isAlive,                            *)
TimerFires(e) ==
  /\ exec[e].timer = "armed"
  /\ Set(e, [exec[e] EXCEPT !.timer = IF exec[e].alive THEN "checked" ELSE "stopped"])
  /\ UNCHANGED <<pool, interrupted, names, late>>

(* and then interrupts, whoever has the runtime by now.                    *)
Interrupts(e) ==
  /\ exec[e].timer = "checked"
  /\ Set(e, [exec[e] EXCEPT !.timer = "fired"])
  /\ interrupted' = interrupted \cup {exec[e].vm}
  /\ late' = (late \/ ~exec[e].alive)
  /\ UNCHANGED <<pool, names>>

Runs(e) ==
  Execute(e) \/ Returns(e) \/ Dies(e) \/ Puts(e) \/ TimerFires(e) \/ Interrupts(e)

Next == \E e \in Executions : Runs(e)

Spec == Init /\ [][Next]_vars

(* Goroutines run and timers fire; every step brings an execution forward. *)
FairSpec == Spec /\ WF_vars(Next)

-----------------------------------------------------------------------------
(* Properties.                                                             *)

TypeOK ==
  /\ pool \subseteq Vms /\ interrupted \subseteq Vms
  /\ exec \in [Executions ->
       [stage : {"idle", "running", "ran", "dead", "done"}, vm : Vms \cup {NoVm},
        alive : BOOLEAN, timer : {"none", "armed", "checked", "fired", "stopped"},
        result : {"none", "returned", "interrupted"}]]
  /\ \A d, e \in Executions :
       exec[d].stage \in {"running", "ran", "dead"} /\ exec[e].stage \in {"running", "ran", "dead"}
         /\ exec[d].vm = exec[e].vm => d = e

(* A script is interrupted by the timer of its own execution, unless a     *)
(* timer looked at isAlive before its execution ended and interrupted      *)
(* after it: the runtime itself never carries an interrupt over.           *)
InterruptsAreOwn ==
  \A e \in Executions :
    exec[e].result = "interrupted" => exec[e].timer = "fired" \/ late

(* What the program gives a script are the values of its own execution,    *)
(* and no name has one that was given to another, whatever ran in the      *)
(* runtime before; any other name is undefined or what a script that ran   *)
(* there before has defined.                                               *)
NamesAreOwn ==
  \A e \in Executions :
    exec[e].stage = "running" =>
      \A n \in Names :
        LET value == names[exec[e].vm][n] IN
        IF n \in Own(e) THEN value = Host(e)
        ELSE \/ value = {}
             \/ \E d \in Executions :
                  /\ value = Script(d) /\ n \in DefinesOf[d]
                  /\ exec[d].vm = exec[e].vm /\ exec[d].stage \notin {"idle", "running"}

(* Every execution ends, also one whose script loops and whose own timer   *)
(* fires late or whose interrupt another one's clearing has taken away.    *)
ExecutionsEnd == \A e \in Executions : <>(exec[e].stage = "done")

=============================================================================
