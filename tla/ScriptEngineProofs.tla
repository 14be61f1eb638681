------------------------- MODULE ScriptEngineProofs -------------------------
(***************************************************************************)
(* Proofs about ScriptEngine, for any executions, runtimes and names: what *)
(* a runtime carries from one execution to the next.                       *)
(***************************************************************************)
EXTENDS ScriptEngine, TLAPS

Stages == {"idle", "running", "ran", "dead", "done"}
Timers == {"none", "armed", "checked", "fired", "stopped"}

ExecRecord ==
  [stage : Stages, vm : Vms \cup {NoVm}, alive : BOOLEAN, timer : Timers,
   result : {"none", "returned", "interrupted"}]

(* The runtime is taken from the pool, and not yet put back.               *)
Holds(e) == exec[e].stage \in {"running", "ran", "dead"}

NamesTyped == names \in [Vms -> [Names -> SUBSET ({"host", "script"} \X Executions)]]

Typed ==
  /\ pool \subseteq Vms /\ interrupted \subseteq Vms
  /\ exec \in [Executions -> ExecRecord]
  /\ NamesTyped
  /\ late \in BOOLEAN

(* A runtime is in the pool or belongs to one execution.                   *)
Owned ==
  /\ \A e \in Executions : Holds(e) => exec[e].vm \in Vms \ pool
  /\ \A d, e \in Executions : Holds(d) /\ Holds(e) /\ exec[d].vm = exec[e].vm => d = e

(* A value of the program is there only while the execution it was given   *)
(* to runs there; one of a script is left from an execution that has ended.*)
OfRunning(v, n, e) ==
  exec[e].stage = "running" /\ exec[e].vm = v /\ n \in Own(e)
LeftBy(v, n, d) ==
  exec[d].stage \in {"ran", "dead", "done"} /\ exec[d].vm = v /\ n \in DefinesOf[d]

Clean ==
  /\ \A v \in Vms, n \in Names :
       \/ names[v][n] = {}
       \/ \E e \in Executions : names[v][n] = Host(e) /\ OfRunning(v, n, e)
       \/ \E d \in Executions : names[v][n] = Script(d) /\ LeftBy(v, n, d)
  /\ \A e \in Executions : exec[e].stage = "running" =>
       \A n \in Own(e) : names[exec[e].vm][n] = Host(e)

(* Timer and result exist once the execution has started, and isAlive is   *)
(* true until the deferred function has run.                               *)
Timed ==
  \A e \in Executions :
    /\ exec[e].stage = "idle" => exec[e].timer = "none" /\ exec[e].result = "none"
    /\ exec[e].stage # "idle" => exec[e].vm \in Vms
    /\ exec[e].alive => exec[e].stage \in {"idle", "running", "ran"}

(* A pending interrupt comes from the timer of the execution that holds    *)
(* the runtime, unless some timer was late.                                *)
Accounted ==
  ~late => \A v \in interrupted :
             \E e \in Executions : Holds(e) /\ exec[e].vm = v /\ exec[e].timer = "fired"

IInv == Typed /\ Owned /\ Clean /\ Timed /\ Accounted /\ InterruptsAreOwn

LEMMA InitInv == Init => IInv
<1>. SUFFICES ASSUME Init PROVE IInv
  OBVIOUS
<1>1. NewExec \in ExecRecord
  BY DEF NewExec, ExecRecord, Stages, Timers
<1>2. Typed
  BY <1>1 DEF Init, Typed, NamesTyped
<1>3. \A e \in Executions : /\ exec[e].stage = "idle" /\ exec[e].timer = "none"
                            /\ exec[e].alive /\ exec[e].result = "none"
  BY DEF Init, NewExec
<1>4. Owned /\ Clean /\ Timed /\ InterruptsAreOwn
  BY <1>3 DEF Init, Owned, Clean, Timed, InterruptsAreOwn, Holds
<1>5. Accounted
  BY DEF Init, Accounted
<1>. QED  BY <1>2, <1>4, <1>5 DEF IInv

-----------------------------------------------------------------------------
(* What each step does to the record of its execution, field by field.     *)

Becomes(e, stage, vm, alive, timer, result) ==
  /\ exec' \in [Executions -> ExecRecord]
  /\ \A d \in Executions : d # e => exec'[d] = exec[d]
  /\ exec'[e].stage = stage /\ exec'[e].vm = vm /\ exec'[e].alive = alive
  /\ exec'[e].timer = timer /\ exec'[e].result = result

LEMMA Update ==
  ASSUME Typed, NEW e \in Executions, NEW y \in ExecRecord, Set(e, y)
  PROVE  Becomes(e, y.stage, y.vm, y.alive, y.timer, y.result)
<1>1. exec' = [exec EXCEPT ![e] = y]
  BY DEF Set
<1>2. exec' \in [Executions -> ExecRecord]
  BY <1>1 DEF Typed
<1>3. exec'[e] = y /\ \A d \in Executions : d # e => exec'[d] = exec[d]
  BY <1>1 DEF Typed
<1>. QED  BY <1>2, <1>3 DEF Becomes

LEMMA StageRecord ==
  ASSUME NEW x \in ExecRecord, NEW s \in Stages, NEW y, y = [x EXCEPT !.stage = s]
  PROVE  /\ y \in ExecRecord /\ y.stage = s /\ y.vm = x.vm /\ y.alive = x.alive
         /\ y.timer = x.timer /\ y.result = x.result
BY DEF ExecRecord

LEMMA TimerRecord ==
  ASSUME NEW x \in ExecRecord, NEW t \in Timers, NEW y, y = [x EXCEPT !.timer = t]
  PROVE  /\ y \in ExecRecord /\ y.stage = x.stage /\ y.vm = x.vm /\ y.alive = x.alive
         /\ y.timer = t /\ y.result = x.result
BY DEF ExecRecord

(* The names of a runtime that an execution begins with.                   *)
SetFor(e, v) == [n \in Names |-> IF n \in Own(e) THEN Host(e) ELSE names[v][n]]

LEMMA ExecuteDoes ==
  ASSUME Typed, NEW e \in Executions, Execute(e)
  PROVE  /\ exec[e].stage = "idle"
         /\ UNCHANGED <<interrupted, late>>
         /\ \E v \in pool : /\ Becomes(e, "running", v, exec[e].alive, "armed", exec[e].result)
                            /\ pool' = pool \ {v}
                            /\ names' = [names EXCEPT ![v] = SetFor(e, v)]
<1>1. PICK x \in ExecRecord : x = exec[e]
  BY DEF Typed
<1>2. PICK v \in pool : /\ Set(e, [x EXCEPT !.stage = "running", !.vm = v, !.timer = "armed"])
                        /\ pool' = pool \ {v}
                        /\ names' = [names EXCEPT ![v] = SetFor(e, v)]
  BY <1>1 DEF Execute, SetFor, Typed, NamesTyped
<1>3. PICK y : y = [x EXCEPT !.stage = "running", !.vm = v, !.timer = "armed"]
  OBVIOUS
<1>4. v \in Vms
  BY DEF Typed
<1>5. /\ y \in ExecRecord /\ y.stage = "running" /\ y.vm = v /\ y.alive = x.alive
      /\ y.timer = "armed" /\ y.result = x.result
  BY <1>3, <1>4 DEF ExecRecord, Stages, Timers
<1>6. Becomes(e, y.stage, y.vm, y.alive, y.timer, y.result)
  BY <1>2, <1>3, <1>5, Update
<1>7. exec[e].stage = "idle" /\ UNCHANGED <<interrupted, late>>
  BY DEF Execute
<1>. QED  BY <1>1, <1>2, <1>5, <1>6, <1>7

LEMMA ReturnsDoes ==
  ASSUME Typed, NEW e \in Executions, Returns(e)
  PROVE  /\ exec[e].stage = "running"
         /\ \/ /\ exec[e].vm \in interrupted
               /\ Becomes(e, "ran", exec[e].vm, exec[e].alive, exec[e].timer, "interrupted")
            \/ Becomes(e, "ran", exec[e].vm, exec[e].alive, exec[e].timer, "returned")
         /\ \E defined \in SUBSET DefinesOf[e] :
              names' = [names EXCEPT ![exec[e].vm] = unset(e, defined)]
         /\ UNCHANGED <<pool, interrupted, late>>
<1>1. PICK x \in ExecRecord : x = exec[e]
  BY DEF Typed
<1>2. PICK r \in {"returned", "interrupted"} :
        /\ Set(e, [x EXCEPT !.stage = "ran", !.result = r])
        /\ r = "interrupted" => x.vm \in interrupted
  BY <1>1 DEF Returns
<1>3. PICK y : y = [x EXCEPT !.stage = "ran", !.result = r]
  OBVIOUS
<1>4. /\ y \in ExecRecord /\ y.stage = "ran" /\ y.vm = x.vm /\ y.alive = x.alive
      /\ y.timer = x.timer /\ y.result = r
  BY <1>3 DEF ExecRecord, Stages
<1>5. Becomes(e, y.stage, y.vm, y.alive, y.timer, y.result)
  BY <1>2, <1>3, <1>4, Update
<1>6. /\ exec[e].stage = "running"
      /\ \E defined \in SUBSET DefinesOf[e] :
           names' = [names EXCEPT ![exec[e].vm] = unset(e, defined)]
      /\ UNCHANGED <<pool, interrupted, late>>
  BY DEF Returns
<1>. QED  BY <1>1, <1>2, <1>4, <1>5, <1>6

LEMMA DiesDoes ==
  ASSUME Typed, NEW e \in Executions, Dies(e)
  PROVE  /\ exec[e].stage = "ran"
         /\ \E t \in Timers : /\ Becomes(e, "dead", exec[e].vm, FALSE, t, exec[e].result)
                              /\ exec[e].timer = "fired" => t = "fired"
         /\ UNCHANGED <<pool, interrupted, names, late>>
<1>1. PICK x \in ExecRecord : x = exec[e]
  BY DEF Typed
<1>2. PICK t \in Timers : t = IF x.timer = "armed" THEN "stopped" ELSE x.timer
  BY DEF ExecRecord, Timers
<1>3. Set(e, [x EXCEPT !.stage = "dead", !.alive = FALSE, !.timer = t])
  BY <1>1, <1>2 DEF Dies
<1>4. PICK y : y = [x EXCEPT !.stage = "dead", !.alive = FALSE, !.timer = t]
  OBVIOUS
<1>5. /\ y \in ExecRecord /\ y.stage = "dead" /\ y.vm = x.vm /\ y.alive = FALSE
      /\ y.timer = t /\ y.result = x.result
  BY <1>4 DEF ExecRecord, Stages
<1>6. Becomes(e, y.stage, y.vm, y.alive, y.timer, y.result)
  BY <1>3, <1>4, <1>5, Update
<1>7. exec[e].stage = "ran" /\ UNCHANGED <<pool, interrupted, names, late>>
  BY DEF Dies
<1>. QED  BY <1>1, <1>2, <1>5, <1>6, <1>7

LEMMA PutsDoes ==
  ASSUME Typed, NEW e \in Executions, Puts(e)
  PROVE  Becomes(e, "done", exec[e].vm, exec[e].alive, exec[e].timer, exec[e].result)
<1>. PICK y : y = [exec[e] EXCEPT !.stage = "done"]
  OBVIOUS
<1>1. Set(e, y)
  BY DEF Puts
<1>2. exec[e] \in ExecRecord /\ "done" \in Stages
  BY DEF Typed, Stages
<1>3. /\ y \in ExecRecord /\ y.stage = "done" /\ y.vm = exec[e].vm /\ y.alive = exec[e].alive
      /\ y.timer = exec[e].timer /\ y.result = exec[e].result
  BY <1>2, StageRecord
<1>4. Becomes(e, y.stage, y.vm, y.alive, y.timer, y.result)
  BY <1>1, <1>3, Update
<1>. QED  BY <1>3, <1>4

LEMMA TimerDoes ==
  ASSUME Typed, NEW e \in Executions, NEW t \in Timers, Set(e, [exec[e] EXCEPT !.timer = t])
  PROVE  Becomes(e, exec[e].stage, exec[e].vm, exec[e].alive, t, exec[e].result)
<1>. PICK y : y = [exec[e] EXCEPT !.timer = t]
  OBVIOUS
<1>1. Set(e, y)
  OBVIOUS
<1>2. exec[e] \in ExecRecord
  BY DEF Typed
<1>3. /\ y \in ExecRecord /\ y.stage = exec[e].stage /\ y.vm = exec[e].vm
      /\ y.alive = exec[e].alive /\ y.timer = t /\ y.result = exec[e].result
  BY <1>2, TimerRecord
<1>4. Becomes(e, y.stage, y.vm, y.alive, y.timer, y.result)
  BY <1>1, <1>3, Update
<1>. QED  BY <1>3, <1>4

LEMMA TimerFiresDoes ==
  ASSUME Typed, NEW e \in Executions, TimerFires(e)
  PROVE  Becomes(e, exec[e].stage, exec[e].vm, exec[e].alive,
                 IF exec[e].alive THEN "checked" ELSE "stopped", exec[e].result)
BY TimerDoes DEF TimerFires, Timers

LEMMA InterruptsDoes ==
  ASSUME Typed, NEW e \in Executions, Interrupts(e)
  PROVE  Becomes(e, exec[e].stage, exec[e].vm, exec[e].alive, "fired", exec[e].result)
BY TimerDoes DEF Interrupts, Timers

-----------------------------------------------------------------------------
(* Each conjunct of the invariant over each step.                          *)

LEMMA TypedStep ==
  ASSUME IInv, NEW e \in Executions, Runs(e)
  PROVE  Typed'
<1>. USE DEF IInv, Typed, Becomes
<1>1. CASE Execute(e)
  <2>1. PICK v \in pool : /\ Becomes(e, "running", v, exec[e].alive, "armed", exec[e].result)
                          /\ pool' = pool \ {v}
                          /\ names' = [names EXCEPT ![v] = SetFor(e, v)]
    BY <1>1, ExecuteDoes
  <2>2. SetFor(e, v) \in [Names -> SUBSET ({"host", "script"} \X Executions)]
    BY <2>1 DEF NamesTyped, SetFor, Host
  <2>3. NamesTyped'
    BY <2>1, <2>2 DEF NamesTyped
  <2>. QED  BY <1>1, <2>1, <2>3, ExecuteDoes
<1>2. CASE Returns(e)
  <2>1. exec[e].stage = "running" /\ UNCHANGED <<pool, interrupted, late>>
    BY <1>2, ReturnsDoes
  <2>2. PICK defined \in SUBSET DefinesOf[e] : names' = [names EXCEPT ![exec[e].vm] = unset(e, defined)]
    BY <1>2, ReturnsDoes
  <2>3. exec[e].vm \in Vms
    BY <2>1 DEF Owned, Holds
  <2>4. unset(e, defined) \in [Names -> SUBSET ({"host", "script"} \X Executions)]
    BY <2>3 DEF NamesTyped, unset, Script
  <2>5. NamesTyped'
    BY <2>2, <2>4 DEF NamesTyped
  <2>6. exec' \in [Executions -> ExecRecord]
    BY <1>2, ReturnsDoes
  <2>. QED  BY <2>1, <2>5, <2>6
<1>3. CASE Dies(e)
  BY <1>3, DiesDoes DEF NamesTyped
<1>4. CASE Puts(e)
  BY <1>4, PutsDoes DEF Puts, Owned, Holds, NamesTyped
<1>5. CASE TimerFires(e)
  BY <1>5, TimerFiresDoes DEF TimerFires, NamesTyped
<1>6. CASE Interrupts(e)
  BY <1>6, InterruptsDoes DEF Interrupts, Timed, NamesTyped
<1>. QED  BY <1>1, <1>2, <1>3, <1>4, <1>5, <1>6 DEF Runs

LEMMA OwnedStep ==
  ASSUME IInv, NEW e \in Executions, Runs(e)
  PROVE  Owned'
<1>. USE DEF IInv, Typed, Owned, Holds, Becomes
<1>1. CASE Execute(e)
  BY <1>1, ExecuteDoes
<1>2. CASE Returns(e)
  BY <1>2, ReturnsDoes
<1>3. CASE Dies(e)
  <2>1. exec[e].stage = "ran" /\ UNCHANGED <<pool, interrupted, names, late>>
    BY <1>3, DiesDoes
  <2>2. PICK t \in Timers : /\ Becomes(e, "dead", exec[e].vm, FALSE, t, exec[e].result)
                            /\ exec[e].timer = "fired" => t = "fired"
    BY <1>3, DiesDoes
  <2>. QED  BY <2>1, <2>2
<1>4. CASE Puts(e)
  BY <1>4, PutsDoes DEF Puts
<1>5. CASE TimerFires(e)
  BY <1>5, TimerFiresDoes DEF TimerFires
<1>6. CASE Interrupts(e)
  BY <1>6, InterruptsDoes DEF Interrupts
<1>. QED  BY <1>1, <1>2, <1>3, <1>4, <1>5, <1>6 DEF Runs

(* Executions that stay as they are, and the one that goes on, keep what   *)
(* is said of a name, unless that one was running and is no more.          *)
LEMMA NameKept ==
  ASSUME NEW e \in Executions, NEW s, NEW v, NEW a, NEW t, NEW r, Becomes(e, s, v, a, t, r),
         exec[e].stage = "idle" \/ v = exec[e].vm,
         exec[e].stage = "running" => s = "running",
         exec[e].stage \in {"ran", "dead", "done"} => s \in {"ran", "dead", "done"},
         NEW w \in Vms, NEW n \in Names, NEW d \in Executions
  PROVE  /\ OfRunning(w, n, d) => OfRunning(w, n, d)'
         /\ LeftBy(w, n, d) => LeftBy(w, n, d)'
BY DEF Becomes, OfRunning, LeftBy

LEMMA CleanKept ==
  ASSUME Clean, NEW e \in Executions, NEW s, NEW v, NEW a, NEW t, NEW r, Becomes(e, s, v, a, t, r),
         exec[e].stage = "idle" => s = "idle",
         v = exec[e].vm,
         exec[e].stage = "running" <=> s = "running",
         exec[e].stage \in {"ran", "dead", "done"} => s \in {"ran", "dead", "done"},
         UNCHANGED names
  PROVE  Clean'
<1>1. ASSUME NEW w \in Vms, NEW n \in Names
      PROVE  \/ names'[w][n] = {}
             \/ \E f \in Executions : names'[w][n] = Host(f) /\ OfRunning(w, n, f)'
             \/ \E d \in Executions : names'[w][n] = Script(d) /\ LeftBy(w, n, d)'
  <2>1. \A d \in Executions : /\ OfRunning(w, n, d) => OfRunning(w, n, d)'
                              /\ LeftBy(w, n, d) => LeftBy(w, n, d)'
    BY NameKept
  <2>. QED  BY <2>1 DEF Clean
<1>2. ASSUME NEW f \in Executions, exec'[f].stage = "running", NEW n \in Own(f)
      PROVE  names'[exec'[f].vm][n] = Host(f)
  BY <1>2 DEF Becomes, Clean
<1>. QED  BY <1>1, <1>2 DEF Clean

LEMMA CleanStep ==
  ASSUME IInv, NEW e \in Executions, Runs(e)
  PROVE  Clean'
<1>0. Typed /\ Clean /\ exec[e].stage \in Stages
  BY DEF IInv, Typed, ExecRecord
<1>a. \A f \in Executions : Own(f) \subseteq Names
  BY DEF Names
<1>1. CASE Execute(e)
  <2>1. exec[e].stage = "idle"
    BY <1>0, <1>1, ExecuteDoes
  <2>2. PICK v \in pool : /\ Becomes(e, "running", v, exec[e].alive, "armed", exec[e].result)
                          /\ names' = [names EXCEPT ![v] = SetFor(e, v)]
    BY <1>0, <1>1, ExecuteDoes
  <2>3. v \in Vms
    BY <1>0 DEF Typed
  <2>4. /\ \A n \in Names : names'[v][n] = IF n \in Own(e) THEN Host(e) ELSE names[v][n]
        /\ \A w \in Vms : w # v => names'[w] = names[w]
    BY <1>0, <2>2, <2>3 DEF Typed, NamesTyped, SetFor
  <2>5. exec'[e].stage = "running" /\ exec'[e].vm = v
    BY <2>2 DEF Becomes
  <2>6. ASSUME NEW w \in Vms, NEW n \in Names
        PROVE  \/ names'[w][n] = {}
               \/ \E f \in Executions : names'[w][n] = Host(f) /\ OfRunning(w, n, f)'
               \/ \E d \in Executions : names'[w][n] = Script(d) /\ LeftBy(w, n, d)'
    <3>1. CASE w = v /\ n \in Own(e)
      BY <2>4, <2>5, <3>1 DEF OfRunning
    <3>2. CASE ~(w = v /\ n \in Own(e))
      <4>1. names'[w][n] = names[w][n]
        BY <2>4, <3>2
      <4>2. \A d \in Executions : /\ OfRunning(w, n, d) => OfRunning(w, n, d)'
                                  /\ LeftBy(w, n, d) => LeftBy(w, n, d)'
        BY <2>1, <2>2, NameKept
      <4>. QED  BY <1>0, <4>1, <4>2 DEF Clean
    <3>. QED  BY <3>1, <3>2
  <2>7. ASSUME NEW f \in Executions, exec'[f].stage = "running", NEW n \in Own(f)
        PROVE  names'[exec'[f].vm][n] = Host(f)
    <3>1. CASE f = e
      BY <1>a, <2>4, <2>5, <3>1
    <3>2. CASE f # e
      <4>1. exec'[f] = exec[f]
        BY <2>2, <3>2 DEF Becomes
      <4>2. exec[f].vm # v /\ exec[f].vm \in Vms
        BY <2>7, <4>1 DEF IInv, Owned, Holds
      <4>. QED  BY <1>0, <2>4, <2>7, <4>1, <4>2 DEF Clean
    <3>. QED  BY <3>1, <3>2
  <2>. QED  BY <2>6, <2>7 DEF Clean
<1>2. CASE Returns(e)
  <2>. DEFINE v == exec[e].vm
  <2>1. exec[e].stage = "running" /\ v \in Vms
    BY <1>0, <1>2, ReturnsDoes DEF IInv, Owned, Holds
  <2>2. PICK r : Becomes(e, "ran", v, exec[e].alive, exec[e].timer, r)
    BY <1>0, <1>2, ReturnsDoes
  <2>3. PICK defined \in SUBSET DefinesOf[e] : names' = [names EXCEPT ![v] = unset(e, defined)]
    BY <1>0, <1>2, ReturnsDoes
  <2>4. /\ \A n \in Names : names'[v][n] = IF n \in Own(e) THEN {}
                                           ELSE IF n \in defined THEN Script(e) ELSE names[v][n]
        /\ \A w \in Vms : w # v => names'[w] = names[w]
    BY <1>0, <2>1, <2>3 DEF Typed, NamesTyped, unset
  <2>5. exec'[e].stage = "ran" /\ exec'[e].vm = v /\ \A f \in Executions : f # e => exec'[f] = exec[f]
    BY <2>2 DEF Becomes
  <2>6. ASSUME NEW w \in Vms, NEW n \in Names
        PROVE  \/ names'[w][n] = {}
               \/ \E f \in Executions : names'[w][n] = Host(f) /\ OfRunning(w, n, f)'
               \/ \E d \in Executions : names'[w][n] = Script(d) /\ LeftBy(w, n, d)'
    <3>1. CASE w = v /\ n \in Own(e)
      BY <2>4, <3>1
    <3>2. CASE w = v /\ n \notin Own(e) /\ n \in defined
      <4>1. LeftBy(w, n, e)'
        BY <2>3, <2>5, <3>2 DEF LeftBy
      <4>. QED  BY <2>4, <3>2, <4>1
    <3>3. CASE w # v \/ (n \notin Own(e) /\ n \notin defined)
      <4>1. names'[w][n] = names[w][n]
        BY <2>4, <3>3
      <4>2. \A d \in Executions : LeftBy(w, n, d) => LeftBy(w, n, d)'
        BY <2>1, <2>5 DEF LeftBy
      <4>3. \A f \in Executions : OfRunning(w, n, f) => OfRunning(w, n, f)'
        BY <2>5, <3>3 DEF OfRunning
      <4>. QED  BY <1>0, <4>1, <4>2, <4>3 DEF Clean
    <3>. QED  BY <3>1, <3>2, <3>3
  <2>7. ASSUME NEW f \in Executions, exec'[f].stage = "running", NEW n \in Own(f)
        PROVE  names'[exec'[f].vm][n] = Host(f)
    <3>1. f # e /\ exec'[f] = exec[f]
      BY <2>5, <2>7
    <3>2. exec[f].vm # v /\ exec[f].vm \in Vms
      BY <2>1, <2>7, <3>1 DEF IInv, Owned, Holds
    <3>. QED  BY <1>0, <2>4, <2>7, <3>1, <3>2 DEF Clean
  <2>. QED  BY <2>6, <2>7 DEF Clean
<1>3. CASE Dies(e)
  <2>1. exec[e].stage = "ran" /\ UNCHANGED names
    BY <1>0, <1>3, DiesDoes
  <2>2. PICK t \in Timers : Becomes(e, "dead", exec[e].vm, FALSE, t, exec[e].result)
    BY <1>0, <1>3, DiesDoes
  <2>. QED  BY <1>0, <2>1, <2>2, CleanKept
<1>4. CASE Puts(e)
  <2>1. exec[e].stage = "dead" /\ UNCHANGED names
    BY <1>4 DEF Puts
  <2>. QED  BY <1>0, <1>4, <2>1, PutsDoes, CleanKept
<1>5. CASE TimerFires(e)
  <2>1. UNCHANGED names
    BY <1>5 DEF TimerFires
  <2>. QED  BY <1>0, <1>5, <2>1, TimerFiresDoes, CleanKept
<1>6. CASE Interrupts(e)
  <2>1. UNCHANGED names
    BY <1>6 DEF Interrupts
  <2>. QED  BY <1>0, <1>6, <2>1, InterruptsDoes, CleanKept
<1>. QED  BY <1>1, <1>2, <1>3, <1>4, <1>5, <1>6 DEF Runs

LEMMA TimedStep ==
  ASSUME IInv, NEW e \in Executions, Runs(e)
  PROVE  Timed'
<1>. USE DEF IInv, Typed, Timed, Becomes
<1>1. CASE Execute(e)
  BY <1>1, ExecuteDoes
<1>2. CASE Returns(e)
  BY <1>2, ReturnsDoes
<1>3. CASE Dies(e)
  BY <1>3, DiesDoes
<1>4. CASE Puts(e)
  BY <1>4, PutsDoes DEF Puts
<1>5. CASE TimerFires(e)
  BY <1>5, TimerFiresDoes DEF TimerFires
<1>6. CASE Interrupts(e)
  BY <1>6, InterruptsDoes DEF Interrupts
<1>. QED  BY <1>1, <1>2, <1>3, <1>4, <1>5, <1>6 DEF Runs

LEMMA AccountedStep ==
  ASSUME IInv, NEW e \in Executions, Runs(e)
  PROVE  Accounted'
<1>. USE DEF IInv, Typed, Owned, Holds, Timed, Accounted, Becomes
<1>1. CASE Execute(e)
  BY <1>1, ExecuteDoes
<1>2. CASE Returns(e)
  BY <1>2, ReturnsDoes
<1>3. CASE Dies(e)
  <2>1. exec[e].stage = "ran" /\ UNCHANGED <<pool, interrupted, names, late>>
    BY <1>3, DiesDoes
  <2>2. PICK t \in Timers : /\ Becomes(e, "dead", exec[e].vm, FALSE, t, exec[e].result)
                            /\ exec[e].timer = "fired" => t = "fired"
    BY <1>3, DiesDoes
  <2>. QED  BY <2>1, <2>2
<1>4. CASE Puts(e)
  BY <1>4, PutsDoes DEF Puts
<1>5. CASE TimerFires(e)
  BY <1>5, TimerFiresDoes DEF TimerFires
<1>6. CASE Interrupts(e)
  <2>. SUFFICES ASSUME ~late', NEW v \in interrupted'
                PROVE  \E d \in Executions :
                         Holds(d)' /\ exec'[d].vm = v /\ exec'[d].timer = "fired"
    OBVIOUS
  <2>1. /\ ~late /\ exec[e].alive /\ exec[e].timer = "checked"
        /\ interrupted' = interrupted \cup {exec[e].vm}
    BY <1>6 DEF Interrupts
  <2>2. Becomes(e, exec[e].stage, exec[e].vm, exec[e].alive, "fired", exec[e].result)
    BY <1>6, InterruptsDoes
  <2>3. Holds(e)' /\ exec'[e].vm = exec[e].vm /\ exec'[e].timer = "fired"
    BY <2>1, <2>2
  <2>4. CASE v = exec[e].vm
    BY <2>3, <2>4
  <2>5. CASE v \in interrupted
    <3>1. PICK d \in Executions : Holds(d) /\ exec[d].vm = v /\ exec[d].timer = "fired"
      BY <2>1, <2>5
    <3>2. d # e
      BY <2>1, <3>1
    <3>. QED  BY <2>2, <3>1, <3>2
  <2>. QED  BY <2>1, <2>4, <2>5
<1>. QED  BY <1>1, <1>2, <1>3, <1>4, <1>5, <1>6 DEF Runs

LEMMA InterruptsStep ==
  ASSUME IInv, NEW e \in Executions, Runs(e)
  PROVE  InterruptsAreOwn'
<1>. USE DEF IInv, Typed, Timed, InterruptsAreOwn, Becomes
<1>1. CASE Execute(e)
  BY <1>1, ExecuteDoes
<1>2. CASE Returns(e)
  BY <1>2, ReturnsDoes DEF Owned, Holds, Accounted
<1>3. CASE Dies(e)
  BY <1>3, DiesDoes
<1>4. CASE Puts(e)
  BY <1>4, PutsDoes DEF Puts
<1>5. CASE TimerFires(e)
  BY <1>5, TimerFiresDoes DEF TimerFires
<1>6. CASE Interrupts(e)
  BY <1>6, InterruptsDoes DEF Interrupts
<1>. QED  BY <1>1, <1>2, <1>3, <1>4, <1>5, <1>6 DEF Runs

LEMMA Inductive == IInv /\ [Next]_vars => IInv'
<1>. SUFFICES ASSUME IInv, [Next]_vars PROVE IInv'
  OBVIOUS
<1>1. CASE Next
  <2>1. PICK e \in Executions : Runs(e)
    BY <1>1 DEF Next
  <2>. QED
    BY <2>1, TypedStep, OwnedStep, CleanStep, TimedStep, AccountedStep, InterruptsStep DEF IInv
<1>2. CASE UNCHANGED vars
  BY <1>2 DEF vars, IInv, Typed, NamesTyped, Owned, Clean, OfRunning, LeftBy, Timed, Accounted,
             InterruptsAreOwn, Holds
<1>. QED  BY <1>1, <1>2

LEMMA Invariant == Spec => []IInv
BY InitInv, Inductive, PTL DEF Spec

(* What the invariant says of the runtimes.                                *)
LEMMA Sound == IInv => TypeOK /\ NamesAreOwn /\ InterruptsAreOwn
<1>. SUFFICES ASSUME IInv PROVE TypeOK /\ NamesAreOwn /\ InterruptsAreOwn
  OBVIOUS
<1>1. TypeOK
  BY DEF IInv, Typed, Owned, Holds, TypeOK, ExecRecord, Stages, Timers
<1>2. NamesAreOwn
  <2>. SUFFICES ASSUME NEW e \in Executions, exec[e].stage = "running", NEW n \in Names,
                       n \notin Own(e), names[exec[e].vm][n] # {}
                PROVE  \E d \in Executions :
                         /\ names[exec[e].vm][n] = Script(d) /\ n \in DefinesOf[d]
                         /\ exec[d].vm = exec[e].vm /\ exec[d].stage \notin {"idle", "running"}
    BY DEF IInv, Clean, NamesAreOwn
  <2>1. exec[e].vm \in Vms
    BY DEF IInv, Owned, Holds
  <2>2. ~ \E d \in Executions : OfRunning(exec[e].vm, n, d)
    BY DEF IInv, Owned, Holds, OfRunning
  <2>. QED  BY <2>1, <2>2 DEF IInv, Clean, LeftBy
<1>. QED  BY <1>1, <1>2 DEF IInv

(* Every variable keeps its type, and no runtime is in two executions,     *)
(* nor in the pool and in one.                                             *)
THEOREM ScriptTypeCorrect == Spec => []TypeOK
BY Sound, Invariant, PTL

(* A script runs with the values of its own execution and no other's,      *)
(* however many executions the runtime has served, and beside them meets   *)
(* only what the scripts of these have defined.                            *)
THEOREM NamesOwned == Spec => []NamesAreOwn
BY Sound, Invariant, PTL

(* As long as no timer interrupts after the end of its execution, a script *)
(* is interrupted by its own timer only.                                   *)
THEOREM InterruptsOwned == Spec => []InterruptsAreOwn
BY Sound, Invariant, PTL

=============================================================================
