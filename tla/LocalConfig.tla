----------------------------- MODULE LocalConfig -----------------------------
(***************************************************************************)
(* Package config: the configuration of the process, loaded by             *)
(* InitConfigV2 and reloaded by the goroutine that watches the file and by *)
(* the one that waits for SIGHUP (config_holder.go).  The three run at the *)
(* same time: module_runner.go starts the two before it initializes.  A    *)
(* configuration is an object on the heap; its content, and that of the    *)
(* file, is a function from keys to values.  The callback has the right    *)
(* type and does not panic.                                                *)
(***************************************************************************)
EXTENDS Naturals, Sequences, FiniteSets, TLC

CONSTANTS
  Keys,
  Required,      \* the keys a validator demands
  Files,         \* contents the file may have, from some of the keys and others
  MaxEdits,      \* bound: edits of the file
  MaxSignals     \* bound: SIGHUPs

VARIABLES
  file,
  parsed,        \* what viper has read last, of one variable for all loaders
  heap,          \* the configuration objects
  configInstance, \* the object Get returns, 0 for none
  callOnChangeHandler, \* the argument of InitConfigV2
  fatal,         \* InitConfigV2 has ended the process
  watching,      \* OnConfigChange was called
  event,         \* a change of the file the watcher has not taken
  load,          \* how far each loader is
  called,        \* the last call of the callback
  edits, signals,
  missed         \* why nobody applies the last edit, if so

vars == <<file, parsed, heap, configInstance, callOnChangeHandler, fatal, watching, event, load,
          called, edits, signals, missed>>

Absent == "absent"
\* "bad" is refused by the validator, "broken" cannot be decoded.
Sound(content) == \A k \in DOMAIN content \cap Keys : content[k] \notin {"bad", "broken"}

validateConfig(content) ==
  /\ \A k \in Required : content[k] # Absent
  /\ \A k \in Keys : content[k] # "bad"

Decodes(f) == \A k \in DOMAIN f \cap Keys : f[k] # "broken"

(* A key the file no longer has keeps the value of the object; one the     *)
(* object has no field for is not looked at.                               *)
Decoded(f, content) == [k \in Keys |-> IF k \in DOMAIN f THEN f[k] ELSE content[k]]

Zero == [k \in Keys |-> Absent]
Loaders == {"init", "watcher", "signal"}
Idle == [stage |-> "idle", read |-> <<>>, old |-> 0, new |-> 0]
Begun(old, new) == [Idle EXCEPT !.stage = "begun", !.old = old, !.new = new]
NotCalled == [new |-> 0, old |-> 0, last |-> 0]

-----------------------------------------------------------------------------
(* OnConfigChange, and the start of a reload                               *)

quiet == ~fatal /\ UNCHANGED <<file, callOnChangeHandler, watching, edits>>

OnConfigChange ==
  /\ ~fatal /\ ~watching
  /\ watching' = TRUE
  /\ UNCHANGED <<file, parsed, heap, configInstance, callOnChangeHandler, fatal, event, load,
                 called, edits, signals, missed>>

\* Variant: the configuration is decoded into the live object.
CopiesNothing(r) ==
  /\ load' = [load EXCEPT ![r] = Begun(configInstance, configInstance)]
  /\ UNCHANGED heap

(* A copy of the live configuration; before InitConfigV2 has stored one    *)
(* the copy is nil.                                                        *)
CopiesOld(r) ==
  IF configInstance = 0 THEN load' = [load EXCEPT ![r] = Begun(0, 0)] /\ UNCHANGED heap
  ELSE /\ heap' = Append(heap, heap[configInstance])
       /\ load' = [load EXCEPT ![r] = Begun(configInstance, Len(heap) + 1)]

Starts(r) ==
  /\ watching /\ load[r].stage = "idle"
  /\ CopiesOld(r)
  /\ UNCHANGED <<parsed, configInstance, called, fatal, missed>> /\ quiet

(* viper calls back after an event; SIGHUP reaches only a receiver that    *)
(* waits, since the channel has no buffer.                                 *)
WatcherStarts == event /\ event' = FALSE /\ Starts("watcher") /\ UNCHANGED signals
SignalStarts ==
  /\ signals < MaxSignals /\ signals' = signals + 1
  /\ Starts("signal") /\ UNCHANGED event

-----------------------------------------------------------------------------
(* InitConfigV2, which begins with an object of the program's, and         *)
(* reloadConfig, step for step                                             *)

Goes(r, at, new) ==
  /\ load[r].stage = at
  /\ load' = [load EXCEPT ![r] = new]
  /\ UNCHANGED <<event, signals>> /\ quiet

(* An error is logged, but ends the process that has no configuration yet. *)
Fails(r) == Goes(r, load[r].stage, Idle) /\ fatal' = (r = "init")

\* Variant: the file is read once, and then what viper has is taken.
ReadsOnce(r) ==
  /\ Goes(r, "begun", [load[r] EXCEPT !.stage = "read",
                                      !.read = IF parsed = <<>> THEN file ELSE parsed])
  /\ UNCHANGED <<parsed, heap, configInstance, called, fatal, missed>>

(* readLocalConfig: viper reads the file                                   *)
ReadsFile(r) ==
  /\ Goes(r, "begun", [load[r] EXCEPT !.stage = "read", !.read = file])
  /\ UNCHANGED <<parsed, heap, configInstance, called, fatal, missed>>

(* into a variable of its own, which all loaders share,                    *)
Parses(r) ==
  /\ Goes(r, "read", [load[r] EXCEPT !.stage = "parsed", !.read = <<>>])
  /\ parsed' = load[r].read
  /\ UNCHANGED <<heap, configInstance, called, fatal, missed>>

(* and decodes that variable into the object; nothing is decoded into nil. *)
DecodesParsed(r) ==
  LET new == load[r].new IN
  /\ load[r].stage = "parsed"
  /\ IF new # 0 /\ Decodes(parsed)
     THEN /\ heap' = [heap EXCEPT ![new] = Decoded(parsed, heap[new])]
          /\ Goes(r, "parsed", [load[r] EXCEPT !.stage = "decoded"]) /\ UNCHANGED <<fatal, missed>>
     ELSE /\ Fails(r) /\ UNCHANGED heap
          /\ missed' = IF new = 0 /\ ~event /\ load["init"].stage # "begun" THEN "early" ELSE missed
  /\ UNCHANGED <<parsed, configInstance, called>>

(* A valid object replaces the live one; only InitConfigV2 may leave the   *)
(* callback out.                                                           *)
Stores(r) ==
  /\ load[r].stage = "decoded"
  /\ IF validateConfig(heap[load[r].new])
     THEN /\ configInstance' = load[r].new /\ UNCHANGED fatal
          /\ Goes(r, "decoded", IF r = "init" /\ ~callOnChangeHandler THEN Idle
                                ELSE [load[r] EXCEPT !.stage = "stored"])
     ELSE Fails(r) /\ UNCHANGED configInstance
  /\ UNCHANGED <<parsed, heap, called, missed>>

(* There may be no callback yet; without an old configuration it gets the  *)
(* new one twice.                                                          *)
handleConfigChange(r) ==
  LET new == load[r].new
      old == load[r].old
  IN  /\ Goes(r, "stored", Idle)
      /\ called' = IF watching THEN [new |-> new, old |-> IF old = 0 THEN new ELSE old,
                                     last |-> called.new]
                   ELSE called
      /\ UNCHANGED <<parsed, heap, configInstance, fatal, missed>>

Loads(r) ==
  ReadsFile(r) \/ Parses(r) \/ DecodesParsed(r) \/ Stores(r) \/ handleConfigChange(r)

(* The file is written; viper gets an event once it watches.               *)
Edit ==
  /\ edits < MaxEdits /\ ~fatal
  /\ file' \in Files \ {file}
  /\ edits' = edits + 1
  /\ event' = watching
  /\ missed' = IF ~watching /\ load["init"].stage # "begun" THEN "unwatched" ELSE "no"
  /\ UNCHANGED <<parsed, heap, configInstance, callOnChangeHandler, fatal, watching, load, called,
                 signals>>

-----------------------------------------------------------------------------

Init ==
  /\ file \in Files /\ parsed = <<>>
  /\ heap = <<Zero>> /\ configInstance = 0
  /\ callOnChangeHandler \in BOOLEAN /\ fatal = FALSE
  /\ watching = FALSE /\ event = FALSE
  /\ load = [r \in Loaders |-> IF r = "init" THEN Begun(0, 1) ELSE Idle]
  /\ called = NotCalled
  /\ edits = 0 /\ signals = 0 /\ missed = "no"

Next ==
  \/ OnConfigChange \/ Edit
  \/ WatcherStarts \/ SignalStarts
  \/ \E r \in Loaders : Loads(r)

(* The program's call of InitConfigV2 and the goroutines run.              *)
Fairness ==
  /\ WF_vars(WatcherStarts)
  /\ \A r \in Loaders : WF_vars(Loads(r))

Spec == Init /\ [][Next]_vars
FairSpec == Spec /\ Fairness

-----------------------------------------------------------------------------
(* Properties.                                                             *)

TypeOK ==
  /\ file \in Files /\ parsed \in Files \cup {<<>>}
  /\ \A i \in DOMAIN heap : DOMAIN heap[i] = Keys
  /\ configInstance \in 0..Len(heap)
  /\ \A r \in Loaders : {load[r].old, load[r].new} \subseteq 0..Len(heap)

(* Whatever is written to the file and however the loaders interleave,     *)
(* what Get returns is valid.                                              *)
LiveIsValid == configInstance # 0 => validateConfig(heap[configInstance])

(* As long as no SIGHUP arrives the callback's old configuration is the    *)
(* one it got as new the last time, and at first that of InitConfigV2.     *)
(* With callOnChangeHandler this does not hold: a reload may come between  *)
(* the Store of InitConfigV2 and its call of the callback.                 *)
CallbacksChain ==
  signals = 0 /\ ~callOnChangeHandler /\ called # NotCalled =>
    called.old = IF called.last = 0 THEN 1 ELSE called.last

(* As long as no SIGHUP arrives the last sound edit of the file becomes    *)
(* live, unless it came after InitConfigV2 has read the file and before    *)
(* OnConfigChange, or its reload found no configuration to copy yet.       *)
Agrees == \A k \in DOMAIN file \cap Keys : heap[configInstance][k] = file[k]
NewestApplied ==
  <>[](signals = 0 /\ missed = "no" /\ configInstance # 0 /\ Sound(file) => Agrees)

(* "Callback call [...] after every config files changing": a sound change *)
(* after OnConfigChange is not lost.                                       *)
ChangesApplied ==
  <>[](signals = 0 /\ missed # "unwatched" /\ configInstance # 0 /\ Sound(file) => Agrees)

=============================================================================
