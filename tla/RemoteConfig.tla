---------------------------- MODULE RemoteConfig ----------------------------
(***************************************************************************)
(* Package config: the remote configuration and its overrides from the     *)
(* environment (config_holder.go, utils.go).  A configuration is a         *)
(* function from keys to values, the flattened form of the code's trees.   *)
(***************************************************************************)
EXTENDS Naturals, Sequences

CONSTANTS
  Lower(_),      \* the lower case form of a key
  Remotes,       \* configurations that may be received
  Environments,  \* sequences of variables with the prefix: its name behind the
                 \* prefix, and the value, split at every "="
  MaxRemotes     \* bound: configurations received

(* What is assumed of the constants: variables come in a sequence. *)
RemoteAssumption == \A e \in Environments : Len(e) \in Nat /\ DOMAIN e = 1..Len(e)

VARIABLES
  env, received, remotes,
  remoteConfigInstance \* what GetRemote returns

vars == <<env, received, remotes, remoteConfigInstance>>

\* "bad" is refused by the validator, "broken" cannot be decoded.
Sound(content) == \A k \in DOMAIN content : content[k] \notin {"bad", "broken"}

(* The received keys are lower-cased, in the order of a map if they are    *)
(* the same then; an override names a key, not a part of the tree.         *)
Overridden(src, overrides) ==
  [k \in DOMAIN src \cup DOMAIN overrides |->
     IF k \in DOMAIN overrides THEN overrides[k] ELSE src[k]]

LowerCased(src) ==
  LET lower == {Lower(k) : k \in DOMAIN src}
  IN  {f \in [lower -> {src[k] : k \in DOMAIN src}] :
         \A l \in lower : \E k \in DOMAIN src : Lower(k) = l /\ f[l] = src[k]}

(* os.Environ keeps an order, and the last of the variables whose names    *)
(* are the same in lower case wins; of a value with an "=" in it only what *)
(* is before that is taken.                                                *)
getEnvOverrides ==
  LET Key(i) == Lower(env[i].name)
      last == {i \in DOMAIN env : \A j \in DOMAIN env : i < j => Key(j) # Key(i)}
      Of(k) == CHOOSE i \in last : Key(i) = k
  IN  [k \in {Key(i) : i \in last} |-> env[Of(k)].parts[1]]

castString(value) == value # "uncastable"

(* Without overrides the keys stay as they are, and the decoder finds the  *)
(* field of a key in any case; an override whose value castString refuses  *)
(* fails.                                                                  *)
overrideConfigurationFromEnv(src) ==
  LET overrides == getEnvOverrides
  IN  IF \E k \in DOMAIN overrides : ~castString(overrides[k]) THEN {}
      ELSE {Overridden(f, overrides) : f \in LowerCased(src)}

(* PrepareRemoteConfig and InitRemoteConfig: an error leaves what is live. *)
InitRemoteConfig ==
  /\ remotes < MaxRemotes
  /\ remotes' = remotes + 1
  /\ \E src \in Remotes :
       LET results == {f \in overrideConfigurationFromEnv(src) : Sound(f)}
       IN  IF results = {} THEN UNCHANGED <<received, remoteConfigInstance>>
           ELSE received' = src /\ remoteConfigInstance' \in results
  /\ UNCHANGED env

-----------------------------------------------------------------------------

Init ==
  /\ env \in Environments
  /\ received = <<>> /\ remotes = 0 /\ remoteConfigInstance = <<>>

Next == InitRemoteConfig

Spec == Init /\ [][Next]_vars

(* The live remote configuration has the values of the environment up to  *)
(* the first "=" in them, of variables that differ in case only the last;  *)
(* for every other key it has the value that was received with it, and it  *)
(* loses no key.                                                           *)
Names(i, l) == i \in DOMAIN env /\ Lower(env[i].name) = l

OverridesWin ==
  remoteConfigInstance # <<>> =>
    /\ \A k \in DOMAIN received : Lower(k) \in DOMAIN remoteConfigInstance
    /\ \A i \in DOMAIN env : Lower(env[i].name) \in DOMAIN remoteConfigInstance
    /\ \A l \in DOMAIN remoteConfigInstance :
         \/ \E i \in DOMAIN env :
              /\ Names(i, l) /\ \A j \in DOMAIN env : Names(j, l) => j <= i
              /\ remoteConfigInstance[l] = env[i].parts[1]
         \/ /\ \A i \in DOMAIN env : ~Names(i, l)
            /\ \E k \in DOMAIN received : Lower(k) = l /\ received[k] = remoteConfigInstance[l]

=============================================================================
