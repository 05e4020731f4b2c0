-------------------------------- MODULE KvRace -------------------------------
(***************************************************************************)
(* The race of the KV-cache page (runKvRace, lib/kvcache.ts) sends one     *)
(* long prompt twice to a model whose blocks are offloaded to a bucket:    *)
(* cold, when nobody has sent it before, and warm, after a pause in which  *)
(* the blocks get there.  Every request for a race runs one of its own;    *)
(* the model serves them all.                                              *)
(*                                                                         *)
(* A prompt is known by its nonce, and its blocks are one object.          *)
(***************************************************************************)
EXTENDS Integers, FiniteSets

CONSTANTS
  Races,     \* races that may be run
  Pause,     \* WARM_PAUSE_MS, in ticks
  Offload,   \* ticks the model takes to offload, less than the pause
  MaxFaults  \* bound: calls that fail and objects that expire

VARIABLES
  model,  \* [served: prompt -> ticks since, -1 for none, bucket: what is offloaded]
  race,   \* race -> [step, nonce, waited, before, after, cold, warm, blind]: cold and warm
          \*  say whether the blocks were there; blind, that a count failed or an object
          \*  expired, is no state of the code
  faults

vars == <<model, race, faults>>

Waiting == [step |-> "idle", nonce |-> 0, waited |-> 0, before |-> 0, after |-> 0,
            cold |-> "none", warm |-> "none", blind |-> FALSE]
Prompts == Races \union {0}
Fault == faults < MaxFaults /\ faults' = faults + 1

--------------------------------------------------------------------------------
Init ==
  /\ model = [served |-> [p \in Prompts |-> -1], bucket |-> {0}]
  /\ race  = [r \in Races |-> Waiting]
  /\ faults = 0

(* The model and the bucket, as lib/kvcache.ts takes them to be.           *)
Land(p) ==
  /\ model.served[p] # -1 /\ p \notin model.bucket
  /\ model' = [model EXCEPT !.bucket = @ \union {p}]
  /\ UNCHANGED <<race, faults>>
Expire(p) ==
  /\ p \in model.bucket /\ Fault
  /\ model' = [served |-> [model.served EXCEPT ![p] = -1], bucket |-> model.bucket \ {p}]
  /\ race' = [r \in Races |-> [race[r] EXCEPT !.blind = TRUE]]
Tick ==
  /\ \A p \in Prompts : model.served[p] = Offload => p \in model.bucket
  /\ model' = [model EXCEPT !.served = [p \in Prompts |-> IF @[p] \in 0 .. Offload - 1 THEN @[p] + 1 ELSE @[p]]]
  /\ race' = [r \in Races |-> IF race[r].step = "pause" /\ race[r].waited < Pause
                              THEN [race[r] EXCEPT !.waited = @ + 1] ELSE race[r]]
  /\ UNCHANGED faults

--------------------------------------------------------------------------------
(* runKvRace, one step per call; a call that fails ends it with an error,  *)
(* a count that fails is zero.                                             *)
Answered(p) == model' = [model EXCEPT !.served[p] = IF p \in model.bucket \/ @ # -1 THEN @ ELSE 0]
There(p)    == IF p \in model.bucket \/ model.served[p] # -1 THEN "hit" ELSE "miss"
Objects     == Cardinality(model.bucket)

OneNonce(r) == \* (variant) every race sends the same prompt
  0
Nonce(r) == r
AtOnce(r) == \* (variant) no pause
  TRUE
Rested(r) == race[r].waited >= Pause

Begin(r) == \* the model is healthy, and the warm-up shares nothing with the prompt
  /\ race[r].step = "idle"
  /\ race' = [race EXCEPT ![r] = [Waiting EXCEPT !.step = "before", !.nonce = Nonce(r)]]
  /\ UNCHANGED <<model, faults>>
CountBefore(r) ==
  /\ race[r].step = "before"
  /\ \/ race' = [race EXCEPT ![r].step = "cold", ![r].before = Objects] /\ UNCHANGED faults
     \/ race' = [race EXCEPT ![r].step = "cold", ![r].before = 0, ![r].blind = TRUE] /\ Fault
  /\ UNCHANGED model
Cold(r) ==
  /\ race[r].step = "cold"
  /\ race' = [race EXCEPT ![r].step = "pause", ![r].cold = There(race[r].nonce)]
  /\ Answered(race[r].nonce)
  /\ UNCHANGED faults
CountAfter(r) ==
  /\ race[r].step = "pause" /\ Rested(r)
  /\ \/ race' = [race EXCEPT ![r].step = "warm", ![r].after = Objects] /\ UNCHANGED faults
     \/ race' = [race EXCEPT ![r].step = "warm", ![r].after = 0, ![r].blind = TRUE] /\ Fault
  /\ UNCHANGED model
Warm(r) ==
  /\ race[r].step = "warm"
  /\ race' = [race EXCEPT ![r].step = "done",
                          ![r].warm = IF race[r].nonce \in model.bucket THEN "hit" ELSE "miss"]
  /\ Answered(race[r].nonce)
  /\ UNCHANGED faults
Fails(r) ==
  /\ race[r].step \in {"idle", "cold", "warm"} /\ Fault
  /\ race' = [race EXCEPT ![r].step = "failed"]
  /\ UNCHANGED model

Next ==
  \/ \E p \in Prompts : Land(p) \/ Expire(p)
  \/ \E r \in Races : \/ Begin(r) \/ CountBefore(r) \/ Cold(r) \/ CountAfter(r)
                      \/ Warm(r) \/ Fails(r)
  \/ Tick
Spec == Init /\ [][Next]_vars

--------------------------------------------------------------------------------
TypeOK ==
  /\ \A p \in Prompts : model.served[p] \in -1 .. Offload
  /\ \A r \in Races : /\ race[r].step \in {"idle", "before", "cold", "pause", "warm", "done", "failed"}
                      /\ race[r].waited \in 0 .. Pause
                      /\ race[r].before \in 0 .. Cardinality(Prompts)
                      /\ race[r].after \in 0 .. Cardinality(Prompts)
  /\ faults \in 0 .. MaxFaults

(* Whatever races run beside it, the first answer of a race is a miss, and *)
(* its second comes from the bucket unless an object expired: the figures  *)
(* compare what they say they compare (runKvRace).                         *)
RaceIsFair ==
  \A r \in Races : /\ race[r].cold # "hit"
                   /\ race[r].step = "done" /\ ~race[r].blind => race[r].warm = "hit"

(* The bucket's count grows over a race by at least the race's own blocks, *)
(* if both counts were answered and nothing expired (runKvRace).           *)
GrowthIsSeen ==
  \A r \in Races : race[r].step \in {"warm", "done"} /\ ~race[r].blind => race[r].after > race[r].before
================================================================================
