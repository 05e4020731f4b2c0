------------------------------ MODULE ConsoleParts -----------------------------
(***************************************************************************)
(* Parts of the console that share no state with each other, side by side: *)
(* the guard on the box's GPU mode, the ffmpeg pool, the alert scenarios,  *)
(* the test-footage runs and the recovery of recordings.  A behaviour is   *)
(* one of one part: "part" says of which, and the others stay as they      *)
(* begin.  The states are therefore the union, not the product, of those   *)
(* of the parts.  The recovery's variables are x1, ..., x10; what it is    *)
(* given stands in a record of its constants.                              *)
(***************************************************************************)
EXTENDS BoxMode

CONSTANTS Jobs, MaxConcurrent
CONSTANTS Rules, Cooldowns, Requests, Loops, NoPayload, MaxSaves, MaxFaults
CONSTANTS Cams, Runs
CONSTANTS RecoveryGiven

VARIABLES
  part,
  activeCount, queue, job, failures,
  stored, live, worker, task, saves, faults,
  paused, rules, replicas, rolling, pods, run, stranded, mishaps,
  x1, x2, x3, x4, x5, x6, x7, x8, x9, x10

Pool      == INSTANCE FfmpegPool
Scenarios == INSTANCE ScenarioReconcile
Footage   == INSTANCE TestFootage
Recovery  == INSTANCE RecordingRecovery WITH
  state <- x1, everRecorded <- x2, escalation <- x3, phase <- x4, todo <- x5, stalled <- x6,
  rearms <- x7, due <- x8, faults <- x9, past <- x10, Sensors <- RecoveryGiven.Sensors,
  Dead <- RecoveryGiven.Dead, Threshold <- RecoveryGiven.Threshold,
  Cooldown <- RecoveryGiven.Cooldown, MaxAttempts <- RecoveryGiven.MaxAttempts,
  MaxPerCycle <- RecoveryGiven.MaxPerCycle, MinStalled <- RecoveryGiven.MinStalled,
  EscCooldown <- RecoveryGiven.EscCooldown, MaxRestarts <- RecoveryGiven.MaxRestarts,
  MaxFaults <- RecoveryGiven.MaxFaults

box       == vars
pool      == <<activeCount, queue, job, failures>>
scenarios == <<stored, live, worker, task, saves, faults>>
footage   == <<paused, rules, replicas, rolling, pods, run, stranded, mishaps>>
recording == <<x1, x2, x3, x4, x5, x6, x7, x8, x9, x10>>
all       == <<part, box, pool, scenarios, footage, recording>>
Parts     == {"box", "pool", "scenarios", "footage", "recovery"}

(* A part that stays as it is begins in one state.                         *)
Somewhere == CHOOSE p \in Scenarios!Payloads : p.stamp = 0

PartsInit ==
  /\ part \in Parts
  /\ Init /\ (part # "box" => mode = "vss")
  /\ Scenarios!Init /\ (part # "scenarios" => stored = Somewhere)
  /\ Pool!Init /\ Footage!Init
  /\ \/ part = "recovery" /\ Recovery!Init
     \/ /\ part # "recovery"
        /\ x1 = 0 /\ x2 = 0 /\ x3 = 0 /\ x4 = 0 /\ x5 = 0
        /\ x6 = 0 /\ x7 = 0 /\ x8 = 0 /\ x9 = 0 /\ x10 = 0

PartsNext ==
  /\ UNCHANGED part
  /\ \/ part = "box" /\ Next /\ UNCHANGED <<pool, scenarios, footage, recording>>
     \/ part = "pool" /\ Pool!Next /\ UNCHANGED <<box, scenarios, footage, recording>>
     \/ part = "scenarios" /\ Scenarios!Next /\ UNCHANGED <<box, pool, footage, recording>>
     \/ part = "footage" /\ Footage!Next /\ UNCHANGED <<box, pool, scenarios, recording>>
     \/ part = "recovery" /\ Recovery!Next /\ UNCHANGED <<box, pool, scenarios, footage>>

PartsSpec == PartsInit /\ [][PartsNext]_all

(* Each part's fairness, in the behaviours that are its own.               *)
Own(p) == part = p

BoxFairness ==
  /\ WF_box(Own("box") /\ Tick)
  /\ WF_box(Own("box") /\ ReadFails /\ reading.age = ReadTimeout)
  /\ \A w \in Writers : WF_box(Own("box") /\ Take(w))
PoolFairness ==
  \A j \in Jobs : /\ WF_pool(Own("pool") /\ Pool!Start(j))
                  /\ WF_pool(Own("pool") /\ Pool!Close(j))
ScenarioFairness ==
  /\ \A a \in Scenarios!Actors : WF_scenarios(Own("scenarios") /\ Scenarios!Proceed(a))
  /\ \A l \in Loops : WF_scenarios(Own("scenarios") /\ Scenarios!BeginPass(l))
FootageFairness ==
  /\ \A r \in Runs : WF_footage(Own("footage") /\ Footage!Proceed(r))
  /\ WF_footage(Own("footage") /\ Footage!StartPod)
  /\ WF_footage(Own("footage") /\ Footage!ScaleDown)
  /\ WF_footage(Own("footage") /\ \E p \in pods : Footage!PodEnds(p))
  /\ WF_footage(Own("footage") /\ \E p \in Footage!Current : Footage!Refresh(p))
  /\ WF_footage(Own("footage") /\ \E p \in Footage!Current : Footage!SeedRules(p))

(* The interval timer fires and a pass runs to its end.                    *)
RecoveryFairness ==
  /\ WF_recording(Own("recovery") /\ Recovery!Tick)
  /\ WF_recording(Own("recovery") /\ Recovery!Pass)
FairPartsSpec == /\ PartsSpec /\ BoxFairness /\ PoolFairness /\ ScenarioFairness
                 /\ FootageFairness /\ RecoveryFairness

--------------------------------------------------------------------------------
(* The types of all parts.                                                 *)
PartsTypeOK == TypeOK /\ Pool!TypeOK /\ Scenarios!TypeOK /\ Footage!TypeOK

(* ffmpeg.ts: no place is free while a job waits, processes beyond the     *)
(* limit come of failed spawns only, and who waits gets a place.           *)
NoIdlePlace      == Pool!NoIdlePlace
OverrunIsBounded == Pool!OverrunIsBounded
QueuedRuns       == Pool!QueuedRuns

(* scenarios.ts and the two routes beside it: the stored list goes live in *)
(* the end, and the restarts of the alert worker end.                      *)
StoredGoesLive == Own("scenarios") => Scenarios!StoredGoesLive
RestartsSettle == Scenarios!RestartsSettle

(* test-footage-run.ts: an undisturbed run has the GPU to itself, and when *)
(* all is stopped, the reconciler being up, the live cameras come back.    *)
QuietRun    == Footage!QuietRun
StopResumes == Footage!StopResumes

(* recording-recovery.ts: a sensor that never records is tried to the cap  *)
(* and ends up degraded.                                                   *)
DeadSensorsDegrade == \A s \in RecoveryGiven.Dead : <>[](Own("recovery") => x1[s].degraded)
================================================================================
