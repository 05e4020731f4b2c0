--------------------------- MODULE RecordingRecovery ---------------------------
(***************************************************************************)
(* The guarded auto-heal of reconcile/recording-recovery.ts: after each    *)
(* reconcile pass the agent probes every live sensor, re-arms (deletes and *)
(* registers anew) one that has not recorded for longer than a threshold,  *)
(* and restarts the whole recorder when several that used to record are    *)
(* stalled at once.  Its memory is the process's: the passes of one        *)
(* process never overlap, and a restart of the pod forgets everything.     *)
(*                                                                         *)
(* Time is counted in reconcile intervals.  Only ages are compared with    *)
(* limits, so the model keeps ages, capped just above their limit; a       *)
(* timestamp that is undefined passes the same tests as an age above its   *)
(* limit and is represented by it.                                         *)
(***************************************************************************)
EXTENDS Naturals, FiniteSets

CONSTANTS
  Sensors,      \* names of the sensors VST can list
  Dead,         \* sensors always listed, with a URL, and never recording
  Threshold,    \* stallThresholdMs
  Cooldown,     \* rearmCooldownMs
  MaxAttempts,  \* rearmMaxAttempts
  MaxPerCycle,  \* rearmMaxPerCycle
  MinStalled,   \* escalateMinStalled
  EscCooldown,  \* escalateCooldownMs
  MaxRestarts,  \* escalateMaxRestarts
  MaxFaults     \* bound: pod restarts, failed listings, unknown probes of Dead

ASSUME ConstantsAssumption ==
  /\ Dead \subseteq Sensors /\ IsFiniteSet(Sensors)
  /\ Threshold \in Nat /\ Cooldown \in Nat /\ EscCooldown \in Nat
  /\ MaxAttempts \in Nat \ {0} /\ MaxPerCycle \in Nat \ {0}
  /\ MinStalled \in Nat \ {0} /\ MaxRestarts \in Nat /\ MaxFaults \in Nat

VARIABLES
  state,         \* per sensor: ages of the stall and the last re-arm, attempts
  everRecorded,  \* sensors that have ever probed recording
  escalation,    \* [last, restarts]
  phase,         \* "idle", "probing"
  todo,          \* sensors this pass has still to probe
  stalled,       \* stalledRecoverable of this pass
  rearms,        \* rearmsThisCycle
  due,           \* whether the interval has fired since the last pass
  faults,        \* faults so far
  past           \* history: what was done since when (see Past)

vars == <<state, everRecorded, escalation, phase, todo, stalled, rearms, due, faults, past>>

Age(limit)       == 0 .. limit + 1
Elapsed(limit)   == limit + 1
Older(x, limit)  == IF x > limit THEN x ELSE x + 1
SmallerOf(m, n)  == IF m < n THEN m ELSE n
GapLimit         == SmallerOf(Threshold, Cooldown)

(* A sensor's entry of the module's Map, and what stands for none.         *)
States == [since : Age(Threshold), last : Age(Cooldown),
           attempts : 0 .. MaxAttempts, degraded : BOOLEAN, seen : BOOLEAN]
Unseen == [since |-> 0, last |-> Elapsed(Cooldown), attempts |-> 0, degraded |-> FALSE,
           seen |-> FALSE]

(* The history: per sensor the re-arms since it last recorded and the age  *)
(* of the last; the restarts since a sensor last recorded, and the age of  *)
(* the last.  One more than a limit stands for everything above it.        *)
Past == [tries : [Sensors -> 0 .. MaxAttempts + 1], gap : [Sensors -> Age(GapLimit)],
         restarts : 0 .. MaxRestarts + 1, escGap : Age(EscCooldown)]
NoPast == [tries |-> [s \in Sensors |-> 0], gap |-> [s \in Sensors |-> Elapsed(GapLimit)],
           restarts |-> 0, escGap |-> Elapsed(EscCooldown)]

(* Every variable keeps the type of what it models.                        *)
TypeOK ==
  /\ state \in [Sensors -> States]
  /\ everRecorded \subseteq Sensors
  /\ escalation \in [last : Age(EscCooldown), restarts : 0 .. MaxRestarts]
  /\ phase \in {"idle", "probing"}
  /\ todo \subseteq Sensors /\ stalled \subseteq Sensors
  /\ rearms \in 0 .. MaxPerCycle
  /\ due \in BOOLEAN
  /\ faults \in 0 .. MaxFaults
  /\ past \in Past

Fresh == /\ state = [s \in Sensors |-> Unseen]
         /\ everRecorded = {}
         /\ escalation = [last |-> Elapsed(EscCooldown), restarts |-> 0]
         /\ phase = "idle" /\ todo = {} /\ stalled = {} /\ rearms = 0 /\ due = TRUE
         /\ past = NoPast

Init == Fresh /\ faults = 0

--------------------------------------------------------------------------------

(* One interval goes by, during a pass or between passes.                  *)
Tick ==
  /\ due' = TRUE
  /\ state' = [s \in Sensors |-> IF state[s].seen
                 THEN [state[s] EXCEPT !.since = Older(@, Threshold), !.last = Older(@, Cooldown)]
                 ELSE state[s]]
  /\ escalation' = [escalation EXCEPT !.last = Older(@, EscCooldown)]
  /\ past' = [past EXCEPT !.gap = [s \in Sensors |-> Older(past.gap[s], GapLimit)],
                          !.escGap = Older(@, EscCooldown)]
  /\ UNCHANGED <<everRecorded, phase, todo, stalled, rearms, faults>>

(* The pod restarts: the module's state is gone.                           *)
PodRestart ==
  /\ faults < MaxFaults
  /\ faults' = faults + 1
  /\ state' = [s \in Sensors |-> Unseen]
  /\ everRecorded' = {}
  /\ escalation' = [last |-> Elapsed(EscCooldown), restarts |-> 0]
  /\ phase' = "idle" /\ todo' = {} /\ stalled' = {} /\ rearms' = 0 /\ due' = TRUE
  /\ past' = NoPast

BeginCounting(listed) == \* (variant) the count of re-arms outlives the pass
  /\ phase = "idle" /\ due
  /\ phase' = "probing"
  /\ todo' = listed
  /\ stalled' = {} /\ rearms' = MaxPerCycle /\ due' = FALSE
  /\ UNCHANGED <<state, everRecorded, escalation, past>>

(* A pass over the sensors listed as online, and over those listed as      *)
(* offline whose source answers.  A listing that failed is an empty one:   *)
(* the caller takes its sensors and not its warning.                       *)
Begin(listed) ==
  /\ phase = "idle" /\ due
  /\ phase' = "probing"
  /\ todo' = listed
  /\ stalled' = {} /\ rearms' = 0 /\ due' = FALSE
  /\ UNCHANGED <<state, everRecorded, escalation, past>>

BeginPass ==
  \/ \E listed \in SUBSET Sensors : Dead \subseteq listed /\ Begin(listed) /\ UNCHANGED faults
  \/ faults < MaxFaults /\ faults' = faults + 1 /\ Begin({})

Probed(s) == /\ phase = "probing" /\ s \in todo
             /\ todo' = todo \ {s}
             /\ UNCHANGED <<escalation, phase, due>>

SeesRecording(s) ==
  /\ Probed(s) /\ s \notin Dead
  /\ everRecorded' = everRecorded \union {s}
  /\ state' = [state EXCEPT ![s] = Unseen]
  /\ past' = [past EXCEPT !.tries[s] = 0, !.restarts = 0]
  /\ UNCHANGED <<stalled, rearms, faults>>

UnknownForgets(s) ==     \* (variant) an unknown probe drops the entry
  /\ Probed(s)
  /\ IF s \in Dead THEN faults < MaxFaults /\ faults' = faults + 1 ELSE UNCHANGED faults
  /\ state' = [state EXCEPT ![s] = Unseen]
  /\ UNCHANGED <<everRecorded, stalled, rearms, past>>

(* An unknown probe leaves the stall timer and the attempts alone.         *)
SeesUnknown(s) ==
  /\ Probed(s)
  /\ IF s \in Dead THEN faults < MaxFaults /\ faults' = faults + 1 ELSE UNCHANGED faults
  /\ UNCHANGED <<state, everRecorded, stalled, rearms, past>>

(* A sensor that is not recording: its entry, created now if it has none,  *)
(* and what the pass may do about it.                                      *)
Now(s)  == [state[s] EXCEPT !.seen = TRUE]
PastThreshold(s) == state[s].seen /\ state[s].since > Threshold
MayRearmSoon(s) ==       \* (variant) no cooldown
  PastThreshold(s) /\ rearms < MaxPerCycle
MayRearmAll(s) ==        \* (variant) no cap per pass
  PastThreshold(s) /\ state[s].last > Cooldown
MayRearm(s) == /\ PastThreshold(s)
               /\ state[s].last > Cooldown
               /\ rearms < MaxPerCycle

(* Enough to count for the escalation, whatever is done about it below.    *)
Counted(s) == stalled' = IF PastThreshold(s) /\ s \in everRecorded THEN stalled \union {s} ELSE stalled

GivesUpEarly(s) ==       \* (variant) counts the attempt to come
  /\ Probed(s) /\ state[s].attempts + 1 >= MaxAttempts
  /\ state' = [state EXCEPT ![s] = [Now(s) EXCEPT !.degraded = TRUE]]
  /\ Counted(s)
  /\ UNCHANGED <<everRecorded, rearms, faults, past>>

GivesUp(s) ==
  /\ Probed(s) /\ state[s].attempts >= MaxAttempts
  /\ state' = [state EXCEPT ![s] = [Now(s) EXCEPT !.degraded = TRUE]]
  /\ Counted(s)
  /\ UNCHANGED <<everRecorded, rearms, faults, past>>

Waits(s) ==
  /\ Probed(s) /\ state[s].attempts < MaxAttempts
  /\ MayRearm(s) => s \notin Dead          \* no rtspUrl in the desired cameras
  /\ state' = [state EXCEPT ![s] = Now(s)]
  /\ Counted(s)
  /\ UNCHANGED <<everRecorded, rearms, faults, past>>

Tried(s) == /\ rearms' = rearms + 1
            /\ past' = [past EXCEPT !.gap[s] = 0,
                          !.tries[s] = IF @ > MaxAttempts THEN @ ELSE @ + 1]

(* The attempt counts before its outcome is known.                         *)
Rearm(s) ==
  /\ Probed(s) /\ state[s].attempts < MaxAttempts /\ MayRearm(s)
  /\ state' = [state EXCEPT ![s] = [Now(s) EXCEPT !.last = 0, !.attempts = @ + 1]]
  /\ Tried(s)
  /\ Counted(s)
  /\ UNCHANGED <<everRecorded, faults>>

(* The end of a pass: with enough recorders stalled, restart the recorder; *)
(* with none, forget the restarts made.                                    *)
MayEscalate == /\ Cardinality(stalled) >= MinStalled
               /\ escalation.last > EscCooldown
               /\ escalation.restarts < MaxRestarts

EndPass ==
  /\ phase = "probing" /\ todo = {}
  /\ phase' = "idle"
  /\ \/ /\ MayEscalate
        /\ escalation' = [last |-> 0, restarts |-> escalation.restarts + 1]
        /\ past' = [past EXCEPT !.escGap = 0,
                      !.restarts = IF @ > MaxRestarts THEN @ ELSE @ + 1]
     \/ /\ stalled = {}
        /\ escalation' = [last |-> Elapsed(EscCooldown), restarts |-> 0]
        /\ UNCHANGED past
     \/ /\ stalled # {}           \* not allowed, or the restart threw
        /\ UNCHANGED <<escalation, past>>
  /\ stalled' = {} /\ rearms' = 0
  /\ UNCHANGED <<state, everRecorded, todo, due, faults>>

Pass == \/ BeginPass \/ EndPass
        \/ \E s \in Sensors : \/ SeesRecording(s) \/ SeesUnknown(s)
                              \/ GivesUp(s) \/ Waits(s) \/ Rearm(s)

Next == Tick \/ PodRestart \/ Pass

Spec == Init /\ [][Next]_vars

(* The interval timer fires and a pass runs to its end.                    *)
FairSpec == Spec /\ WF_vars(Tick) /\ WF_vars(Pass)

--------------------------------------------------------------------------------
(* Properties.                                                             *)

(* A sensor that does not record is re-armed at most MaxAttempts times,    *)
(* however unknown probes, failed listings and slow passes interleave.     *)
RearmsAreCapped == \A s \in Sensors : past.tries[s] <= MaxAttempts

(* Two re-arms of a sensor are more than the smaller of the two limits     *)
(* apart, also when it recorded in between and its entry was dropped: the  *)
(* stream is never torn down while it is still starting.                   *)
RearmsAreSpaced ==
  [][\A s \in todo \ todo' : rearms' > rearms => past.gap[s] > GapLimit]_vars

(* A sensor shown as degraded has used up its attempts and has not         *)
(* recorded since: getRecoveryStates never calls a sensor degraded while   *)
(* the pass would still re-arm it.                                         *)
DegradedIsFinal ==
  \A s \in Sensors : state[s].degraded => past.tries[s] = MaxAttempts

(* A sensor that never records is tried to the cap and ends up degraded,   *)
(* although a pass re-arms few and others may use up its turns.            *)
DeadEndsDegraded == \A s \in Dead : <>[](state[s].degraded)

(* recording-recovery.ts:38, :292: a hard cap on restarts of the recorder. *)
RestartsAreCapped == past.restarts <= MaxRestarts
================================================================================
