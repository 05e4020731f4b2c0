-------------------------- MODULE ServicePartsProofs --------------------------
(***************************************************************************)
(* The bounds of the recovery pass, and what the services and pages        *)
(* promise, for every set of sensors, users, clips and incidents and every *)
(* value of their limits.                                                  *)
(***************************************************************************)
EXTENDS ServiceParts, WatchingProofs, ServingProofs, AnswersProofs

LEMMA AgeType ==
  ASSUME NEW limit \in Nat, NEW x \in Age(limit)
  PROVE  Older(x, limit) \in Age(limit) /\ Elapsed(limit) \in Age(limit) /\ 0 \in Age(limit)
BY DEF Age, Older, Elapsed

LEMMA CountType ==
  ASSUME NEW m \in Nat, NEW x \in 0 .. m + 1
  PROVE  (IF x > m THEN x ELSE x + 1) \in 0 .. m + 1 /\ 0 \in 0 .. m + 1
OBVIOUS

LEMMA GapLimitType ==
  GapLimit \in Nat /\ GapLimit <= Threshold /\ GapLimit <= Cooldown
BY ConstantsAssumption DEF GapLimit, SmallerOf

LEMMA InitialTypes == Unseen \in States /\ NoPast \in Past
BY ConstantsAssumption, GapLimitType DEF Unseen, States, NoPast, Past, Age, Elapsed

LEMMA TypeStep == TypeOK /\ [Next]_vars => TypeOK'
<1> SUFFICES ASSUME TypeOK, [Next]_vars PROVE TypeOK'
  OBVIOUS
<1> USE ConstantsAssumption, GapLimitType DEF TypeOK
<1>1. CASE Tick
  <2>1. state' \in [Sensors -> States]
    BY <1>1, AgeType DEF Tick, States
  <2>2. escalation' \in [last : Age(EscCooldown), restarts : 0 .. MaxRestarts]
    BY <1>1, AgeType DEF Tick
  <2>3. past' \in Past
    <3>1. [s \in Sensors |-> Older(past.gap[s], GapLimit)] \in [Sensors -> Age(GapLimit)]
      BY AgeType DEF Past
    <3>2. Older(past.escGap, EscCooldown) \in Age(EscCooldown)
      BY AgeType DEF Past
    <3> QED BY <1>1, <3>1, <3>2 DEF Tick, Past
  <2> QED BY <1>1, <2>1, <2>2, <2>3 DEF Tick
<1>2. CASE PodRestart
  BY <1>2, InitialTypes DEF PodRestart, Age, Elapsed
<1>3. CASE BeginPass
  <2>1. ASSUME NEW listed \in SUBSET Sensors, Begin(listed), faults' \in 0 .. MaxFaults
        PROVE  TypeOK'
    <3>1. rearms' \in 0 .. MaxPerCycle /\ stalled' \subseteq Sensors /\ todo' \subseteq Sensors
      BY <2>1 DEF Begin
    <3>2. due' \in BOOLEAN /\ phase' \in {"idle", "probing"}
      BY <2>1 DEF Begin
    <3> QED BY <2>1, <3>1, <3>2 DEF Begin
  <2>2. faults < MaxFaults /\ faults' = faults + 1 => faults' \in 0 .. MaxFaults
    OBVIOUS
  <2>3. {} \in SUBSET Sensors
    OBVIOUS
  <2> QED BY <1>3, <2>1, <2>2, <2>3 DEF BeginPass
<1>4. CASE EndPass
  <2>1. escalation' \in [last : Age(EscCooldown), restarts : 0 .. MaxRestarts]
    BY <1>4 DEF EndPass, MayEscalate, Age, Elapsed
  <2>2. past' \in Past
    <3>1. CASE UNCHANGED past
      BY <3>1
    <3>2. CASE past' = [past EXCEPT !.escGap = 0,
                          !.restarts = IF @ > MaxRestarts THEN @ ELSE @ + 1]
      <4>1. past.restarts \in 0 .. MaxRestarts + 1 /\ 0 \in Age(EscCooldown)
        BY AgeType DEF Past, Age
      <4>2. (IF past.restarts > MaxRestarts THEN past.restarts ELSE past.restarts + 1)
              \in 0 .. MaxRestarts + 1
        BY <4>1, CountType
      <4> QED BY <3>2, <4>1, <4>2 DEF Past
    <3> QED BY <1>4, <3>1, <3>2 DEF EndPass
  <2>3. rearms' \in 0 .. MaxPerCycle
    BY <1>4 DEF EndPass
  <2> QED BY <1>4, <2>1, <2>2, <2>3 DEF EndPass
<1>5. ASSUME NEW s \in Sensors, SeesRecording(s) PROVE TypeOK'
  <2>1. state' \in [Sensors -> States]
    BY <1>5, InitialTypes DEF SeesRecording
  <2>2. past' \in Past
    <3>1. 0 \in 0 .. MaxAttempts + 1 /\ 0 \in 0 .. MaxRestarts + 1
      OBVIOUS
    <3> QED BY <1>5, <3>1 DEF SeesRecording, Past
  <2> QED BY <1>5, <2>1, <2>2 DEF SeesRecording, Probed
<1>6. ASSUME NEW s \in Sensors, SeesUnknown(s) PROVE TypeOK'
  BY <1>6 DEF SeesUnknown, Probed
<1>7. ASSUME NEW s \in Sensors, GivesUp(s) PROVE TypeOK'
  BY <1>7 DEF GivesUp, Probed, Counted, Now, States
<1>8. ASSUME NEW s \in Sensors, Waits(s) PROVE TypeOK'
  BY <1>8 DEF Waits, Probed, Counted, Now, States
<1>9. ASSUME NEW s \in Sensors, Rearm(s) PROVE TypeOK'
  <2>1. state' \in [Sensors -> States]
    <3>1. state[s] \in States /\ state[s].attempts + 1 \in 0 .. MaxAttempts
      BY <1>9 DEF Rearm, States
    <3>2. [Now(s) EXCEPT !.last = 0, !.attempts = @ + 1] \in States
      <4>1. Now(s) \in States /\ Now(s).attempts = state[s].attempts
        BY <3>1 DEF Now, States
      <4>2. 0 \in Age(Cooldown)
        BY AgeType DEF Age
      <4> QED BY <3>1, <4>1, <4>2 DEF States
    <3> QED BY <1>9, <3>2 DEF Rearm
  <2>2. past' \in Past
    <3>1. past.tries[s] \in 0 .. MaxAttempts + 1 /\ 0 \in Age(GapLimit)
      BY AgeType DEF Past, Age
    <3>2. (IF past.tries[s] > MaxAttempts THEN past.tries[s] ELSE past.tries[s] + 1)
            \in 0 .. MaxAttempts + 1
      BY <3>1, CountType
    <3> QED BY <1>9, <3>1, <3>2 DEF Rearm, Tried, Past
  <2>3. rearms' \in 0 .. MaxPerCycle
    BY <1>9 DEF Rearm, Tried, MayRearm
  <2> QED BY <1>9, <2>1, <2>2, <2>3 DEF Rearm, Probed, Counted
<1>a. CASE UNCHANGED vars
  BY <1>a DEF vars
<1> QED
  BY <1>1, <1>2, <1>3, <1>4, <1>5, <1>6, <1>7, <1>8, <1>9, <1>a DEF Next, Pass

(* Ages, attempts and the re-arms of a pass stay inside their limits.      *)
THEOREM TypeCorrect == Spec => []TypeOK
<1>1. Init => TypeOK
  BY ConstantsAssumption, InitialTypes DEF Init, Fresh, TypeOK, Age, Elapsed
<1> QED
  BY <1>1, TypeStep, PTL DEF Spec

--------------------------------------------------------------------------------
(* The entry of a sensor and what really happened agree: the attempts are  *)
(* the re-arms since it last recorded, and the age the next re-arm is      *)
(* judged by is no greater than that of the last re-arm.  While there is   *)
(* no attempt that age is the stall's, which began after the re-arm.       *)
Tries(s) == past.tries[s] = state[s].attempts
Spaced(s) ==
  past.gap[s] <= GapLimit =>
    IF state[s].attempts = 0 THEN state[s].seen => state[s].since <= past.gap[s]
                             ELSE state[s].seen /\ state[s].last <= past.gap[s]
Final(s) == state[s].degraded => state[s].attempts = MaxAttempts
Absent(s) == ~state[s].seen => state[s] = Unseen
RecoveryInv == \A s \in Sensors : Tries(s) /\ Spaced(s) /\ Final(s) /\ Absent(s)

LEMMA RecoveryInit == Init => RecoveryInv
BY ConstantsAssumption, GapLimitType
DEF Init, Fresh, NoPast, Unseen, Elapsed, RecoveryInv, Tries, Spaced, Final, Absent

LEMMA RecoveryStep ==
  ASSUME TypeOK, RecoveryInv, [Next]_vars
  PROVE  RecoveryInv'
<1> USE ConstantsAssumption, GapLimitType
    DEF TypeOK, RecoveryInv, Tries, Spaced, Final, Absent, States, Past
<1>1. CASE Tick
  <2> SUFFICES ASSUME NEW s \in Sensors PROVE (Tries(s) /\ Spaced(s) /\ Final(s) /\ Absent(s))'
    OBVIOUS
  <2>1. /\ past'.gap[s] = Older(past.gap[s], GapLimit) /\ past'.tries = past.tries
        /\ state'[s].attempts = state[s].attempts /\ state'[s].degraded = state[s].degraded
        /\ state'[s].seen = state[s].seen
        /\ state[s].seen => /\ state'[s].since = Older(state[s].since, Threshold)
                            /\ state'[s].last = Older(state[s].last, Cooldown)
        /\ ~state[s].seen => state'[s] = state[s]
    BY <1>1 DEF Tick
  <2>2. past.gap[s] \in Nat /\ state[s].since \in Nat /\ state[s].last \in Nat
    BY DEF Age
  <2>3. Tries(s)' /\ Final(s)' /\ Absent(s)'
    BY <2>1 DEF Unseen
  <2>4. Spaced(s)'
    BY <2>1, <2>2 DEF Older
  <2> QED BY <2>3, <2>4
<1>2. CASE PodRestart
  BY <1>2 DEF PodRestart, NoPast, Unseen, Elapsed
<1>3. CASE BeginPass
  BY <1>3 DEF BeginPass, Begin
<1>4. CASE EndPass
  BY <1>4 DEF EndPass
<1>5. ASSUME NEW s \in Sensors, SeesRecording(s) PROVE RecoveryInv'
  BY <1>5 DEF SeesRecording, Unseen
<1>6. ASSUME NEW s \in Sensors, SeesUnknown(s) PROVE RecoveryInv'
  BY <1>6 DEF SeesUnknown
<1>7. ASSUME NEW s \in Sensors, GivesUp(s) PROVE RecoveryInv'
  BY <1>7 DEF GivesUp, Now, Age
<1>8. ASSUME NEW s \in Sensors, Waits(s) PROVE RecoveryInv'
  <2> SUFFICES ASSUME NEW t \in Sensors PROVE (Tries(t) /\ Spaced(t) /\ Final(t) /\ Absent(t))'
    OBVIOUS
  <2>1. CASE t = s
    BY <1>8, <2>1 DEF Waits, Now, Age, Unseen
  <2>2. CASE t # s
    BY <1>8, <2>2 DEF Waits
  <2> QED BY <2>1, <2>2
<1>9. ASSUME NEW s \in Sensors, Rearm(s) PROVE RecoveryInv'
  BY <1>9 DEF Rearm, Tried, MayRearm, PastThreshold, Now, Age
<1>a. CASE UNCHANGED vars
  BY <1>a DEF vars
<1> QED
  BY <1>1, <1>2, <1>3, <1>4, <1>5, <1>6, <1>7, <1>8, <1>9, <1>a DEF Next, Pass

LEMMA RecoveryHolds == Spec => [](TypeOK /\ RecoveryInv)
BY RecoveryInit, RecoveryStep, TypeCorrect, PTL DEF Spec

(* No sensor is re-armed more often than rearmMaxAttempts without having   *)
(* recorded, for every number of sensors and every value of the limits.    *)
THEOREM RearmsStayCapped == Spec => []RearmsAreCapped
<1>1. TypeOK /\ RecoveryInv => RearmsAreCapped
  BY ConstantsAssumption DEF TypeOK, RecoveryInv, Tries, RearmsAreCapped, States
<1> QED
  BY <1>1, RecoveryHolds, PTL

(* A sensor is shown as degraded only once its attempts are used up.       *)
THEOREM DegradedStaysFinal == Spec => []DegradedIsFinal
<1>1. RecoveryInv => DegradedIsFinal
  BY DEF RecoveryInv, Tries, Final, DegradedIsFinal
<1> QED
  BY <1>1, RecoveryHolds, PTL

(* Two re-arms of one sensor are apart by more than the threshold or more  *)
(* than the cooldown, whichever is smaller.                                *)
THEOREM RearmsStaySpaced == Spec => RearmsAreSpaced
<1> DEFINE FarEnough == \A s \in todo \ todo' : rearms' > rearms => past.gap[s] > GapLimit
<1>1. ASSUME TypeOK, RecoveryInv, [Next]_vars PROVE [FarEnough]_vars
  <2> SUFFICES ASSUME Next PROVE FarEnough
    BY <1>1 DEF vars
  <2> USE <1>1, ConstantsAssumption DEF TypeOK
  <2>1. CASE Tick
    BY <2>1 DEF Tick
  <2>5. CASE PodRestart
    <3>1. rearms' = 0 /\ rearms \in Nat
      BY <2>5 DEF PodRestart
    <3> QED BY <3>1
  <2>2. CASE BeginPass \/ EndPass
    BY <2>2 DEF BeginPass, Begin, EndPass
  <2>3. ASSUME NEW s \in Sensors, SeesRecording(s) \/ SeesUnknown(s) \/ GivesUp(s) \/ Waits(s)
        PROVE FarEnough
    BY <2>3 DEF SeesRecording, SeesUnknown, GivesUp, Waits
  <2>4. ASSUME NEW s \in Sensors, Rearm(s) PROVE FarEnough
    <3>1. todo \ todo' = {s}
      BY <2>4 DEF Rearm, Probed
    <3>2. past.gap[s] > GapLimit
      BY <2>4, GapLimitType
      DEF Rearm, MayRearm, PastThreshold, RecoveryInv, Spaced, Past, States, Age
    <3> QED BY <3>1, <3>2
  <2> QED BY <2>1, <2>2, <2>3, <2>4, <2>5 DEF Next, Pass
<1> QED
  BY <1>1, RecoveryHolds, PTL DEF Spec, RearmsAreSpaced

--------------------------------------------------------------------------------
(* A behaviour of the composition is one of the part it owns: it starts as *)
(* the part starts and goes on as the part goes on.                        *)
LEMMA PartsBegin ==
  ASSUME PartsInit
  PROVE  /\ Init
         /\ Own("streams") => Streams!Init
         /\ Own("feed") => Feed!Init
         /\ Own("pipeline") => Pipeline!Init
         /\ Own("topology") => Graph!Init
         /\ Own("clips") => Footage!Init
         /\ Own("media") => Media!Init
         /\ Own("gpu") => Gpu!Init
         /\ Own("storage") => Storage!Init
         /\ Own("health") => Guards!Init
         /\ Own("tuning") => Tuning!Init
         /\ Own("chat") => Chat!Init
         /\ Own("agent") => Agent!Init
         /\ Own("secrets") => Secrets!Init
         /\ Own("overview") => Home!Init
         /\ Own("diagnostics") => Doctor!Init
         /\ Own("evidence") => Vault!Init
         /\ Own("transfer") => Transfer!Init
         /\ Own("reports") => Reports!Init
         /\ Own("copies") => Copies!Init
         /\ Own("race") => Race!Init
BY DEF PartsInit, Own

LEMMA PartsMove ==
  ASSUME PartsNext
  PROVE  /\ part' = part
         /\ Own("streams") => Streams!Next
         /\ Own("feed") => Feed!Next
         /\ Own("pipeline") => Pipeline!Next
         /\ Own("topology") => Graph!Next
         /\ Own("clips") => Footage!Next
         /\ Own("media") => Media!Next
         /\ Own("gpu") => Gpu!Next
         /\ Own("storage") => Storage!Next
         /\ Own("health") => Guards!Next
         /\ Own("tuning") => Tuning!Next
         /\ Own("chat") => Chat!Next
         /\ Own("agent") => Agent!Next
         /\ Own("secrets") => Secrets!Next
         /\ Own("overview") => Home!Next
         /\ Own("diagnostics") => Doctor!Next
         /\ Own("evidence") => Vault!Next
         /\ Own("transfer") => Transfer!Next
         /\ Own("reports") => Reports!Next
         /\ Own("copies") => Copies!Next
         /\ Own("race") => Race!Next
BY DEF PartsNext, ServiceNext, Own

LEMMA OnePartGoes ==
  ASSUME [PartsNext]_all
  PROVE  /\ part' = part /\ [Next]_vars
         /\ Own("streams") => [Streams!Next]_(Streams!vars)
         /\ Own("feed") => [Feed!Next]_(Feed!vars)
         /\ Own("pipeline") => [Pipeline!Next]_(Pipeline!vars)
         /\ Own("topology") => [Graph!Next]_(Graph!vars)
         /\ Own("clips") => [Footage!Next]_(Footage!vars)
         /\ Own("media") => [Media!Next]_(Media!vars)
         /\ Own("gpu") => [Gpu!Next]_(Gpu!vars)
         /\ Own("storage") => [Storage!Next]_(Storage!vars)
         /\ Own("health") => [Guards!Next]_(Guards!vars)
         /\ Own("tuning") => [Tuning!Next]_(Tuning!vars)
         /\ Own("chat") => [Chat!Next]_(Chat!vars)
         /\ Own("agent") => [Agent!Next]_(Agent!vars)
         /\ Own("secrets") => [Secrets!Next]_(Secrets!vars)
         /\ Own("overview") => [Home!Next]_(Home!vars)
         /\ Own("diagnostics") => [Doctor!Next]_(Doctor!vars)
         /\ Own("evidence") => [Vault!Next]_(Vault!vars)
         /\ Own("transfer") => [Transfer!Next]_(Transfer!vars)
         /\ Own("reports") => [Reports!Next]_(Reports!vars)
         /\ Own("copies") => [Copies!Next]_(Copies!vars)
         /\ Own("race") => [Race!Next]_(Race!vars)
<1>1. CASE PartsNext
  <2>1. part' = part /\ [Next]_vars
    BY <1>1 DEF PartsNext
  <2> QED BY <1>1, <2>1, PartsMove
<1>2. CASE UNCHANGED all
  <2>1. UNCHANGED registers /\ UNCHANGED part /\ UNCHANGED vars
    BY <1>2 DEF all
  <2>2. /\ UNCHANGED Streams!vars
       /\ UNCHANGED Feed!vars
       /\ UNCHANGED Pipeline!vars
       /\ UNCHANGED Graph!vars
    BY <2>1 DEF registers, Streams!vars, Feed!vars, Pipeline!vars, Graph!vars
  <2>3. /\ UNCHANGED Footage!vars
       /\ UNCHANGED Media!vars
       /\ UNCHANGED Gpu!vars
       /\ UNCHANGED Storage!vars
    BY <2>1 DEF registers, Footage!vars, Media!vars, Gpu!vars, Storage!vars
  <2>4. /\ UNCHANGED Guards!vars
       /\ UNCHANGED Tuning!vars
       /\ UNCHANGED Chat!vars
       /\ UNCHANGED Agent!vars
    BY <2>1 DEF registers, Guards!vars, Tuning!vars, Chat!vars, Agent!vars
  <2>5. /\ UNCHANGED Secrets!vars
       /\ UNCHANGED Home!vars
       /\ UNCHANGED Doctor!vars
       /\ UNCHANGED Vault!vars
    BY <2>1 DEF registers, Secrets!vars, Home!vars, Doctor!vars, Vault!vars
  <2>6. /\ UNCHANGED Transfer!vars
       /\ UNCHANGED Reports!vars
       /\ UNCHANGED Copies!vars
       /\ UNCHANGED Race!vars
    BY <2>1 DEF registers, Transfer!vars, Reports!vars, Copies!vars, Race!vars
  <2> QED BY <2>1, <2>2, <2>3, <2>4, <2>5, <2>6
<1> QED BY <1>1, <1>2

--------------------------------------------------------------------------------
(* What is proved of each part holds while a behaviour is one of that part. *)
ServicesInv ==
  /\ Own("streams") => StreamsInv
  /\ Own("feed") => FeedInv
  /\ Own("pipeline") => PipelineInv
  /\ Own("topology") => GraphInv
  /\ Own("gpu") => GpuInv
  /\ Own("reports") => ReportsInv
  /\ Own("race") => RaceInv
  /\ Own("overview") => HomeInv
  /\ Own("storage") => StorageInv
  /\ Own("health") => GuardsInv
  /\ Own("tuning") => TuningInv
  /\ Own("secrets") => SecretsInv
  /\ Own("diagnostics") => DoctorInv
  /\ Own("evidence") => VaultInv
  /\ Own("transfer") => TransferInv
  /\ Own("copies") => CopiesInv
  /\ Own("agent") => AgentInv
  /\ Own("chat") => ChatInv
  /\ Own("media") => MediaInv
  /\ Own("clips") => FootageInv

LEMMA ServicesStart == PartsInit => ServicesInv
BY PartsBegin, StreamsStart, FeedStart, PipelineStart, GraphStart, GpuStart,
   ReportsStart, RaceStart, HomeStart, StorageStart, GuardsStart,
   TuningStart, SecretsStart, DoctorStart, VaultStart, TransferStart,
   CopiesStart, AgentStart, ChatStart, MediaStart, FootageStart
   DEF ServicesInv

LEMMA ServicesStep ==
  ASSUME ServicesInv, [PartsNext]_all
  PROVE  ServicesInv'
<1>0. part' = part
  BY OnePartGoes
<1>1. CASE Own("streams")
  <2>1. StreamsInv /\ [Streams!Next]_(Streams!vars)
    BY <1>1, OnePartGoes DEF ServicesInv
  <2>2. StreamsInv'
    BY <2>1, StreamsStep
  <2> QED BY <1>0, <1>1, <2>2 DEF ServicesInv, Own
<1>2. CASE Own("feed")
  <2>1. FeedInv /\ [Feed!Next]_(Feed!vars)
    BY <1>2, OnePartGoes DEF ServicesInv
  <2>2. FeedInv'
    BY <2>1, FeedStep
  <2> QED BY <1>0, <1>2, <2>2 DEF ServicesInv, Own
<1>3. CASE Own("pipeline")
  <2>1. PipelineInv /\ [Pipeline!Next]_(Pipeline!vars)
    BY <1>3, OnePartGoes DEF ServicesInv
  <2>2. PipelineInv'
    BY <2>1, PipelineStep
  <2> QED BY <1>0, <1>3, <2>2 DEF ServicesInv, Own
<1>4. CASE Own("topology")
  <2>1. GraphInv /\ [Graph!Next]_(Graph!vars)
    BY <1>4, OnePartGoes DEF ServicesInv
  <2>2. GraphInv'
    BY <2>1, GraphStep
  <2> QED BY <1>0, <1>4, <2>2 DEF ServicesInv, Own
<1>5. CASE Own("gpu")
  <2>1. GpuInv /\ [Gpu!Next]_(Gpu!vars)
    BY <1>5, OnePartGoes DEF ServicesInv
  <2>2. GpuInv'
    BY <2>1, GpuStep
  <2> QED BY <1>0, <1>5, <2>2 DEF ServicesInv, Own
<1>6. CASE Own("reports")
  <2>1. ReportsInv /\ [Reports!Next]_(Reports!vars)
    BY <1>6, OnePartGoes DEF ServicesInv
  <2>2. ReportsInv'
    BY <2>1, ReportsStep
  <2> QED BY <1>0, <1>6, <2>2 DEF ServicesInv, Own
<1>7. CASE Own("race")
  <2>1. RaceInv /\ [Race!Next]_(Race!vars)
    BY <1>7, OnePartGoes DEF ServicesInv
  <2>2. RaceInv'
    BY <2>1, RaceStep
  <2> QED BY <1>0, <1>7, <2>2 DEF ServicesInv, Own
<1>8. CASE Own("overview")
  <2>1. HomeInv /\ [Home!Next]_(Home!vars)
    BY <1>8, OnePartGoes DEF ServicesInv
  <2>2. HomeInv'
    BY <2>1, HomeStep
  <2> QED BY <1>0, <1>8, <2>2 DEF ServicesInv, Own
<1>9. CASE Own("storage")
  <2>1. StorageInv /\ [Storage!Next]_(Storage!vars)
    BY <1>9, OnePartGoes DEF ServicesInv
  <2>2. StorageInv'
    BY <2>1, StorageStep
  <2> QED BY <1>0, <1>9, <2>2 DEF ServicesInv, Own
<1>a. CASE Own("health")
  <2>1. GuardsInv /\ [Guards!Next]_(Guards!vars)
    BY <1>a, OnePartGoes DEF ServicesInv
  <2>2. GuardsInv'
    BY <2>1, GuardsStep
  <2> QED BY <1>0, <1>a, <2>2 DEF ServicesInv, Own
<1>b. CASE Own("tuning")
  <2>1. TuningInv /\ [Tuning!Next]_(Tuning!vars)
    BY <1>b, OnePartGoes DEF ServicesInv
  <2>2. TuningInv'
    BY <2>1, TuningStep
  <2> QED BY <1>0, <1>b, <2>2 DEF ServicesInv, Own
<1>c. CASE Own("secrets")
  <2>1. SecretsInv /\ [Secrets!Next]_(Secrets!vars)
    BY <1>c, OnePartGoes DEF ServicesInv
  <2>2. SecretsInv'
    BY <2>1, SecretsStep
  <2> QED BY <1>0, <1>c, <2>2 DEF ServicesInv, Own
<1>d. CASE Own("diagnostics")
  <2>1. DoctorInv /\ [Doctor!Next]_(Doctor!vars)
    BY <1>d, OnePartGoes DEF ServicesInv
  <2>2. DoctorInv'
    BY <2>1, DoctorStep
  <2> QED BY <1>0, <1>d, <2>2 DEF ServicesInv, Own
<1>e. CASE Own("evidence")
  <2>1. VaultInv /\ [Vault!Next]_(Vault!vars)
    BY <1>e, OnePartGoes DEF ServicesInv
  <2>2. VaultInv'
    BY <2>1, VaultStep
  <2> QED BY <1>0, <1>e, <2>2 DEF ServicesInv, Own
<1>f. CASE Own("transfer")
  <2>1. TransferInv /\ [Transfer!Next]_(Transfer!vars)
    BY <1>f, OnePartGoes DEF ServicesInv
  <2>2. TransferInv'
    BY <2>1, TransferStep
  <2> QED BY <1>0, <1>f, <2>2 DEF ServicesInv, Own
<1>g. CASE Own("copies")
  <2>1. CopiesInv /\ [Copies!Next]_(Copies!vars)
    BY <1>g, OnePartGoes DEF ServicesInv
  <2>2. CopiesInv'
    BY <2>1, CopiesStep
  <2> QED BY <1>0, <1>g, <2>2 DEF ServicesInv, Own
<1>h. CASE Own("agent")
  <2>1. AgentInv /\ [Agent!Next]_(Agent!vars)
    BY <1>h, OnePartGoes DEF ServicesInv
  <2>2. AgentInv'
    BY <2>1, AgentStep
  <2> QED BY <1>0, <1>h, <2>2 DEF ServicesInv, Own
<1>i. CASE Own("chat")
  <2>1. ChatInv /\ [Chat!Next]_(Chat!vars)
    BY <1>i, OnePartGoes DEF ServicesInv
  <2>2. ChatInv'
    BY <2>1, ChatStep
  <2> QED BY <1>0, <1>i, <2>2 DEF ServicesInv, Own
<1>j. CASE Own("media")
  <2>1. MediaInv /\ [Media!Next]_(Media!vars)
    BY <1>j, OnePartGoes DEF ServicesInv
  <2>2. MediaInv'
    BY <2>1, MediaStep
  <2> QED BY <1>0, <1>j, <2>2 DEF ServicesInv, Own
<1>k. CASE Own("clips")
  <2>1. FootageInv /\ [Footage!Next]_(Footage!vars)
    BY <1>k, OnePartGoes DEF ServicesInv
  <2>2. FootageInv'
    BY <2>1, FootageStep
  <2> QED BY <1>0, <1>k, <2>2 DEF ServicesInv, Own
<1> QED
  BY <1>0, <1>1, <1>2, <1>3, <1>4, <1>5, <1>6, <1>7, <1>8, <1>9, <1>a, <1>b, <1>c, <1>d, <1>e, <1>f, <1>g, <1>h, <1>i, <1>j, <1>k DEF ServicesInv, Own

LEMMA ServicesHold == PartsSpec => []ServicesInv
BY ServicesStart, ServicesStep, PTL DEF PartsSpec

--------------------------------------------------------------------------------
(* What the parts promise, each while a behaviour is one of it.            *)

(* A step of several that fails is in the answer, the audit log or on the  *)
(* page (lib/secrets, pipeline-diagnostics, evidence, config-store,        *)
(* lib/gcs-*, the routes of config and their forms).                       *)
THEOREM FailuresStayNamed == PartsSpec => []FailuresAreNamed
<1>1. ServicesInv => FailuresAreNamed
  BY TuningPromise, SecretsPromise, DoctorPromise, VaultPromise, TransferPromise, CopiesPromise
     DEF ServicesInv, FailuresAreNamed
<1> QED  BY <1>1, ServicesHold, PTL

(* An answer is that of the question, the clip, the stream, the incident   *)
(* or the store it is given for (lib/vst-clip.ts, lib/clip-cache.ts, the   *)
(* players, chat/page.tsx, lib/evidence, lib/config-store).                *)
THEOREM AnswersStayOwn == PartsSpec => []AnswersBelong
<1>1. ServicesInv => AnswersBelong
  BY FootagePromise, MediaPromise, ChatPromise, VaultPromise, TransferPromise
     DEF ServicesInv, AnswersBelong
<1> QED  BY <1>1, ServicesHold, PTL

(* A save leaves alone what it was not asked to write: other keys of a     *)
(* document, fields of another writer, text being typed, a list that is    *)
(* not empty, a stored report, a clip newer than those that go.            *)
THEOREM SavesStayApart == PartsSpec => SavesKeepOthers
<1>1. ASSUME ServicesInv, [PartsNext]_all PROVE [SavesKeepOthersStep]_all
  <2> SUFFICES ASSUME PartsNext PROVE SavesKeepOthersStep
    BY <1>1
  <2>1. Own("tuning") => Tuning!MapStep /\ Tuning!SaveStep /\ Tuning!TypedStep
    BY <1>1, PartsMove, TuningStep DEF ServicesInv, TuningKeeps
  <2>2. Own("agent") => Agent!WriteStep /\ Agent!AnswerStep /\ Agent!ProbeStep
    BY <1>1, PartsMove, AgentStep DEF ServicesInv, AgentKeeps
  <2>3. Own("secrets") => Secrets!BeginStep
    BY <1>1, PartsMove, SecretsStep DEF ServicesInv
  <2>4. Own("overview") => Home!RevealStep
    BY <1>1, OnePartGoes, RevealStepKept DEF ServicesInv
  <2>5. Own("evidence") => Vault!ReuseStep
    BY <1>1, PartsMove, VaultStep DEF ServicesInv
  <2>6. Own("transfer") => Transfer!FillStep
    BY <1>1, OnePartGoes, TransferStep DEF ServicesInv
  <2>7. Own("clips") => Footage!EvictStep
    BY <1>1, OnePartGoes, EvictStepKept DEF ServicesInv
  <2>8. Own("copies") => Copies!SignedStep /\ Copies!ExtrasStep
    BY <1>1, PartsMove, CopiesStep DEF ServicesInv
  <2> QED  BY <2>1, <2>2, <2>3, <2>4, <2>5, <2>6, <2>7, <2>8 DEF SavesKeepOthersStep
<1> QED  BY <1>1, ServicesHold, PTL DEF SavesKeepOthers, PartsSpec

(* Each part keeps to its types and to the limits the code sets on open    *)
(* consumers (sse.ts), banners (HighSeverityToast), recognizers            *)
(* (chat/page.tsx), deadlines (connectivity.ts) and the ages of probes and *)
(* of reports (gpu-allocation.ts, error-bridge.ts).                        *)
THEOREM BoundsHold == PartsSpec => []PartsInBounds
<1>1. ServicesInv => PartsInBounds
  <2> SUFFICES ASSUME ServicesInv PROVE PartsInBounds
    OBVIOUS
  <2>1. Own("streams") => Streams!TypeOK /\ Streams!ConsumersCapped /\ Streams!LeaksOnlyFromStart
    BY StreamsPromise DEF ServicesInv, StreamsInv
  <2>2. /\ Own("feed") => Feed!TypeOK /\ Feed!BannersCapped
        /\ Own("pipeline") => Pipeline!TypeOK
        /\ Own("topology") => Graph!TypeOK /\ Graph!NeverBlind
        /\ Own("gpu") => Gpu!TypeOK /\ Gpu!RemoteAges
    BY FeedPromise, PipelinePromise, GraphPromise, GpuPromise DEF ServicesInv
  <2>3. /\ Own("storage") => Storage!TypeOK
        /\ Own("health") => Guards!TypeOK
        /\ Own("overview") => Home!TypeOK
        /\ Own("reports") => Reports!TypeOK /\ Reports!MapIsSwept
        /\ Own("race") => Race!TypeOK
    BY StoragePromise, GuardsPromise, HomePromise, ReportsPromise, RacePromises DEF ServicesInv
  <2>4. /\ Own("clips") => Footage!TypeOK
        /\ Own("media") => Media!TypeOK /\ Media!PendingIsNotLost
        /\ Own("chat") => Chat!TypeOK /\ Chat!OneRecognizer
        /\ Own("agent") => Agent!TypeOK
    BY FootagePromise, MediaPromise, ChatPromise, AgentPromise DEF ServicesInv
  <2>5. /\ Own("tuning") => Tuning!TypeOK
        /\ Own("secrets") => Secrets!TypeOK
        /\ Own("diagnostics") => Doctor!TypeOK /\ Doctor!BudgetsHold /\ Doctor!SpinningEnds
        /\ Own("evidence") => Vault!TypeOK
        /\ Own("transfer") => Transfer!TypeOK
        /\ Own("copies") => Copies!TypeOK
    BY TuningPromise, SecretsPromise, DoctorPromise, VaultPromise, TransferPromise, CopiesPromise
       DEF ServicesInv
  <2> QED  BY <2>1, <2>2, <2>3, <2>4, <2>5 DEF PartsInBounds
<1> QED  BY <1>1, ServicesHold, PTL

(* What is announced, sampled or refreshed is new: an incident once, a     *)
(* failure once in its interval, a rate of what came since the sample      *)
(* before, no cached answer or failed scan asked again before its time     *)
(* (useLiveIncidents.ts, pipeline-snapshot.ts, gpu-allocation.ts,          *)
(* storage-stats.ts, storage-preflight.ts, error-bridge.ts).               *)
THEOREM NewsStaysNew == PartsSpec => OnlyNewsIsTold
<1>1. ASSUME ServicesInv, [PartsNext]_all PROVE [OnlyNewsIsToldStep]_all
  <2> SUFFICES ASSUME PartsNext PROVE OnlyNewsIsToldStep
    BY <1>1
  <2>1. Own("feed") => Feed!NewsStep /\ Feed!StaysStep
    BY <1>1, PartsMove, FeedTells DEF ServicesInv
  <2>2. Own("pipeline") => Pipeline!PutRateStep /\ Pipeline!RateStep
    BY <1>1, PartsMove, PipelineRatesHold DEF ServicesInv
  <2>3. Own("gpu") => Gpu!MissingStep /\ Gpu!RemoteStep
    BY <1>1, PartsMove, GpuTells DEF ServicesInv
  <2>4. Own("storage") => Storage!BackoffStep /\ Storage!BaseStep
    BY <1>1, PartsMove, StorageNews DEF ServicesInv
  <2>5. Own("health") => Guards!PreflightStep /\ Guards!NewestStep
    BY <1>1, PartsMove, GuardsNews DEF ServicesInv
  <2>6. Own("reports") => Reports!SpacedStep /\ Reports!ToldStep
    BY <1>1, PartsMove, ReportsStep DEF ServicesInv
  <2> QED  BY <2>1, <2>2, <2>3, <2>4, <2>5, <2>6 DEF OnlyNewsIsToldStep
<1> QED  BY <1>1, ServicesHold, PTL DEF OnlyNewsIsTold, PartsSpec

(* A figure shown agrees with what it is made from: phases with the worst  *)
(* pod, the graph with VST's list and its layout with itself, the charge   *)
(* of the GPUs with the pods', counts with listings, a calm page with what *)
(* could be read, blame with a finding, both halves of a race with equal   *)
(* work (pipeline-snapshot.ts, topology/route.ts and page.tsx,             *)
(* gpu-allocation.ts, stream-density.ts, storage-stats.ts, lib/overview,   *)
(* lib/pipeline-diagnostics, kv-race.ts).                                  *)
THEOREM FiguresStayTrue == PartsSpec => []FiguresAgree
<1>1. ServicesInv => FiguresAgree
  <2> SUFFICES ASSUME ServicesInv PROVE FiguresAgree
    OBVIOUS
  <2>1. /\ Own("pipeline") => Pipeline!WorstPodShows
        /\ Own("topology") => Graph!CamerasOnce /\ Graph!NoDanglingEdge /\ Graph!LayoutSeparates
        /\ Own("gpu") => Gpu!AllocationAddsUp /\ Gpu!ExclusiveMeansWhole /\ Gpu!VerdictIsMonotone
    BY PipelinePromise, GraphPromise, LayoutHolds, GpuPromise DEF ServicesInv
  <2>2. /\ Own("storage") => Storage!CountIsClose /\ Storage!PanelKnowsItsFigures
        /\ Own("health") => /\ Guards!SurfacesAgree /\ Guards!SilenceIsNotIdle
                            /\ Guards!SampleIsNewest /\ Guards!PercentilesAreGaps
        /\ Own("overview") => /\ Home!NoFalseZero /\ Home!CalmIsEarned
                              /\ Home!CountsAgree /\ Home!IngestingAreKnown
        /\ Own("race") => Race!RaceIsFair /\ Race!GrowthIsSeen
    BY StoragePromise, GuardsPromise, HomePromise, RacePromises DEF ServicesInv
  <2>3. /\ Own("tuning") => Tuning!CooldownNeverShortens
        /\ Own("agent") => Agent!EnvNamedOnce
        /\ Own("diagnostics") => Doctor!BlameIsExplained /\ Doctor!DriftIsBlamed
    BY TuningPromise, AgentPromise, DoctorPromise DEF ServicesInv
  <2> QED  BY <2>1, <2>2, <2>3 DEF FiguresAgree
<1> QED  BY <1>1, ServicesHold, PTL
================================================================================
