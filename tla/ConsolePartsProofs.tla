--------------------------- MODULE ConsolePartsProofs -------------------------
(***************************************************************************)
(* What is proved of the parts of the console and of their composition:    *)
(* that the guard on the GPU mode is late by less than Ttl + ReadTimeout,  *)
(* for every Ttl, every ReadTimeout and any number of writers; that the    *)
(* pool leaves no place idle and never doubles; that an undisturbed        *)
(* footage run has the GPU to itself; the types of the alert scenarios.    *)
(* A behaviour of the console is one of each part, so all hold of it.      *)
(***************************************************************************)
EXTENDS ConsoleParts, FiniteSetTheorems, SequenceTheorems, TLAPS

--------------------------------------------------------------------------------
(* The guard on the GPU mode, by itself (box-mode.ts).                     *)

(* TypeOK, variable by variable.                                           *)
ModeType    == mode \in Modes /\ since \in 0 .. Lag
CachedType  == cached \in [answer : Answers, age : 0 .. Ttl]
ReadingType == reading \in [age : 0 .. ReadTimeout, got : {"off", "nothing"} \union Modes]
WriterType  == writer \in [Writers -> Asking \union {"idle", "saves", "writes"}]

(* What an answer says was so when it was read: a read under way has read  *)
(* it no longer ago than it has been under way, an answer in force no      *)
(* longer ago than its own age and the longest a read may take.            *)
NotSinceRead == reading.got \in Modes => NotFor(reading.got) <= reading.age
NotSinceAnswer ==
  Fresh /\ ~cached.answer.failed => NotFor(cached.answer.says) <= ReadTimeout + cached.age
FailsOpen == cached.answer.failed => cached.answer.says = "vss"
BoxInv == TypeOK /\ NotSinceRead /\ NotSinceAnswer /\ FailsOpen

LEMMA TypeStart == Init => TypeOK
BY BoxAssumption DEF Init, TypeOK, Modes, Lag, Answers, Unread, Asking

LEMMA TypeStep == ASSUME TypeOK, [Next]_vars PROVE TypeOK'
<1>1. CASE Sample
  BY <1>1, BoxAssumption DEF Sample, TypeOK, Modes, Lag
<1>2. ASSUME NEW answer \in Answers, Answered(answer) PROVE TypeOK'
  <2>1. CachedType'
    BY <1>2, BoxAssumption DEF Answered, CachedType
  <2>2. ReadingType'
    BY <1>2, BoxAssumption DEF Answered, TypeOK, ReadingType
  <2> QED
    BY <1>2, <2>1, <2>2 DEF Answered, TypeOK, CachedType, ReadingType
<1>3. CASE ReadAnswers
  BY <1>2, <1>3 DEF ReadAnswers, Answers, TypeOK, Modes
<1>4. CASE ReadFails
  BY <1>2, <1>4 DEF ReadFails, Unread, Answers, Modes
<1>5. CASE Switch
  BY <1>5, BoxAssumption DEF Switch, TypeOK, Lag
<1>6. CASE Tick
  BY <1>6, BoxAssumption DEF Tick, Prompt, Passes, Older, TypeOK, Lag
<1>7. ASSUME NEW w \in Writers, NEW step \in Asking, Asks(w, step) PROVE TypeOK'
  BY <1>7, BoxAssumption DEF Asks, TypeOK, Modes, Lag
<1>8. ASSUME NEW w \in Writers, Take(w) \/ Write(w) PROVE TypeOK'
  BY <1>8 DEF Take, Write, NextStep, TypeOK
<1>9. CASE UNCHANGED vars
  BY <1>9 DEF vars, TypeOK
<1> QED
  BY <1>1, <1>3, <1>4, <1>5, <1>6, <1>7, <1>8, <1>9 DEF Next, Ask, AskAgain, Asking

(* Every variable of box-mode.ts keeps its type.                           *)
THEOREM TypeCorrect == Spec => []TypeOK
<1>1. TypeOK /\ [Next]_vars => TypeOK'
  BY TypeStep
<1> QED
  BY <1>1, TypeStart, PTL DEF Spec

--------------------------------------------------------------------------------
(* A mode the box was not in for n ticks is one it is not in for n + 1 at  *)
(* most after a tick.                                                      *)
LEMMA OneTickOn ==
  ASSUME TypeOK, Passes, NEW m \in Modes, NEW n \in Nat, NotFor(m) <= n
  PROVE  NotFor(m)' <= n + 1
BY BoxAssumption DEF Passes, NotFor, Older, TypeOK, Lag

LEMMA NotLonger ==
  ASSUME TypeOK, UNCHANGED <<mode, since>> \/ Switch,
         NEW m \in Modes, NEW n \in Nat, NotFor(m) <= n
  PROVE  NotFor(m)' <= n
BY DEF Switch, NotFor, TypeOK, Modes

LEMMA BoxStep == BoxInv /\ [Next]_vars => (NotSinceRead /\ NotSinceAnswer /\ FailsOpen)'
<1> SUFFICES ASSUME BoxInv, [Next]_vars PROVE (NotSinceRead /\ NotSinceAnswer /\ FailsOpen)'
  OBVIOUS
<1> USE DEF BoxInv
<1>1. CASE Sample
  <2>1. NotSinceRead'
    BY <1>1 DEF Sample, NotSinceRead, NotFor, TypeOK, Modes
  <2>2. (NotSinceAnswer /\ FailsOpen)'
    BY <1>1 DEF Sample, NotSinceAnswer, FailsOpen, NotFor, Fresh
  <2> QED BY <2>1, <2>2
<1>2. CASE ReadAnswers
  <2>1. NotSinceRead'
    BY <1>2 DEF ReadAnswers, Answered, NotSinceRead, Modes
  <2>2. NotFor(reading.got) <= ReadTimeout
    BY <1>2, BoxAssumption DEF ReadAnswers, NotSinceRead, NotFor, TypeOK, Lag
  <2>3. NotSinceAnswer'
    BY <1>2, <2>2, BoxAssumption DEF ReadAnswers, Answered, NotSinceAnswer, NotFor, TypeOK
  <2>4. FailsOpen'
    BY <1>2 DEF ReadAnswers, Answered, FailsOpen
  <2> QED BY <2>1, <2>3, <2>4
<1>3. CASE ReadFails
  BY <1>3 DEF ReadFails, Answered, Unread, NotSinceRead, NotSinceAnswer, FailsOpen, Modes
<1>4. CASE Switch
  <2>1. NotSinceRead'
    BY <1>4, NotLonger DEF Switch, NotSinceRead, TypeOK
  <2>2. ReadTimeout + cached.age \in Nat /\ cached.answer.says \in Modes
    BY BoxAssumption DEF TypeOK, Answers
  <2>3. NotSinceAnswer'
    BY <1>4, <2>2, NotLonger DEF Switch, NotSinceAnswer, Fresh
  <2> QED BY <1>4, <2>1, <2>3 DEF Switch, FailsOpen
<1>5. CASE Tick
  <2>1. NotSinceRead'
    <3>1. reading'.got = reading.got
      BY <1>5 DEF Tick, Passes, TypeOK
    <3>2. reading.got \in Modes => reading'.age = reading.age + 1
      BY <1>5 DEF Tick, Passes, UnderWay, TypeOK, Modes
    <3>3. reading.age \in Nat
      BY DEF TypeOK
    <3> QED BY <1>5, <3>1, <3>2, <3>3, OneTickOn DEF NotSinceRead, Tick, NotFor
  <2>2. NotSinceAnswer'
    <3>1. cached'.answer = cached.answer
      BY <1>5 DEF Tick, Passes, TypeOK
    <3>2. Fresh => cached'.age = cached.age + 1
      BY <1>5 DEF Tick, Passes, Older, Fresh, TypeOK
    <3>3. Fresh' => Fresh
      BY <1>5, BoxAssumption DEF Tick, Passes, Older, Fresh, TypeOK
    <3>4. cached.age \in Nat /\ ReadTimeout \in Nat /\ cached.answer.says \in Modes
      BY BoxAssumption DEF TypeOK, Answers
    <3>5. ASSUME Fresh, ~cached.answer.failed
          PROVE  NotFor(cached.answer.says)' <= ReadTimeout + cached.age + 1
      <4>1. NotFor(cached.answer.says) <= ReadTimeout + cached.age
        BY <3>5 DEF NotSinceAnswer
      <4>2. ASSUME NEW m \in Modes, NotFor(m) <= ReadTimeout + cached.age
            PROVE  NotFor(m)' <= ReadTimeout + cached.age + 1
        BY <1>5, <3>4, <4>2, OneTickOn DEF Tick
      <4> QED BY <3>1, <3>4, <4>1, <4>2 DEF NotFor
    <3> QED BY <3>1, <3>2, <3>3, <3>4, <3>5 DEF NotSinceAnswer
  <2>3. FailsOpen'
    BY <1>5 DEF Tick, Passes, FailsOpen, TypeOK
  <2> QED BY <2>1, <2>2, <2>3
<1>6. ASSUME NEW w \in Writers, NEW step, Asks(w, step)
      PROVE  (NotSinceRead /\ NotSinceAnswer /\ FailsOpen)'
  BY <1>6 DEF Asks, NotSinceRead, NotSinceAnswer, FailsOpen, NotFor, Fresh, Modes
<1>7. ASSUME NEW w \in Writers, Take(w) \/ Write(w)
      PROVE  (NotSinceRead /\ NotSinceAnswer /\ FailsOpen)'
  BY <1>7 DEF Take, Write, NotSinceRead, NotSinceAnswer, FailsOpen, NotFor, Fresh
<1>8. CASE UNCHANGED vars
  BY <1>8 DEF vars, NotSinceRead, NotSinceAnswer, FailsOpen, NotFor, Fresh
<1> QED
  BY <1>1, <1>2, <1>3, <1>4, <1>5, <1>6, <1>7, <1>8 DEF Next, Ask, AskAgain

LEMMA BoxInvariant == Spec => []BoxInv
<1>1. Init => NotSinceRead /\ NotSinceAnswer /\ FailsOpen
  BY DEF Init, NotSinceRead, NotSinceAnswer, FailsOpen, Fresh, Unread, Modes
<1>2. BoxInv /\ TypeOK' /\ [Next]_vars => BoxInv'
  BY BoxStep DEF BoxInv
<1>3. TypeOK /\ NotSinceRead /\ NotSinceAnswer /\ FailsOpen => BoxInv
  BY DEF BoxInv
<1> QED
  BY <1>1, <1>2, <1>3, TypeCorrect, PTL DEF Spec

--------------------------------------------------------------------------------
(* Only an answer in force ends a question.                                *)
LEMMA AnsweredByCache ==
  ASSUME TypeOK, [Next]_vars, NEW w \in Writers,
         writer[w] \in Asking, writer'[w] \notin Asking
  PROVE  Fresh /\ writer'[w] = NextStep(w)
<1>1. ASSUME NEW v \in Writers, Take(v) PROVE Fresh /\ writer'[w] = NextStep(w)
  BY <1>1 DEF Take, TypeOK
<1>2. ASSUME NEW v \in Writers, Write(v) \/ Ask(v) \/ AskAgain(v) PROVE FALSE
  BY <1>2 DEF Write, Ask, AskAgain, Asks, TypeOK, Asking
<1>3. ~(Sample \/ ReadAnswers \/ ReadFails \/ Switch \/ Tick \/ UNCHANGED vars)
  BY DEF Sample, ReadAnswers, ReadFails, Answered, Switch, Tick, Passes, vars
<1> QED
  BY <1>1, <1>2, <1>3 DEF Next

LEMMA InForce ==
  ASSUME BoxInv, Fresh, ~cached.answer.failed
  PROVE  NotFor(cached.answer.says) < Lag
BY BoxAssumption DEF BoxInv, NotSinceAnswer, Fresh, TypeOK, Lag, NotFor

(* No write of a route or a pass goes through when the box has been in     *)
(* another mode for Ttl + ReadTimeout, unless the record was unreadable.   *)
THEOREM PausesInTimeHolds == Spec => PausesInTime
<1>1. BoxInv /\ [Next]_vars
        => [\A w \in Writers :
              LetThrough(w) => cached.answer.failed \/ NotFor("vss") < Lag]_vars
  <2> SUFFICES ASSUME BoxInv, [Next]_vars, NEW w \in Writers, LetThrough(w),
                      ~cached.answer.failed
               PROVE  NotFor("vss") < Lag
    OBVIOUS
  <2>1. Fresh /\ writer'[w] = NextStep(w)
    BY AnsweredByCache DEF LetThrough, Asking, BoxInv
  <2>2. cached.answer.says = "vss"
    BY <2>1 DEF LetThrough, NextStep, BoxInv, TypeOK, Answers, Modes
  <2> QED
    BY <2>1, <2>2, InForce
<1> QED
  BY <1>1, BoxInvariant, PTL DEF Spec, PausesInTime

(* No route or pass is refused once the box has been in vss mode for Ttl + *)
(* ReadTimeout.                                                            *)
THEOREM ResumesInTimeHolds == Spec => ResumesInTime
<1>1. BoxInv /\ [Next]_vars
        => [\A w \in Writers : Refused(w) => NotFor("llm") < Lag]_vars
  <2> SUFFICES ASSUME BoxInv, [Next]_vars, NEW w \in Writers, Refused(w)
               PROVE  NotFor("llm") < Lag
    OBVIOUS
  <2>1. Fresh /\ writer'[w] = NextStep(w)
    BY AnsweredByCache DEF Refused, Asking, BoxInv
  <2>2. cached.answer.says = "llm"
    BY <2>1 DEF Refused, NextStep
  <2>3. ~cached.answer.failed
    BY <2>2 DEF BoxInv, FailsOpen
  <2> QED
    BY <2>1, <2>2, <2>3, InForce
<1> QED
  BY <1>1, BoxInvariant, PTL DEF Spec, ResumesInTime

--------------------------------------------------------------------------------
(* The ffmpeg pool's limit and its line, for every finite set of jobs and  *)
(* every limit (ffmpeg.ts).                                                *)

LEMMA PoolCounts == \A S : Pool!Cardinality(S) = Cardinality(S)
BY DEF Pool!Cardinality, Cardinality

PoolSound == IsFiniteSet(Jobs) /\ MaxConcurrent \in Nat

(* Nobody is in line twice.                                                *)
InLineOnce == \A i, k \in 1 .. Len(queue) : queue[i] = queue[k] => i = k

(* The jobs that could not be spawned are those that say so.               *)
NeverRan == \A j \in Jobs : /\ j \in failures => job[j] \in {"failed", "over"}
                            /\ job[j] = "failed" => j \in failures
LineInv  == Pool!TypeOK /\ InLineOnce /\ NeverRan

LEMMA AcquireLine ==
  ASSUME LineInv, NEW j \in Jobs, Pool!Acquire(j) PROVE LineInv'
<1> USE DEF LineInv, Pool!Acquire
<1>1. Pool!TypeOK /\ job[j] = "new"
  OBVIOUS
<1>2. job' \in [Jobs -> Pool!Stages] /\ failures' \subseteq Jobs /\ activeCount' \in Int
  BY DEF Pool!TypeOK, Pool!Stages
<1>3. NeverRan'
  BY DEF NeverRan, Pool!TypeOK
<1>4. queue' \in Seq(Jobs) /\ \A i \in 1 .. Len(queue') : job'[queue'[i]] = "waits"
  <2>1. CASE Pool!Free
    BY <2>1 DEF Pool!TypeOK
  <2>2. CASE ~Pool!Free
    BY <2>2 DEF Pool!TypeOK
  <2> QED BY <2>1, <2>2
<1>5. InLineOnce'
  <2>1. CASE Pool!Free
    BY <2>1 DEF InLineOnce
  <2>2. CASE ~Pool!Free
    BY <2>2 DEF InLineOnce, Pool!TypeOK
  <2> QED BY <2>1, <2>2
<1> QED
  BY <1>2, <1>3, <1>4, <1>5 DEF Pool!TypeOK

(* A job that is not in line gives its place back.                         *)
LEMMA ReleaseLine ==
  ASSUME LineInv, NEW j \in Jobs, job[j] # "waits", NEW stage \in Pool!Stages, Pool!Release(j, stage)
  PROVE  /\ activeCount' \in Int /\ queue' \in Seq(Jobs) /\ job' \in [Jobs -> Pool!Stages]
         /\ \A i \in 1 .. Len(queue') : job'[queue'[i]] = "waits"
         /\ InLineOnce'
<1>1. CASE queue = <<>>
  BY <1>1 DEF LineInv, Pool!TypeOK, Pool!Release, InLineOnce
<1>2. CASE queue # <<>>
  <2> USE DEF LineInv, Pool!TypeOK, Pool!Release
  <2>1. Head(queue) \in Jobs /\ Head(queue) = queue[1]
    BY <1>2
  <2>2. queue' \in Seq(Jobs) /\ Len(queue') = Len(queue) - 1
    BY <1>2, HeadTailProperties
  <2>3. \A i \in 1 .. Len(queue') : queue'[i] = queue[i + 1] /\ i + 1 \in 2 .. Len(queue)
    <3>1. \A i \in 1 .. Len(queue') : queue'[i] = queue[i + 1]
      BY <1>2, HeadTailProperties
    <3>2. Len(queue) \in Nat
      BY <1>2
    <3> QED BY <2>2, <3>1, <3>2
  <2>4. job' \in [Jobs -> Pool!Stages]
    <3>1. "placed" \in Pool!Stages
      BY DEF Pool!Stages
    <3> QED BY <1>2, <2>1, <3>1
  <2>5. \A i \in 1 .. Len(queue') : queue'[i] # Head(queue) /\ queue'[i] # j
    BY <1>2, <2>1, <2>3 DEF InLineOnce
  <2>6. \A i \in 1 .. Len(queue') : job'[queue'[i]] = "waits"
    <3> SUFFICES ASSUME NEW i \in 1 .. Len(queue') PROVE job'[queue'[i]] = "waits"
      OBVIOUS
    <3>1. job[queue[i + 1]] = "waits" /\ queue[i + 1] \in Jobs
      BY <2>2, <2>3
    <3> QED BY <1>2, <2>1, <2>3, <2>5, <3>1
  <2>7. InLineOnce'
    BY <1>2, <2>2, <2>3 DEF InLineOnce
  <2> QED BY <1>2, <2>2, <2>4, <2>6, <2>7
<1> QED BY <1>1, <1>2

LEMMA LineStep == LineInv /\ [Pool!Next]_(Pool!vars) => LineInv'
<1> SUFFICES ASSUME LineInv, [Pool!Next]_(Pool!vars) PROVE LineInv'
  OBVIOUS
<1>1. ASSUME NEW j \in Jobs, Pool!Acquire(j) PROVE LineInv'
  BY <1>1, AcquireLine
<1>2. ASSUME NEW j \in Jobs, Pool!Spawn(j) PROVE LineInv'
  BY <1>2 DEF Pool!Spawn, LineInv, Pool!TypeOK, InLineOnce, NeverRan, Pool!Stages
<1>3. ASSUME NEW j \in Jobs, Pool!SpawnFails(j) PROVE LineInv'
  <2>1. job[j] # "waits" /\ "failed" \in Pool!Stages /\ Pool!Release(j, "failed")
    BY <1>3 DEF Pool!SpawnFails, Pool!Stages
  <2>2. NeverRan'
    BY <1>3 DEF Pool!SpawnFails, Pool!Release, LineInv, NeverRan, Pool!TypeOK
  <2> QED BY <1>3, <2>1, <2>2, ReleaseLine DEF Pool!SpawnFails, LineInv, Pool!TypeOK
<1>4. ASSUME NEW j \in Jobs, Pool!Close(j) PROVE LineInv'
  <2>1. job[j] # "waits" /\ "over" \in Pool!Stages /\ Pool!Release(j, "over")
    BY <1>4 DEF Pool!Close, Pool!Stages
  <2>2. NeverRan'
    BY <1>4 DEF Pool!Close, Pool!Release, LineInv, NeverRan, Pool!TypeOK
  <2> QED BY <1>4, <2>1, <2>2, ReleaseLine DEF Pool!Close, LineInv, Pool!TypeOK
<1>5. CASE UNCHANGED Pool!vars
  BY <1>5 DEF Pool!vars, LineInv, Pool!TypeOK, InLineOnce, NeverRan
<1> QED
  BY <1>1, <1>2, <1>3, <1>4, <1>5 DEF Pool!Next, Pool!AllOver

LEMMA LineStart == Pool!Init => LineInv
BY DEF Pool!Init, LineInv, Pool!TypeOK, InLineOnce, NeverRan, Pool!Stages

LEMMA LineInvariant == Pool!Spec => []LineInv
<1>1. Pool!Init => LineInv
  BY LineStart
<1> QED
  BY <1>1, LineStep, PTL DEF Pool!Spec

(* The pool's variables keep their types, and who is in line waits.        *)
THEOREM PoolTypeCorrect == Pool!Spec => []Pool!TypeOK
<1>1. LineInv => Pool!TypeOK
  BY DEF LineInv
<1> QED
  BY <1>1, LineInvariant, PTL

--------------------------------------------------------------------------------
LEMMA NoIdleStep == ASSUME Pool!NoIdlePlace, [Pool!Next]_(Pool!vars) PROVE Pool!NoIdlePlace'
<1> USE DEF Pool!NoIdlePlace, Pool!Free
<1>1. ASSUME NEW j \in Jobs, Pool!Acquire(j) PROVE Pool!NoIdlePlace'
  BY <1>1 DEF Pool!Acquire
<1>2. ASSUME NEW j \in Jobs, Pool!Spawn(j) PROVE Pool!NoIdlePlace'
  BY <1>2 DEF Pool!Spawn
<1>3. ASSUME NEW j, NEW stage, Pool!Release(j, stage) PROVE Pool!NoIdlePlace'
  BY <1>3 DEF Pool!Release
<1>4. CASE UNCHANGED Pool!vars
  BY <1>4 DEF Pool!vars
<1> QED BY <1>1, <1>2, <1>3, <1>4 DEF Pool!Next, Pool!SpawnFails, Pool!Close, Pool!AllOver

(* While a job waits, every place is taken: a place is offered to the line *)
(* before it is free again.                                                *)
THEOREM NoIdlePlaceHolds == Pool!Spec => []Pool!NoIdlePlace
<1>1. Pool!Init => Pool!NoIdlePlace
  BY DEF Pool!Init, Pool!NoIdlePlace
<1>2. Pool!NoIdlePlace /\ [Pool!Next]_(Pool!vars) => Pool!NoIdlePlace'
  BY NoIdleStep
<1> QED
  BY <1>1, <1>2, PTL DEF Pool!Spec

--------------------------------------------------------------------------------
(* The places given back twice are those of the failed jobs that closed:   *)
(* the count is what really runs less those.                               *)
Twice    == {j \in failures : job[j] = "over"}
CountInv == /\ activeCount + Cardinality(Twice) = Cardinality(Pool!Processes)
            /\ activeCount <= MaxConcurrent

LEMMA SubsetCount ==
  ASSUME PoolSound, NEW S \in SUBSET Jobs
  PROVE  IsFiniteSet(S) /\ Cardinality(S) \in Nat
BY FS_Subset, FS_CardinalityType DEF PoolSound

LEMMA PoolFinite ==
  ASSUME PoolSound, Pool!TypeOK
  PROVE  /\ IsFiniteSet(Pool!Processes) /\ Cardinality(Pool!Processes) \in Nat
         /\ IsFiniteSet(Twice) /\ Cardinality(Twice) \in Nat
<1>1. Pool!Processes \in SUBSET Jobs /\ Twice \in SUBSET Jobs
  BY DEF Pool!Processes, Twice, Pool!TypeOK
<1> QED BY <1>1, SubsetCount

(* The first in line is a job that waits.                                  *)
LEMMA HeadWaits ==
  ASSUME Pool!TypeOK, queue # <<>>
  PROVE  Head(queue) \in Jobs /\ job[Head(queue)] = "waits"
<1>1. Head(queue) = queue[1] /\ 1 \in 1 .. Len(queue)
  BY DEF Pool!TypeOK
<1> QED BY <1>1, HeadTailProperties DEF Pool!TypeOK

(* What a release does to the stages of the others: none but the first in  *)
(* line moves, so the jobs that failed and closed stay the same.           *)
LEMMA ReleaseKeeps ==
  ASSUME LineInv, NEW j \in Jobs, NEW stage, Pool!Release(j, stage)
  PROVE  /\ job'[j] = stage \/ (queue # <<>> /\ j = Head(queue))
         /\ \A i \in failures \ {j} : job'[i] = job[i]
<1>1. Pool!TypeOK /\ NeverRan
  BY DEF LineInv
<1>2. job \in [Jobs -> Pool!Stages] /\ \A i \in failures : i \in Jobs /\ job[i] # "waits"
  BY <1>1 DEF Pool!TypeOK, NeverRan
<1>3. CASE queue = <<>>
  BY <1>2, <1>3 DEF Pool!Release
<1>4. CASE queue # <<>>
  <2>1. Head(queue) \in Jobs /\ job[Head(queue)] = "waits"
    BY <1>1, <1>4, HeadWaits
  <2>2. \A i \in failures \ {j} : i # Head(queue)
    BY <1>2, <2>1
  <2>3. job' = [job EXCEPT ![j] = stage, ![Head(queue)] = "placed"]
    BY <1>4 DEF Pool!Release
  <2> QED BY <1>2, <1>4, <2>1, <2>2, <2>3
<1> QED BY <1>3, <1>4

(* A process that ends makes way for the first in line, or for nobody.     *)
LEMMA ReleaseCount ==
  ASSUME PoolSound, LineInv, NEW j \in Jobs, NEW stage \in {"failed", "over"},
         job[j] \in {"placed", "runs", "failed"}, Pool!Release(j, stage)
  PROVE  LET gone == IF j \in Pool!Processes THEN 1 ELSE 0
         IN  Cardinality(Pool!Processes') - activeCount'
               = Cardinality(Pool!Processes) - gone - activeCount + 1
<1> USE DEF LineInv
<1>1. Pool!Processes \ {j} \in SUBSET Jobs /\ IsFiniteSet(Pool!Processes \ {j})
      /\ Cardinality(Pool!Processes \ {j})
           = IF j \in Pool!Processes THEN Cardinality(Pool!Processes) - 1 ELSE Cardinality(Pool!Processes)
  BY PoolFinite, FS_RemoveElement DEF Pool!Processes
<1>2. CASE queue = <<>>
  <2>1. Pool!Processes' = Pool!Processes \ {j}
    BY <1>2 DEF Pool!Release, Pool!Processes, Pool!TypeOK
  <2> QED BY <1>1, <1>2, <2>1, PoolFinite DEF Pool!Release, Pool!TypeOK
<1>3. CASE queue # <<>>
  <2>1. Head(queue) \in Jobs /\ job[Head(queue)] = "waits"
    BY <1>3, HeadWaits
  <2>2. Pool!Processes' = (Pool!Processes \ {j}) \union {Head(queue)}
    BY <1>3, <2>1 DEF Pool!Release, Pool!Processes, Pool!TypeOK
  <2>3. Head(queue) \notin Pool!Processes \ {j}
    BY <2>1 DEF Pool!Processes
  <2>4. Cardinality(Pool!Processes') = Cardinality(Pool!Processes \ {j}) + 1
    BY <1>1, <2>2, <2>3, FS_AddElement
  <2>5. activeCount' = activeCount
    BY <1>3 DEF Pool!Release
  <2> QED BY <1>1, <2>4, <2>5, PoolFinite DEF Pool!TypeOK
<1> QED BY <1>2, <1>3

LEMMA ReleaseLimit ==
  ASSUME Pool!TypeOK, PoolSound, activeCount <= MaxConcurrent, NEW j, NEW stage, Pool!Release(j, stage)
  PROVE  activeCount' <= MaxConcurrent
BY DEF Pool!Release, Pool!TypeOK, PoolSound

LEMMA CountStep == ASSUME PoolSound, LineInv, CountInv, [Pool!Next]_(Pool!vars) PROVE CountInv'
<1> USE DEF LineInv
<1>0. /\ Cardinality(Pool!Processes) \in Nat /\ Cardinality(Twice) \in Nat
      /\ IsFiniteSet(Pool!Processes) /\ IsFiniteSet(Twice)
      /\ activeCount \in Int /\ MaxConcurrent \in Nat
  BY PoolFinite DEF Pool!TypeOK, PoolSound
<1>0a. Cardinality(Pool!Processes') \in Nat
  <2>1. Pool!Processes' \in SUBSET Jobs
    BY DEF Pool!Processes
  <2> QED BY <2>1, SubsetCount
<1>1. ASSUME NEW j \in Jobs, Pool!Acquire(j) PROVE CountInv'
  <2>1. Twice' = Twice
    BY <1>1 DEF Pool!Acquire, Twice, Pool!TypeOK, NeverRan
  <2>2. CASE Pool!Free
    <3>1. Pool!Processes' = Pool!Processes \union {j} /\ j \notin Pool!Processes
      BY <1>1, <2>2 DEF Pool!Acquire, Pool!Processes, Pool!TypeOK
    <3>2. Cardinality(Pool!Processes') = Cardinality(Pool!Processes) + 1
      BY <1>0, <3>1, FS_AddElement
    <3> QED BY <1>0, <1>1, <2>1, <2>2, <3>2 DEF Pool!Acquire, Pool!Free, CountInv
  <2>3. CASE ~Pool!Free
    <3>1. Pool!Processes' = Pool!Processes
      BY <1>1, <2>3 DEF Pool!Acquire, Pool!Processes, Pool!TypeOK
    <3> QED BY <1>1, <2>1, <2>3, <3>1 DEF Pool!Acquire, CountInv
  <2> QED BY <2>2, <2>3
<1>2. ASSUME NEW j \in Jobs, Pool!Spawn(j) PROVE CountInv'
  <2>1. Pool!Processes' = Pool!Processes /\ Twice' = Twice
    BY <1>2 DEF Pool!Spawn, Pool!Processes, Twice, Pool!TypeOK, NeverRan
  <2> QED BY <1>2, <2>1 DEF Pool!Spawn, CountInv
<1>3. ASSUME NEW j \in Jobs, Pool!SpawnFails(j) PROVE CountInv'
  <2>1. job[j] = "placed" /\ Pool!Release(j, "failed") /\ j \in Pool!Processes
    BY <1>3 DEF Pool!SpawnFails, Pool!Processes
  <2>2. Twice' = Twice
    <3>1. \A i \in failures \ {j} : job'[i] = job[i]
      BY <2>1, ReleaseKeeps
    <3>2. job'[j] = "failed" /\ j \notin failures
      BY <2>1, ReleaseKeeps, HeadWaits DEF NeverRan
    <3> QED BY <1>3, <3>1, <3>2 DEF Pool!SpawnFails, Twice
  <2>3. Cardinality(Pool!Processes') - activeCount' = Cardinality(Pool!Processes) - activeCount
    BY <1>0, <2>1, ReleaseCount
  <2>4. Pool!TypeOK' /\ Cardinality(Pool!Processes') \in Nat
    BY <1>0a, LineStep
  <2> QED BY <1>0, <2>1, <2>2, <2>3, <2>4, ReleaseLimit DEF CountInv, Pool!TypeOK
<1>4. ASSUME NEW j \in Jobs, Pool!Close(j) PROVE CountInv'
  <2>1. Pool!Release(j, "over") /\ job[j] \in {"placed", "runs", "failed"}
    BY <1>4 DEF Pool!Close
  <2>2. Pool!TypeOK' /\ Cardinality(Pool!Processes') \in Nat
    BY <1>0a, LineStep
  <2>3. CASE job[j] = "runs"
    <3>1. j \in Pool!Processes
      BY <2>3 DEF Pool!Processes
    <3>2. Twice' = Twice
      <4>1. j \notin failures /\ failures' = failures
        BY <1>4, <2>3 DEF NeverRan, Pool!Close
      <4>2. \A i \in failures \ {j} : job'[i] = job[i]
        BY <2>1, ReleaseKeeps
      <4> QED BY <4>1, <4>2 DEF Twice
    <3>3. Cardinality(Pool!Processes') - activeCount' = Cardinality(Pool!Processes) - activeCount
      BY <1>0, <2>1, <3>1, ReleaseCount
    <3> QED BY <1>0, <2>1, <2>2, <3>2, <3>3, ReleaseLimit DEF CountInv, Pool!TypeOK
  <2>4. CASE job[j] = "failed"
    <3>1. j \notin Pool!Processes
      BY <2>4 DEF Pool!Processes
    <3>2. Cardinality(Pool!Processes') - activeCount' = Cardinality(Pool!Processes) - activeCount + 1
      BY <1>0, <2>1, <3>1, ReleaseCount
    <3>3. Twice' = Twice \union {j} /\ j \notin Twice
      <4>1. \A i \in failures \ {j} : job'[i] = job[i]
        BY <2>1, ReleaseKeeps
      <4>2. job'[j] = "over" /\ j \in failures /\ failures' = failures
        BY <1>4, <2>1, <2>4, ReleaseKeeps, HeadWaits DEF Pool!Close, NeverRan
      <4> QED BY <2>4, <4>1, <4>2 DEF Twice
    <3>4. Cardinality(Twice') = Cardinality(Twice) + 1
      BY <1>0, <3>3, FS_AddElement
    <3> QED BY <1>0, <2>1, <2>2, <3>2, <3>4, ReleaseLimit DEF CountInv, Pool!TypeOK
  <2> QED BY <1>4, <2>3, <2>4 DEF Pool!Close
<1>5. CASE UNCHANGED Pool!vars
  BY <1>5 DEF Pool!vars, CountInv, Pool!Processes, Twice
<1> QED
  BY <1>1, <1>2, <1>3, <1>4, <1>5 DEF Pool!Next, Pool!AllOver

LEMMA CountStart == ASSUME PoolSound, Pool!Init PROVE CountInv
<1>1. Pool!Processes = {} /\ Twice = {}
  BY DEF Pool!Init, Pool!Processes, Twice
<1> QED  BY <1>1, FS_EmptySet DEF Pool!Init, CountInv, PoolSound

LEMMA CountInvariant == ASSUME PoolSound PROVE Pool!Spec => []CountInv
<1>1. Pool!Init => CountInv
  BY CountStart
<1>2. LineInv /\ CountInv /\ [Pool!Next]_(Pool!vars) => CountInv'
  BY CountStep
<1> QED
  BY <1>1, <1>2, LineInvariant, PTL DEF Pool!Spec

LEMMA CountSuffices == ASSUME PoolSound, LineInv, CountInv PROVE Pool!OverrunIsBounded
<1>1. Cardinality(Pool!Processes) \in Nat /\ Cardinality(Twice) \in Nat
      /\ activeCount \in Int /\ MaxConcurrent \in Nat
  BY PoolFinite DEF LineInv, Pool!TypeOK, PoolSound
<1> QED BY <1>1, PoolCounts DEF CountInv, Pool!OverrunIsBounded, Twice

(* Without failed spawns no more processes run than MAX_CONCURRENT; with   *)
(* them, no more than one each beyond it.                                  *)
THEOREM OverrunIsBoundedHolds == ASSUME PoolSound PROVE Pool!Spec => []Pool!OverrunIsBounded
<1>1. LineInv /\ CountInv => Pool!OverrunIsBounded
  BY CountSuffices
<1> QED
  BY <1>1, LineInvariant, CountInvariant, PTL

--------------------------------------------------------------------------------
(* A footage run that is on has the GPU to itself, for every set of       *)
(* cameras and however many runs overlap (test-footage-run.ts).            *)
FaultsBounded == MaxFaults \in Nat

(* TypeOK in parts.                                                        *)
RunsType == /\ run \in [Runs -> Footage!RunStates]
            /\ \A r \in Runs : run[r].todo \subseteq run[r].list
RestType == /\ paused \subseteq Cams /\ rules \subseteq Cams
            /\ replicas \in {0, 1} /\ rolling \in BOOLEAN
            /\ pods \subseteq [view : SUBSET Cams, ending : BOOLEAN]
            /\ stranded \in BOOLEAN

LEMMA TypeParts == Footage!TypeOK <=> RunsType /\ RestType /\ mishaps \in 0 .. MaxFaults
BY DEF Footage!TypeOK, RunsType, RestType

LEMMA TypeAgain ==
  ASSUME RunsType', RestType', mishaps' \in 0 .. MaxFaults
  PROVE  Footage!TypeOK'
BY DEF Footage!TypeOK, RunsType, RestType

(* One run gets a new state, the others stay as they are.                  *)
LEMMA RunGoesTyped ==
  ASSUME RunsType, NEW r \in Runs, NEW j \in Footage!RunStates, j.todo \subseteq j.list, Footage!Goes(r, j)
  PROVE  RunsType'
BY DEF RunsType, Footage!Goes

LEMMA StepTyped ==
  ASSUME RunsType, NEW r \in Runs, NEW s \in Footage!Steps, Footage!Step(r, s) \/ Footage!Warns(r, s)
  PROVE  RunsType'
<1>1. [run[r] EXCEPT !.step = s] \in Footage!RunStates /\ [run[r] EXCEPT !.step = s, !.warned = TRUE] \in Footage!RunStates
  BY DEF RunsType, Footage!RunStates
<1>2. run[r].todo \subseteq run[r].list /\ run[r] \in Footage!RunStates
  BY DEF RunsType
<1> QED  BY <1>1, <1>2, RunGoesTyped DEF Footage!Step, Footage!Warns, Footage!RunStates

LEMMA MarksTyped ==
  ASSUME RunsType, NEW r \in Runs, NEW s \in Footage!Steps, NEW m \in SUBSET Cams, Footage!Marks(r, m, s)
  PROVE  RunsType'
<1>1. ASSUME NEW q \in Runs PROVE run'[q] \in Footage!RunStates /\ run'[q].todo \subseteq run'[q].list
  <2>1. run[q] \in Footage!RunStates /\ run[q].todo \subseteq run[q].list
    BY DEF RunsType
  <2>2. run'[q] = IF q = r THEN [run[q] EXCEPT !.step = s]
                  ELSE [run[q] EXCEPT !.cut = @ \/ ~(run[q].list \subseteq m)]
    BY DEF Footage!Marks
  <2> QED  BY <2>1, <2>2 DEF Footage!RunStates
<1>2. run' = [q \in Runs |-> run'[q]]
  BY DEF Footage!Marks
<1> QED  BY <1>1, <1>2 DEF RunsType

LEMMA FaultTyped ==
  ASSUME FaultsBounded, mishaps \in 0 .. MaxFaults, Footage!Fault \/ Footage!Sound
  PROVE  mishaps' \in 0 .. MaxFaults
BY DEF FaultsBounded, Footage!Fault, Footage!Sound

LEMMA NoRunTyped ==
  /\ Footage!NoRun \in Footage!RunStates /\ Footage!NoRun.todo = {}
  /\ Footage!Over \in Footage!RunStates /\ Footage!Over.todo = {}
  /\ [Footage!NoRun EXCEPT !.step = "clear"] \in Footage!RunStates
  /\ [Footage!NoRun EXCEPT !.step = "clear"].todo = {}
  /\ \A l \in SUBSET Cams : /\ [Footage!NoRun EXCEPT !.step = "mark", !.list = l] \in Footage!RunStates
                           /\ [Footage!NoRun EXCEPT !.step = "mark", !.list = l].todo = {}
<1>1. Footage!NoRun \in Footage!RunStates /\ Footage!NoRun.todo = {}
  BY DEF Footage!NoRun, Footage!RunStates, Footage!Steps
<1>2. \A s \in Footage!Steps : /\ [Footage!NoRun EXCEPT !.step = s] \in Footage!RunStates
                     /\ [Footage!NoRun EXCEPT !.step = s].todo = {}
  BY <1>1 DEF Footage!RunStates
<1>3. \A l \in SUBSET Cams : /\ [Footage!NoRun EXCEPT !.step = "mark", !.list = l] \in Footage!RunStates
                           /\ [Footage!NoRun EXCEPT !.step = "mark", !.list = l].todo = {}
  BY <1>1 DEF Footage!RunStates, Footage!Steps
<1>4. "clear" \in Footage!Steps /\ "over" \in Footage!Steps
  BY DEF Footage!Steps
<1> QED  BY <1>1, <1>2, <1>3, <1>4 DEF Footage!Over

--------------------------------------------------------------------------------
(* Each step keeps the types.                                              *)

LEMMA ClusterTyped == ASSUME Footage!TypeOK, Footage!Cluster PROVE Footage!TypeOK'
<1> USE DEF Footage!TypeOK, Footage!Rest
<1>1. CASE Footage!StartPod
  <2>1. [view |-> paused, ending |-> FALSE] \in [view : SUBSET Cams, ending : BOOLEAN]
    OBVIOUS
  <2>2. \A p \in pods : [p EXCEPT !.ending = TRUE] \in [view : SUBSET Cams, ending : BOOLEAN]
    OBVIOUS
  <2>3. pods' \subseteq [view : SUBSET Cams, ending : BOOLEAN]
    BY <1>1, <2>1, <2>2 DEF Footage!StartPod, Footage!Ended
  <2> QED  BY <1>1, <2>3 DEF Footage!StartPod
<1>2. CASE Footage!ScaleDown
  BY <1>2 DEF Footage!ScaleDown, Footage!Ended
<1>3. ASSUME NEW p \in pods, Footage!PodEnds(p) PROVE Footage!TypeOK'
  BY <1>3 DEF Footage!PodEnds
<1>4. ASSUME NEW p \in pods, Footage!Refresh(p) PROVE Footage!TypeOK'
  BY <1>4 DEF Footage!Refresh
<1>5. ASSUME NEW p \in pods, Footage!SeedRules(p) PROVE Footage!TypeOK'
  BY <1>5 DEF Footage!SeedRules
<1> QED  BY <1>1, <1>2, <1>3, <1>4, <1>5 DEF Footage!Cluster

LEMMA MarkingTyped ==
  ASSUME FaultsBounded, Footage!TypeOK, NEW r \in Runs,
         Footage!Start(r) \/ Footage!Mark(r) \/ Footage!Restart(r) \/ Footage!Rollout(r)
           \/ Footage!Quiesce(r)
  PROVE  Footage!TypeOK'
<1>0. RunsType /\ RestType /\ mishaps \in 0 .. MaxFaults /\ run[r] \in Footage!RunStates
  BY TypeParts DEF RunsType
<1>1. CASE Footage!Start(r)
  <2>1. RunsType'
    BY <1>0, <1>1, NoRunTyped, RunGoesTyped DEF Footage!Start, Footage!Steps, RestType
  <2>2. RestType'
    BY <1>0, <1>1 DEF Footage!Start, RestType, Footage!cluster
  <2>3. mishaps' \in 0 .. MaxFaults
    BY <1>0, <1>1, FaultTyped DEF Footage!Start
  <2> QED  BY <2>1, <2>2, <2>3, TypeAgain
<1>2. CASE Footage!Mark(r)
  <2>1. RunsType' /\ paused' \in SUBSET Cams
    <3>1. CASE Footage!Marks(r, run[r].list, "restart")
      BY <1>0, <3>1, MarksTyped DEF Footage!Marks, Footage!RunStates, Footage!Steps
    <3>2. CASE Footage!MarkFails(r, "quiesce")
      BY <1>0, <3>2, StepTyped DEF Footage!MarkFails, RestType, Footage!Steps
    <3> QED  BY <1>2, <3>1, <3>2 DEF Footage!Mark
  <2>2. RestType'
    BY <1>0, <1>2, <2>1 DEF Footage!Mark, Footage!MarkFails, RestType, Footage!cluster
  <2>3. mishaps' \in 0 .. MaxFaults
    BY <1>0, <1>2, FaultTyped DEF Footage!Mark, Footage!MarkFails
  <2> QED  BY <2>1, <2>2, <2>3, TypeAgain
<1>3. CASE Footage!Restart(r)
  <2>1. RunsType'
    BY <1>0, <1>3, StepTyped DEF Footage!Restart, Footage!Steps
  <2>2. RestType'
    BY <1>0, <1>3 DEF Footage!Restart, RestType
  <2>3. mishaps' \in 0 .. MaxFaults
    BY <1>0, <1>3, FaultTyped DEF Footage!Restart
  <2> QED  BY <2>1, <2>2, <2>3, TypeAgain
<1>4. CASE Footage!Rollout(r)
  <2>1. RunsType'
    BY <1>0, <1>4, StepTyped DEF Footage!Rollout, Footage!Steps
  <2>2. RestType'
    BY <1>0, <1>4 DEF Footage!Rollout, RestType, Footage!cluster
  <2>3. mishaps' \in 0 .. MaxFaults
    BY <1>0, <1>4, FaultTyped DEF Footage!Rollout
  <2> QED  BY <2>1, <2>2, <2>3, TypeAgain
<1>5. CASE Footage!Quiesce(r)
  <2>1. RunsType'
    <3>0. replicas \in 0 .. 2
      <4>1. replicas \in {0, 1}
        BY <1>0 DEF RestType
      <4> QED  BY <4>1
    <3>1. [run[r] EXCEPT !.step = "gone", !.found = replicas] \in Footage!RunStates
      BY <1>0, <3>0 DEF Footage!RunStates, Footage!Steps
    <3>2. [run[r] EXCEPT !.step = "suspend", !.todo = run[r].list, !.warned = TRUE] \in Footage!RunStates
      BY <1>0 DEF Footage!RunStates, Footage!Steps
    <3> QED  BY <1>0, <1>5, <3>1, <3>2, RunGoesTyped
                DEF Footage!Quiesce, RunsType, Footage!RunStates
  <2>2. RestType'
    BY <1>0, <1>5 DEF Footage!Quiesce, RestType
  <2>3. mishaps' \in 0 .. MaxFaults
    BY <1>0, <1>5, FaultTyped DEF Footage!Quiesce
  <2> QED  BY <2>1, <2>2, <2>3, TypeAgain
<1> QED  BY <1>1, <1>2, <1>3, <1>4, <1>5

LEMMA SuspendingTyped ==
  ASSUME FaultsBounded, Footage!TypeOK, NEW r \in Runs,
         \/ Footage!Gone(r) \/ (\E c \in Cams : Footage!Suspend(r, c)) \/ Footage!SuspendAll(r)
         \/ Footage!Restore(r) \/ Footage!Verify(r) \/ Footage!Register(r)
  PROVE  Footage!TypeOK'
<1>0. RunsType /\ RestType /\ mishaps \in 0 .. MaxFaults /\ run[r] \in Footage!RunStates
  BY TypeParts DEF RunsType
<1>1. CASE Footage!Gone(r)
  <2>1. RunsType'
    <3>1. ASSUME NEW w \in BOOLEAN
          PROVE  [run[r] EXCEPT !.step = "suspend", !.todo = run[r].list, !.warned = w] \in Footage!RunStates
      BY <1>0 DEF Footage!RunStates, Footage!Steps
    <3>2. (run[r].warned \/ pods # {}) \in BOOLEAN
      OBVIOUS
    <3> QED  BY <1>0, <1>1, <3>1, <3>2, RunGoesTyped DEF Footage!Gone, Footage!RunStates
  <2>2. RestType'
    BY <1>0, <1>1 DEF Footage!Gone, RestType, Footage!cluster
  <2>3. mishaps' \in 0 .. MaxFaults
    BY <1>0, <1>1, FaultTyped DEF Footage!Gone
  <2> QED  BY <2>1, <2>2, <2>3, TypeAgain
<1>2. ASSUME NEW c \in Cams, Footage!Suspend(r, c) PROVE Footage!TypeOK'
  <2>1. RunsType'
    <3>1. run[r].todo \subseteq run[r].list
      BY <1>0 DEF RunsType
    <3>2. /\ [run[r] EXCEPT !.todo = @ \ {c}] \in Footage!RunStates
          /\ [run[r] EXCEPT !.todo = @ \ {c}, !.list = @ \ {c}, !.warned = TRUE] \in Footage!RunStates
      BY <1>0 DEF Footage!RunStates
    <3>3. CASE Footage!Goes(r, [run[r] EXCEPT !.todo = @ \ {c}])
      BY <1>0, <3>1, <3>2, <3>3, RunGoesTyped DEF Footage!RunStates
    <3>4. CASE Footage!Goes(r, [run[r] EXCEPT !.todo = @ \ {c}, !.list = @ \ {c}, !.warned = TRUE])
      BY <1>0, <3>1, <3>2, <3>4, RunGoesTyped DEF Footage!RunStates
    <3> QED  BY <1>2, <3>3, <3>4 DEF Footage!Suspend
  <2>2. RestType'
    BY <1>0, <1>2 DEF Footage!Suspend, Footage!Suspended, RestType
  <2>3. mishaps' \in 0 .. MaxFaults
    BY <1>0, <1>2, FaultTyped DEF Footage!Suspend, Footage!Suspended
  <2> QED  BY <2>1, <2>2, <2>3, TypeAgain
<1>3. CASE Footage!SuspendAll(r) \/ Footage!Verify(r) \/ Footage!Register(r)
  <2>1. RunsType'
    BY <1>0, <1>3, StepTyped
       DEF Footage!SuspendAll, Footage!Verify, Footage!Register, Footage!Steps
  <2>2. RestType'
    BY <1>0, <1>3
       DEF Footage!SuspendAll, Footage!Verify, Footage!Register, RestType, Footage!cluster
  <2>3. mishaps' \in 0 .. MaxFaults
    BY <1>0, <1>3, FaultTyped DEF Footage!SuspendAll, Footage!Verify, Footage!Register
  <2> QED  BY <2>1, <2>2, <2>3, TypeAgain
<1>4. CASE Footage!Restore(r)
  <2>1. RunsType'
    BY <1>0, <1>4, StepTyped DEF Footage!Restore, Footage!Steps
  <2>2. RestType'
    BY <1>0, <1>4 DEF Footage!Restore, RestType
  <2>3. mishaps' \in 0 .. MaxFaults
    BY <1>0, <1>4, FaultTyped DEF Footage!Restore
  <2> QED  BY <2>1, <2>2, <2>3, TypeAgain
<1> QED  BY <1>1, <1>2, <1>3, <1>4

LEMMA StoppingTyped ==
  ASSUME FaultsBounded, Footage!TypeOK,
         Footage!Crash \/ \E r \in Runs : Footage!StopOne(r) \/ Footage!StopAll(r)
           \/ Footage!Clear(r) \/ Footage!Reload(r)
  PROVE  Footage!TypeOK'
<1>0. RunsType /\ RestType /\ mishaps \in 0 .. MaxFaults
  BY TypeParts
<1>1. ASSUME NEW r \in Runs, Footage!StopOne(r) PROVE Footage!TypeOK'
  <2>1. RunsType'
    BY <1>0, <1>1, StepTyped DEF Footage!StopOne, Footage!Steps
  <2>2. RestType'
    BY <1>0, <1>1 DEF Footage!StopOne, RestType, Footage!cluster
  <2>3. mishaps' \in 0 .. MaxFaults
    BY <1>0, <1>1 DEF Footage!StopOne, Footage!Sound
  <2> QED  BY <2>1, <2>2, <2>3, TypeAgain
<1>2. ASSUME NEW r \in Runs, Footage!StopAll(r) PROVE Footage!TypeOK'
  <2>1. RunsType'
    <3>1. CASE Footage!Step(r, "clear")
      BY <1>0, <3>1, StepTyped DEF Footage!Steps
    <3>2. CASE run' = [q \in Runs |-> IF q = r THEN [Footage!NoRun EXCEPT !.step = "clear"]
                                     ELSE IF Footage!At(q, "running") THEN Footage!Over ELSE run[q]]
      BY <1>0, <3>2, NoRunTyped DEF RunsType
    <3> QED  BY <1>2, <3>1, <3>2 DEF Footage!StopAll
  <2>2. RestType'
    BY <1>0, <1>2 DEF Footage!StopAll, RestType, Footage!cluster
  <2>3. mishaps' \in 0 .. MaxFaults
    BY <1>0, <1>2, FaultTyped DEF Footage!StopAll
  <2> QED  BY <2>1, <2>2, <2>3, TypeAgain
<1>3. ASSUME NEW r \in Runs, Footage!Clear(r) PROVE Footage!TypeOK'
  <2>1. RunsType' /\ paused' \in SUBSET Cams
    <3>1. CASE Footage!Marks(r, {}, "reload")
      <4>1. {} \in SUBSET Cams /\ "reload" \in Footage!Steps
        BY DEF Footage!Steps
      <4>2. RunsType'
        BY <1>0, <3>1, <4>1, MarksTyped
      <4> QED  BY <3>1, <4>1, <4>2 DEF Footage!Marks
    <3>2. CASE Footage!MarkFails(r, "over")
      BY <1>0, <3>2, StepTyped DEF Footage!MarkFails, RestType, Footage!Steps
    <3> QED  BY <1>3, <3>1, <3>2 DEF Footage!Clear
  <2>2. RestType'
    BY <1>0, <1>3, <2>1 DEF Footage!Clear, Footage!MarkFails, RestType, Footage!cluster
  <2>3. mishaps' \in 0 .. MaxFaults
    BY <1>0, <1>3, FaultTyped DEF Footage!Clear, Footage!MarkFails
  <2> QED  BY <2>1, <2>2, <2>3, TypeAgain
<1>4. ASSUME NEW r \in Runs, Footage!Reload(r) PROVE Footage!TypeOK'
  <2>1. RunsType'
    BY <1>0, <1>4, NoRunTyped, RunGoesTyped DEF Footage!Reload
  <2>2. RestType'
    BY <1>0, <1>4 DEF Footage!Reload, RestType
  <2>3. mishaps' \in 0 .. MaxFaults
    BY <1>0, <1>4, FaultTyped DEF Footage!Reload
  <2> QED  BY <2>1, <2>2, <2>3, TypeAgain
<1>5. CASE Footage!Crash
  <2>1. RunsType'
    BY <1>0, <1>5, NoRunTyped DEF Footage!Crash, RunsType
  <2>2. RestType'
    BY <1>0, <1>5 DEF Footage!Crash, RestType, Footage!cluster
  <2>3. mishaps' \in 0 .. MaxFaults
    BY <1>0, <1>5, FaultTyped DEF Footage!Crash
  <2> QED  BY <2>1, <2>2, <2>3, TypeAgain
<1> QED  BY <1>1, <1>2, <1>3, <1>4, <1>5

LEMMA RunsTypeStep == ASSUME FaultsBounded, Footage!TypeOK, [Footage!Next]_(Footage!vars) PROVE Footage!TypeOK'
<1>1. CASE UNCHANGED Footage!vars
  BY <1>1 DEF Footage!vars, Footage!TypeOK
<1>2. CASE Footage!Cluster
  BY <1>2, ClusterTyped
<1> QED
  BY <1>1, <1>2, MarkingTyped, SuspendingTyped, StoppingTyped
     DEF Footage!Next, Footage!Proceed, Footage!Down

LEMMA RunsTypeStart == ASSUME FaultsBounded, Footage!Init PROVE Footage!TypeOK
<1>1. RunsType
  BY NoRunTyped DEF Footage!Init, RunsType
<1>2. pods \subseteq [view : SUBSET Cams, ending : BOOLEAN]
  BY DEF Footage!Init
<1>3. RestType
  BY <1>2 DEF Footage!Init, RestType
<1>4. mishaps \in 0 .. MaxFaults
  BY DEF Footage!Init, FaultsBounded
<1> QED  BY <1>1, <1>3, <1>4, TypeParts

(* Every variable keeps the type of what it models, and a run has still to *)
(* suspend only what it is to pause (test-footage-run.ts).                 *)
THEOREM RunsTypeCorrect == ASSUME FaultsBounded PROVE Footage!Spec => []Footage!TypeOK
<1>1. Footage!Init => Footage!TypeOK
  BY RunsTypeStart
<1>2. Footage!TypeOK /\ [Footage!Next]_(Footage!vars) => Footage!TypeOK'
  BY RunsTypeStep
<1> QED
  BY <1>1, <1>2, PTL DEF Footage!Spec
--------------------------------------------------------------------------------
(* What a run that warned of nothing and whose mark is untouched may rely  *)
(* on: its cameras are marked; from the moment no pod was left every pod   *)
(* has read the mark, so that only those it has still to suspend have a    *)
(* rule; and after the suspensions those are none.                         *)
Done   == {"restore", "verify", "register", "running"}
Alone  == {"suspend"} \union Done
Marked == {"restart", "rollout", "quiesce", "gone"} \union Alone
Fits(j, marked, ps, analysed) ==
  ~j.warned /\ ~j.cut =>
    /\ j.step \in Marked => j.list \subseteq marked
    /\ j.step \in Alone  => /\ \A p \in ps : j.list \subseteq p.view
                           /\ analysed \intersect j.list \subseteq j.todo
    /\ j.step \in Done   => j.todo = {}
QuietInv == \A r \in Runs : Fits(run[r], paused, pods, rules)

(* A run that moves leaves the others what they rely on, if it analyses no *)
(* camera and leaves the mark and the pods alone.                          *)
LEMMA OthersFit ==
  ASSUME RunsType, QuietInv, NEW r \in Runs, NEW j, Footage!Goes(r, j),
         paused' = paused, pods' = pods, rules' \subseteq rules,
         Fits(j, paused, pods, rules')
  PROVE  QuietInv'
<1>1. ASSUME NEW q \in Runs PROVE Fits(run'[q], paused', pods', rules')
  <2>1. run'[q] = IF q = r THEN j ELSE run[q]
    BY DEF Footage!Goes, RunsType
  <2>2. Fits(run[q], paused, pods, rules) => Fits(run[q], paused, pods, rules')
    BY DEF Fits
  <2> QED  BY <2>1, <2>2 DEF QuietInv
<1> QED  BY <1>1 DEF QuietInv

(* A change of the mark is seen by the runs it takes a camera from.        *)
LEMMA MarksFit ==
  ASSUME RunsType, QuietInv, NEW r \in Runs, NEW s, NEW m, Footage!Marks(r, m, s),
         pods' = pods, rules' = rules,
         Fits([run[r] EXCEPT !.step = s], m, pods, rules)
  PROVE  QuietInv'
<1>1. ASSUME NEW q \in Runs, q # r PROVE Fits(run'[q], m, pods, rules)
  <2>1. run'[q] = [run[q] EXCEPT !.cut = @ \/ ~(run[q].list \subseteq m)] /\ run[q] \in Footage!RunStates
    BY <1>1 DEF Footage!Marks, RunsType
  <2>2. /\ run'[q].step = run[q].step /\ run'[q].list = run[q].list
        /\ run'[q].todo = run[q].todo /\ run'[q].warned = run[q].warned
        /\ run'[q].cut = (run[q].cut \/ ~(run[q].list \subseteq m))
    BY <2>1 DEF Footage!RunStates
  <2>3. Fits(run[q], paused, pods, rules)
    BY DEF QuietInv
  <2> QED  BY <2>2, <2>3 DEF Fits
<1>2. run'[r] = [run[r] EXCEPT !.step = s] /\ paused' = m
  BY DEF Footage!Marks
<1> QED  BY <1>1, <1>2 DEF QuietInv

(* The reconciler's pods read the mark and seed no rule it forbids.        *)
LEMMA ClusterFits == ASSUME Footage!TypeOK, QuietInv, Footage!Cluster PROVE QuietInv'
<1>1. run' = run /\ paused' = paused
  BY DEF Footage!Cluster, Footage!StartPod, Footage!ScaleDown, Footage!PodEnds, Footage!Refresh,
         Footage!SeedRules, Footage!Rest
<1>2. ASSUME NEW r \in Runs PROVE Fits(run[r], paused, pods', rules')
  <2>0. Fits(run[r], paused, pods, rules) /\ run[r] \in Footage!RunStates /\ run[r].list \subseteq Cams
    BY DEF QuietInv, Footage!TypeOK, Footage!RunStates
  <2>1. CASE Footage!StartPod \/ Footage!ScaleDown
    <3>1. rules' = rules
      BY <2>1 DEF Footage!StartPod, Footage!ScaleDown
    <3>2. \A p \in pods' : p.view = paused \/ \E o \in pods : o.view = p.view
      BY <2>1 DEF Footage!StartPod, Footage!ScaleDown, Footage!Ended, Footage!TypeOK
    <3> QED  BY <2>0, <3>1, <3>2 DEF Fits, Marked, Alone
  <2>2. ASSUME NEW p \in pods, Footage!PodEnds(p) PROVE Fits(run[r], paused, pods', rules')
    BY <2>0, <2>2 DEF Footage!PodEnds, Fits
  <2>3. ASSUME NEW p \in pods, Footage!Refresh(p) PROVE Fits(run[r], paused, pods', rules')
    <3>1. rules' = rules
      BY <2>3 DEF Footage!Refresh
    <3>2. \A q \in pods' : q.view = paused \/ q \in pods
      BY <2>3 DEF Footage!Refresh, Footage!TypeOK
    <3> QED  BY <2>0, <3>1, <3>2 DEF Fits, Marked, Alone
  <2>4. ASSUME NEW p \in pods, Footage!SeedRules(p) PROVE Fits(run[r], paused, pods', rules')
    BY <2>0, <2>4 DEF Footage!SeedRules, Fits
  <2> QED  BY <2>1, <2>2, <2>3, <2>4 DEF Footage!Cluster
<1> QED  BY <1>1, <1>2 DEF QuietInv

(* Nothing is promised of a run that has not marked, or is over.           *)
LEMMA EarlyFits ==
  ASSUME NEW j, NEW m, NEW ps, NEW a, j.step \notin Marked \/ j.warned
  PROVE  Fits(j, m, ps, a)
BY DEF Fits, Marked, Alone

LEMMA MarkingFits ==
  ASSUME Footage!TypeOK, QuietInv, NEW r \in Runs,
         Footage!Start(r) \/ Footage!Mark(r) \/ Footage!Restart(r) \/ Footage!Rollout(r)
           \/ Footage!Quiesce(r)
  PROVE  QuietInv'
<1>0. RunsType /\ run[r] \in Footage!RunStates /\ Fits(run[r], paused, pods, rules)
  BY TypeParts DEF RunsType, QuietInv
<1>1. CASE Footage!Start(r)
  <2>1. \A l : [Footage!NoRun EXCEPT !.step = "mark", !.list = l].step \notin Marked
    BY DEF Footage!NoRun, Marked, Alone, Done
  <2> QED  BY <1>0, <1>1, <2>1, EarlyFits, OthersFit DEF Footage!Start, Footage!cluster
<1>2. CASE Footage!Mark(r)
  <2>1. CASE Footage!Marks(r, run[r].list, "restart")
    <3>1. Fits([run[r] EXCEPT !.step = "restart"], run[r].list, pods, rules)
      BY <1>0 DEF Fits, Footage!RunStates, Alone, Done
    <3> QED  BY <1>0, <1>2, <2>1, <3>1, MarksFit DEF Footage!Mark, Footage!cluster
  <2>2. CASE Footage!MarkFails(r, "quiesce")
    <3>1. [run[r] EXCEPT !.step = "quiesce", !.warned = TRUE].warned
      BY <1>0 DEF Footage!RunStates
    <3> QED  BY <1>0, <1>2, <2>2, <3>1, EarlyFits, OthersFit
                DEF Footage!Mark, Footage!MarkFails, Footage!Warns, Footage!cluster
  <2> QED  BY <1>2, <2>1, <2>2 DEF Footage!Mark
<1>3. CASE Footage!Restart(r) \/ Footage!Rollout(r)
  <2>1. \A s \in Footage!Steps : [run[r] EXCEPT !.step = s, !.warned = TRUE].warned
    BY <1>0 DEF Footage!RunStates
  <2>2. \A s \in {"rollout", "quiesce"} : Footage!At(r, "restart") \/ Footage!At(r, "rollout")
          => Fits([run[r] EXCEPT !.step = s], paused, pods, rules)
    BY <1>0 DEF Fits, Footage!RunStates, Footage!At, Marked, Alone, Done
  <2>3. "quiesce" \in Footage!Steps
    BY DEF Footage!Steps
  <2> QED
    BY <1>0, <1>3, <2>1, <2>2, <2>3, EarlyFits, OthersFit
    DEF Footage!Restart, Footage!Rollout, Footage!Step, Footage!Warns, Footage!cluster
<1>4. CASE Footage!Quiesce(r)
  <2>1. [run[r] EXCEPT !.step = "suspend", !.todo = run[r].list, !.warned = TRUE].warned
    BY <1>0 DEF Footage!RunStates
  <2>2. Fits([run[r] EXCEPT !.step = "gone", !.found = replicas], paused, pods, rules)
    BY <1>0, <1>4 DEF Footage!Quiesce, Fits, Footage!RunStates, Footage!At, Marked, Alone, Done
  <2> QED  BY <1>0, <1>4, <2>1, <2>2, EarlyFits, OthersFit DEF Footage!Quiesce
<1> QED  BY <1>1, <1>2, <1>3, <1>4

LEMMA SuspendingFits ==
  ASSUME Footage!TypeOK, QuietInv, NEW r \in Runs,
         \/ Footage!Gone(r) \/ (\E c \in Cams : Footage!Suspend(r, c)) \/ Footage!SuspendAll(r)
         \/ Footage!Restore(r) \/ Footage!Verify(r) \/ Footage!Register(r)
  PROVE  QuietInv'
<1>0. RunsType /\ run[r] \in Footage!RunStates /\ Fits(run[r], paused, pods, rules)
  BY TypeParts DEF RunsType, QuietInv
<1>1. CASE Footage!Gone(r)
  <2> DEFINE j == [run[r] EXCEPT !.step = "suspend", !.todo = run[r].list,
                                 !.warned = @ \/ pods # {}]
  <2>1. /\ j.step = "suspend" /\ j.list = run[r].list /\ j.todo = run[r].list
        /\ j.cut = run[r].cut /\ j.warned = (run[r].warned \/ pods # {})
    BY <1>0 DEF Footage!RunStates
  <2>2. Fits(j, paused, pods, rules)
    BY <1>0, <1>1, <2>1 DEF Footage!Gone, Fits, Footage!At, Marked, Alone, Done
  <2>3. Footage!Goes(r, j)
    BY <1>1 DEF Footage!Gone
  <2> QED  BY <1>0, <1>1, <2>2, <2>3, OthersFit DEF Footage!Gone, Footage!cluster
<1>2. ASSUME NEW c \in Cams, Footage!Suspend(r, c) PROVE QuietInv'
  <2>1. CASE Footage!Goes(r, [run[r] EXCEPT !.todo = @ \ {c}]) /\ rules' = rules \ {c}
    <3>1. Fits([run[r] EXCEPT !.todo = @ \ {c}], paused, pods, rules \ {c})
      BY <1>0, <1>2
         DEF Footage!Suspend, Footage!Suspended, Fits, Footage!RunStates, Footage!At, Marked,
             Alone, Done
    <3> QED  BY <1>0, <1>2, <2>1, <3>1, OthersFit DEF Footage!Suspend, Footage!Suspended
  <2>2. CASE /\ Footage!Goes(r, [run[r] EXCEPT !.todo = @ \ {c}, !.list = @ \ {c}, !.warned = TRUE])
             /\ UNCHANGED rules
    <3>1. [run[r] EXCEPT !.todo = @ \ {c}, !.list = @ \ {c}, !.warned = TRUE].warned
      BY <1>0 DEF Footage!RunStates
    <3> QED  BY <1>0, <1>2, <2>2, <3>1, EarlyFits, OthersFit
                DEF Footage!Suspend, Footage!Suspended
  <2> QED  BY <1>2, <2>1, <2>2 DEF Footage!Suspend
<1>3. CASE Footage!SuspendAll(r)
  <2>1. \A s \in Done : Fits([run[r] EXCEPT !.step = s], paused, pods, rules)
    BY <1>0, <1>3 DEF Footage!SuspendAll, Fits, Footage!RunStates, Footage!At, Marked, Alone, Done
  <2>2. (IF run[r].found = 2 THEN "verify" ELSE "restore") \in Done
    BY DEF Done
  <2> QED  BY <1>0, <1>3, <2>1, <2>2, OthersFit
              DEF Footage!SuspendAll, Footage!Step, Footage!cluster
<1>4. CASE Footage!Restore(r)
  <2>1. [run[r] EXCEPT !.step = "verify", !.warned = TRUE].warned
    BY <1>0 DEF Footage!RunStates
  <2>2. Fits([run[r] EXCEPT !.step = "verify"], paused, pods, rules)
    BY <1>0, <1>4 DEF Footage!Restore, Fits, Footage!RunStates, Footage!At, Marked, Alone, Done
  <2> QED  BY <1>0, <1>4, <2>1, <2>2, EarlyFits, OthersFit
              DEF Footage!Restore, Footage!Step, Footage!Warns
<1>5. CASE Footage!Verify(r)
  <2>1. [run[r] EXCEPT !.step = "register", !.warned = TRUE].warned
    BY <1>0 DEF Footage!RunStates
  <2>2. Fits([run[r] EXCEPT !.step = "register"], paused, pods, rules \ run[r].list)
    BY <1>0, <1>5 DEF Footage!Verify, Fits, Footage!RunStates, Footage!At, Marked, Alone, Done
  <2> QED  BY <1>0, <1>5, <2>1, <2>2, EarlyFits, OthersFit
              DEF Footage!Verify, Footage!Step, Footage!Warns
<1>6. CASE Footage!Register(r)
  <2>1. [run[r] EXCEPT !.step = "clear"].step \notin Marked
    BY <1>0 DEF Footage!RunStates, Marked, Alone, Done
  <2>2. Fits([run[r] EXCEPT !.step = "running"], paused, pods, rules)
    BY <1>0, <1>6 DEF Footage!Register, Fits, Footage!RunStates, Footage!At, Marked, Alone, Done
  <2> QED  BY <1>0, <1>6, <2>1, <2>2, EarlyFits, OthersFit
              DEF Footage!Register, Footage!Step, Footage!cluster
<1> QED  BY <1>1, <1>2, <1>3, <1>4, <1>5, <1>6

LEMMA StoppingFits ==
  ASSUME Footage!TypeOK, QuietInv,
         Footage!Crash \/ \E r \in Runs : Footage!StopOne(r) \/ Footage!StopAll(r)
           \/ Footage!Clear(r) \/ Footage!Reload(r)
  PROVE  QuietInv'
<1>0. RunsType /\ \A r \in Runs : run[r] \in Footage!RunStates /\ Fits(run[r], paused, pods, rules)
  BY TypeParts DEF RunsType, QuietInv
<1>1. /\ \A r \in Runs : \A s \in {"clear", "reload", "over"} :
              [run[r] EXCEPT !.step = s].step \notin Marked
      /\ [Footage!NoRun EXCEPT !.step = "clear"].step \notin Marked /\ Footage!Over.step \notin Marked
  BY <1>0 DEF Footage!RunStates, Marked, Alone, Done, Footage!Over, Footage!NoRun
<1>2. ASSUME NEW r \in Runs, Footage!StopOne(r) PROVE QuietInv'
  BY <1>0, <1>1, <1>2, EarlyFits, OthersFit DEF Footage!StopOne, Footage!Step, Footage!cluster
<1>3. ASSUME NEW r \in Runs, Footage!StopAll(r) PROVE QuietInv'
  <2>1. CASE Footage!Step(r, "clear")
    BY <1>0, <1>1, <1>3, <2>1, EarlyFits, OthersFit
       DEF Footage!StopAll, Footage!Step, Footage!cluster
  <2>2. CASE run' = [q \in Runs |-> IF q = r THEN [Footage!NoRun EXCEPT !.step = "clear"]
                                   ELSE IF Footage!At(q, "running") THEN Footage!Over ELSE run[q]]
    BY <1>0, <1>1, <1>3, <2>2, EarlyFits DEF Footage!StopAll, QuietInv, Footage!cluster
  <2> QED  BY <1>3, <2>1, <2>2 DEF Footage!StopAll
<1>4. ASSUME NEW r \in Runs, Footage!Clear(r) PROVE QuietInv'
  <2>1. CASE Footage!Marks(r, {}, "reload")
    BY <1>0, <1>1, <1>4, <2>1, EarlyFits, MarksFit DEF Footage!Clear, Footage!cluster
  <2>2. CASE Footage!MarkFails(r, "over")
    <3>1. [run[r] EXCEPT !.step = "over", !.warned = TRUE].warned
      BY <1>0 DEF Footage!RunStates
    <3> QED  BY <1>0, <1>4, <2>2, <3>1, EarlyFits, OthersFit
                DEF Footage!Clear, Footage!MarkFails, Footage!Warns, Footage!cluster
  <2> QED  BY <1>4, <2>1, <2>2 DEF Footage!Clear
<1>5. ASSUME NEW r \in Runs, Footage!Reload(r) PROVE QuietInv'
  BY <1>0, <1>1, <1>5, EarlyFits, OthersFit DEF Footage!Reload
<1>6. CASE Footage!Crash
  BY <1>0, <1>1, <1>6, EarlyFits DEF Footage!Crash, QuietInv, Footage!cluster
<1> QED  BY <1>2, <1>3, <1>4, <1>5, <1>6

LEMMA QuietStep == ASSUME Footage!TypeOK, QuietInv, [Footage!Next]_(Footage!vars) PROVE QuietInv'
<1>1. CASE UNCHANGED Footage!vars
  BY <1>1 DEF Footage!vars, QuietInv
<1>2. CASE Footage!Cluster
  BY <1>2, ClusterFits
<1> QED
  BY <1>1, <1>2, MarkingFits, SuspendingFits, StoppingFits
     DEF Footage!Next, Footage!Proceed, Footage!Down

LEMMA QuietStart == ASSUME Footage!Init PROVE QuietInv
<1>1. Footage!NoRun.step \notin Marked
  BY DEF Footage!NoRun, Marked, Alone, Done
<1> QED  BY <1>1, EarlyFits DEF Footage!Init, QuietInv

LEMMA QuietSuffices == ASSUME Footage!TypeOK, QuietInv PROVE Footage!QuietRun
BY DEF QuietInv, Footage!QuietRun, Fits, Footage!At, Alone, Done

(* startRun and stopRun: while a run is on that reported no warning and    *)
(* whose mark nobody has changed, none of the cameras it paused is         *)
(* analysed, whatever other runs, the reconciler's pods and faults do.     *)
THEOREM QuietRunHolds == ASSUME FaultsBounded PROVE Footage!Spec => []Footage!QuietRun
<1>1. Footage!Init => QuietInv
  BY QuietStart
<1>2. Footage!TypeOK /\ QuietInv /\ [Footage!Next]_(Footage!vars) => QuietInv'
  BY QuietStep
<1>3. Footage!TypeOK /\ QuietInv => Footage!QuietRun
  BY QuietSuffices
<1> QED
  BY <1>1, <1>2, <1>3, RunsTypeCorrect, PTL DEF Footage!Spec

--------------------------------------------------------------------------------
(* The console.                                                            *)
Bounds == MaxSaves \in Nat /\ MaxFaults \in Nat

--------------------------------------------------------------------------------
(* A step of the console is a step of the part or leaves it alone.         *)
LEMMA PoolMoves == [PartsNext]_all => [Pool!Next]_(Pool!vars)
BY DEF PartsNext, all, pool, Pool!vars
LEMMA BoxMoves == [PartsNext]_all => [Next]_vars
BY DEF PartsNext, all, box

LEMMA PoolIsOwn == PartsSpec => Pool!Spec
<1>1. PartsInit => Pool!Init
  BY DEF PartsInit
<1> QED  BY <1>1, PoolMoves, PTL DEF PartsSpec, Pool!Spec

LEMMA BoxIsOwn == PartsSpec => Spec
<1>1. PartsInit => Init
  BY DEF PartsInit
<1> QED  BY <1>1, BoxMoves, PTL DEF PartsSpec, Spec

(* box-mode.ts: the console lets no write through long after the box left  *)
(* vss, and refuses none long after it came back.                          *)
THEOREM GuardIsInTime == PartsSpec => PausesInTime /\ ResumesInTime
BY BoxIsOwn, PausesInTimeHolds, ResumesInTimeHolds, PTL

(* ffmpeg.ts: in the console, too, no place is free while a job waits.     *)
THEOREM NoPlaceIdles == PartsSpec => []NoIdlePlace
<1>1. Pool!NoIdlePlace => NoIdlePlace
  BY DEF NoIdlePlace
<1> QED  BY <1>1, PoolIsOwn, NoIdlePlaceHolds, PTL

(* ffmpeg.ts: nor do more processes run beyond the limit than failed       *)
(* spawns have given their place back twice.                               *)
THEOREM OverrunStaysBounded == ASSUME PoolSound PROVE PartsSpec => []OverrunIsBounded
<1>1. Pool!OverrunIsBounded => OverrunIsBounded
  BY DEF OverrunIsBounded
<1> QED  BY <1>1, PoolIsOwn, OverrunIsBoundedHolds, PTL

--------------------------------------------------------------------------------
LEMMA FootageIsOwn == PartsSpec => Footage!Spec
<1>1. PartsInit => Footage!Init
  BY DEF PartsInit
<1>2. [PartsNext]_all => [Footage!Next]_(Footage!vars)
  BY DEF PartsNext, all, footage, Footage!vars
<1> QED  BY <1>1, <1>2, PTL DEF PartsSpec, Footage!Spec

(* test-footage-run.ts: whatever else the console does and however runs    *)
(* overlap, an undisturbed run has the GPU to itself.                      *)
THEOREM QuietRunsStayQuiet == ASSUME Bounds PROVE PartsSpec => []QuietRun
<1>1. Footage!QuietRun => QuietRun
  BY DEF QuietRun
<1>2. FaultsBounded
  BY DEF Bounds, FaultsBounded
<1> QED  BY <1>1, <1>2, FootageIsOwn, QuietRunHolds, PTL

--------------------------------------------------------------------------------
(* The types of the alert scenarios.                                       *)

TaskType == /\ task \in [Scenarios!Actors -> Scenarios!Tasks]
            /\ \A a \in Scenarios!Actors : task[a].step # "idle" => task[a].want \in Scenarios!Payloads

LEMMA GoesTyped ==
  ASSUME TaskType, NEW a \in Scenarios!Actors, NEW t \in Scenarios!Tasks,
         t.step # "idle" => t.want \in Scenarios!Payloads, Scenarios!Goes(a, t)
  PROVE  TaskType'
BY DEF TaskType, Scenarios!Goes

LEMMA IdleTyped == Scenarios!Idle \in Scenarios!Tasks /\ Scenarios!Idle.step = "idle"
BY DEF Scenarios!Idle, Scenarios!Tasks, Scenarios!Keys

LEMMA WantsTyped ==
  ASSUME NEW p \in Scenarios!Payloads
  PROVE  Scenarios!Wants(p) \in Scenarios!Tasks /\ Scenarios!Wants(p).want \in Scenarios!Payloads
BY DEF Scenarios!Wants, Scenarios!Tasks, Scenarios!Keys

LEMMA SavedTyped ==
  ASSUME Bounds, saves \in 0 .. MaxSaves, NEW p \in Scenarios!Payloads, Scenarios!Saved(p)
  PROVE  saves' \in 0 .. MaxSaves /\ stored' \in Scenarios!Payloads
<1>1. saves + 1 \in 0 .. MaxSaves
  BY DEF Bounds, Scenarios!Saved
<1> QED  BY <1>1 DEF Scenarios!Saved, Scenarios!Payloads

LEMMA ServeTyped ==
  ASSUME Bounds, Scenarios!TypeOK, NEW r \in Requests, Scenarios!Serve(r)
  PROVE  Scenarios!TypeOK'
<1>0. TaskType /\ r \in Scenarios!Actors
  BY DEF Scenarios!TypeOK, TaskType, Scenarios!Actors
<1>1. ASSUME NEW p \in [rules : Rules, cooldown : Cooldowns, stamp : {0}], Scenarios!Save(r, p)
      PROVE  Scenarios!TypeOK'
  <2>1. p \in Scenarios!Payloads
    BY DEF Scenarios!Payloads, Bounds
  <2>2. TaskType'
    BY <1>0, <1>1, <2>1, WantsTyped, GoesTyped DEF Scenarios!Save
  <2> QED
    BY <1>1, <2>1, <2>2, SavedTyped DEF Scenarios!Save, Scenarios!TypeOK, TaskType
<1>2. CASE Scenarios!ReadForCooldown(r)
  <2>1. [Scenarios!Idle EXCEPT !.step = "cooldown", !.want = stored] \in Scenarios!Tasks
    BY DEF Scenarios!TypeOK, Scenarios!Idle, Scenarios!Tasks, Scenarios!Keys
  <2>2. [Scenarios!Idle EXCEPT !.step = "cooldown", !.want = stored].want = stored
    BY DEF Scenarios!Idle
  <2>3. TaskType'
    BY <1>0, <1>2, <2>1, <2>2, GoesTyped DEF Scenarios!ReadForCooldown, Scenarios!TypeOK
  <2> QED  BY <1>2, <2>3 DEF Scenarios!ReadForCooldown, Scenarios!TypeOK, TaskType
<1>3. CASE Scenarios!Abandon(r)
  <2>1. TaskType'
    BY <1>0, <1>3, IdleTyped, GoesTyped DEF Scenarios!Abandon
  <2> QED  BY <1>3, <2>1 DEF Scenarios!Abandon, Scenarios!TypeOK, TaskType
<1>4. ASSUME NEW c \in Cooldowns, Scenarios!WriteCooldown(r, c) PROVE Scenarios!TypeOK'
  <2> DEFINE p == [task[r].want EXCEPT !.cooldown = c]
  <2>1. p \in Scenarios!Payloads
    BY <1>0, <1>4 DEF Scenarios!WriteCooldown, Scenarios!At, TaskType, Scenarios!Payloads
  <2>2. Scenarios!Saved(p) /\ Scenarios!Goes(r, Scenarios!Wants(p))
    BY <1>4 DEF Scenarios!WriteCooldown
  <2>3. TaskType'
    BY <1>0, <2>1, <2>2, WantsTyped, GoesTyped
  <2>4. saves' \in 0 .. MaxSaves /\ stored' \in Scenarios!Payloads
    BY <2>1, <2>2, SavedTyped DEF Scenarios!TypeOK
  <2> QED  BY <1>4, <2>3, <2>4 DEF Scenarios!WriteCooldown, Scenarios!TypeOK, TaskType
<1> QED  BY <1>1, <1>2, <1>3, <1>4 DEF Scenarios!Serve

LEMMA WorkTyped ==
  ASSUME Bounds, Scenarios!TypeOK, NEW a \in Scenarios!Actors,
         Scenarios!Proceed(a) \/ Scenarios!Fail(a) \/ Scenarios!BeginPass(a)
  PROVE  Scenarios!TypeOK'
<1>0. TaskType /\ task[a] \in Scenarios!Tasks
  BY DEF Scenarios!TypeOK, TaskType
<1>1. CASE Scenarios!ReadKey(a)
  <2>1. ASSUME NEW k \in Scenarios!Keys
        PROVE  LET t == [task[a] EXCEPT !.step = "compare", !.seen = k]
               IN  t \in Scenarios!Tasks /\ t.want = task[a].want
    BY <1>0 DEF Scenarios!Tasks
  <2>2. live \in Scenarios!Keys /\ NoPayload \in Scenarios!Keys
    BY DEF Scenarios!TypeOK, Scenarios!Keys
  <2>3. task[a].want \in Scenarios!Payloads
    BY <1>0, <1>1 DEF Scenarios!ReadKey, Scenarios!At, TaskType
  <2>4. TaskType'
    BY <1>0, <1>1, <2>1, <2>2, <2>3, GoesTyped DEF Scenarios!ReadKey
  <2>5. faults' \in 0 .. MaxFaults
    BY <1>1 DEF Scenarios!ReadKey, Scenarios!TypeOK, Bounds
  <2> QED  BY <1>1, <2>4, <2>5 DEF Scenarios!ReadKey, Scenarios!TypeOK, TaskType
<1>2. CASE Scenarios!PatchIfDifferent(a)
  <2>1. LET t == [task[a] EXCEPT !.step = "restart"]
        IN  t \in Scenarios!Tasks /\ t.want = task[a].want
    BY <1>0 DEF Scenarios!Tasks
  <2>2. task[a].want \in Scenarios!Payloads
    BY <1>0, <1>2 DEF Scenarios!PatchIfDifferent, Scenarios!Patch, Scenarios!At, TaskType
  <2>3. TaskType'
    BY <1>0, <1>2, <2>1, <2>2, IdleTyped, GoesTyped
       DEF Scenarios!PatchIfDifferent, Scenarios!Patch
  <2>4. live' \in Scenarios!Keys
    BY <1>2, <2>2
    DEF Scenarios!PatchIfDifferent, Scenarios!Patch, Scenarios!TypeOK, Scenarios!Keys
  <2> QED
    BY <1>2, <2>3, <2>4
       DEF Scenarios!PatchIfDifferent, Scenarios!Patch, Scenarios!TypeOK, TaskType
<1>3. CASE Scenarios!RestartWorker(a)
  <2>1. TaskType'
    BY <1>0, <1>3, IdleTyped, GoesTyped DEF Scenarios!RestartWorker
  <2> QED  BY <1>3, <2>1 DEF Scenarios!RestartWorker, Scenarios!TypeOK, TaskType
<1>4. CASE Scenarios!Fail(a)
  <2>1. TaskType'
    BY <1>0, <1>4, IdleTyped, GoesTyped DEF Scenarios!Fail
  <2>2. faults' \in 0 .. MaxFaults
    BY <1>4 DEF Scenarios!Fail, Scenarios!TypeOK, Bounds
  <2> QED  BY <1>4, <2>1, <2>2 DEF Scenarios!Fail, Scenarios!TypeOK, TaskType
<1>5. CASE Scenarios!BeginPass(a)
  <2>1. TaskType'
    BY <1>0, <1>5, WantsTyped, GoesTyped
    DEF Scenarios!BeginPass, Scenarios!BeginPassFrom, Scenarios!TypeOK
  <2> QED
    BY <1>5, <2>1 DEF Scenarios!BeginPass, Scenarios!BeginPassFrom, Scenarios!TypeOK, TaskType
<1> QED  BY <1>1, <1>2, <1>3, <1>4, <1>5 DEF Scenarios!Proceed

LEMMA ScenariosTyped ==
  ASSUME Bounds, Scenarios!TypeOK, [PartsNext]_all
  PROVE  Scenarios!TypeOK'
<1>1. Scenarios!Next \/ UNCHANGED scenarios
  BY DEF PartsNext, all
<1>2. CASE UNCHANGED scenarios
  BY <1>2 DEF scenarios, Scenarios!TypeOK
<1> QED
  BY <1>1, <1>2, ServeTyped, WorkTyped DEF Scenarios!Next, Scenarios!Actors

LEMMA ScenariosStart == ASSUME Bounds, Scenarios!Init PROVE Scenarios!TypeOK
<1>1. TaskType
  BY IdleTyped DEF Scenarios!Init, TaskType
<1>2. stored \in Scenarios!Payloads
  BY DEF Scenarios!Init, Scenarios!Payloads, Bounds
<1> QED  BY <1>1, <1>2 DEF Scenarios!Init, Scenarios!TypeOK, TaskType, Scenarios!Keys, Bounds

(* All parts keep their types.                                             *)
THEOREM PartsTypeCorrect == ASSUME Bounds PROVE PartsSpec => []PartsTypeOK
<1>1. PartsSpec => []Scenarios!TypeOK
  <2>1. PartsInit => Scenarios!TypeOK
    BY ScenariosStart DEF PartsInit
  <2>2. Scenarios!TypeOK /\ [PartsNext]_all => Scenarios!TypeOK'
    BY ScenariosTyped
  <2> QED  BY <2>1, <2>2, PTL DEF PartsSpec
<1>2. TypeOK /\ Pool!TypeOK /\ Footage!TypeOK /\ Scenarios!TypeOK => PartsTypeOK
  BY DEF PartsTypeOK
<1>3. FaultsBounded
  BY DEF Bounds, FaultsBounded
<1> QED
  BY <1>1, <1>2, <1>3, BoxIsOwn, PoolIsOwn, FootageIsOwn, TypeCorrect, PoolTypeCorrect,
     RunsTypeCorrect, PTL
===============================================================================
