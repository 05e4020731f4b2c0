-------------------------- MODULE PromptReconcileProofs -------------------------
(***************************************************************************)
(* The VLM prompt's types, and that a VLM that has a prompt keeps one, for *)
(* any number of sets, texts and requests.                                 *)
(***************************************************************************)
EXTENDS PromptReconcile, TLAPS

(* TypeOK in parts.                                                        *)
WritesText(j) == j.step \in {"compare", "patch", "write"} => j.text # NoText
JobsType  == job \in [Actors -> Jobs] /\ \A a \in Actors : WritesText(job[a])
StoreType == library \in [Sets -> Maybe] /\ active \in Sets \union {NoSet} /\ legacy \in Maybe
BoxType   == mode \in {"vss", "llm"} /\ known \in {"vss", "llm"} /\ graphs \in {"on", "off", "unsaid"}
EnvType   == env \in Envs
UsedType  ==
  used \in [requests : 0 .. MaxRequests, flips : 0 .. MaxFlips, faults : 0 .. MaxFaults]

LEMMA TypeParts == TypeOK <=> JobsType /\ StoreType /\ BoxType /\ EnvType /\ UsedType
BY DEF TypeOK, JobsType, WritesText, StoreType, BoxType, EnvType, UsedType

LEMMA TypeAgain ==
  ASSUME JobsType', StoreType', BoxType', EnvType', UsedType'
  PROVE  TypeOK'
BY DEF TypeOK, JobsType, WritesText, StoreType, BoxType, EnvType, UsedType

(* One actor gets a new job, the others keep theirs.                       *)
LEMMA BecomesTyped ==
  ASSUME JobsType, NEW a \in Actors, NEW j \in Jobs, WritesText(j), Becomes(a, j)
  PROVE  JobsType'
BY DEF JobsType, Becomes

LEMMA BlankTyped == Blank \in Jobs /\ Asked \in Jobs /\ WritesText(Blank) /\ Blank.step = "idle"
                    /\ Asked.text = NoText /\ Asked.step = "idle"
BY PromptAssumption DEF Blank, Asked, Jobs, Steps, Maybe, Envs, WritesText

LEMMA DoneTyped ==
  ASSUME JobsType, NEW a \in Actors, Done(a)
  PROVE  JobsType'
BY BlankTyped, BecomesTyped DEF Done

LEMMA BootingTyped == ASSUME job' = Booting PROVE JobsType'
<1>1. [Blank EXCEPT !.step = "seed"] \in Jobs /\ WritesText([Blank EXCEPT !.step = "seed"])
  BY BlankTyped DEF Jobs, Steps, WritesText
<1> QED  BY <1>1, BlankTyped DEF JobsType, Booting

LEMMA DesiredTyped == ASSUME StoreType PROVE Desired \in Maybe
BY DEF StoreType, Desired, Stored

LEMMA UsedTyped ==
  ASSUME UsedType, Sound \/ Fault \/ (\E o : Arrives(o)) \/ Switch
  PROVE  UsedType'
BY PromptAssumption DEF UsedType, Sound, Fault, Arrives, Switch

--------------------------------------------------------------------------------
(* Each step keeps the types.                                              *)

LEMMA RequestTyped == ASSUME TypeOK, NEW o \in Operators, Request(o) PROVE TypeOK'
<1>0. /\ JobsType /\ StoreType /\ BoxType /\ EnvType /\ UsedType
      /\ o \in Actors /\ Texts \subseteq Maybe /\ NoText \notin Texts
  BY TypeParts, PromptAssumption DEF Actors, Maybe
<1>1. UsedType' /\ BoxType' /\ EnvType'
  <2>1. Arrives(o) /\ UNCHANGED <<env, mode, known, graphs>>
    BY DEF Request, SaveSet, AskDelete, Activate, EditPrompt, Tune, store
  <2>2. UsedType'
    BY <1>0, <2>1, UsedTyped
  <2> QED  BY <1>0, <2>1, <2>2 DEF BoxType, EnvType
<1>2. StoreType'
  BY <1>0 DEF Request, SaveSet, AskDelete, Activate, EditPrompt, Tune, store, StoreType, Stored
<1>3. JobsType'
  <2>1. ASSUME NEW s \in Sets, NEW t \in Texts, SaveSet(o, s, t) PROVE JobsType'
    BY <1>0, <2>1 DEF SaveSet, JobsType
  <2>2. ASSUME NEW s \in Sets, AskDelete(o, s) PROVE JobsType'
    <3>1. LET j == [Asked EXCEPT !.step = "delete", !.id = s] IN j \in Jobs /\ WritesText(j)
      BY BlankTyped DEF Jobs, Steps, WritesText
    <3> QED  BY <1>0, <2>2, <3>1, BecomesTyped DEF AskDelete
  <2>3. ASSUME NEW s \in Sets, Activate(o, s) PROVE JobsType'
    <3>1. LET j == [Asked EXCEPT !.step = "desired"] IN j \in Jobs /\ WritesText(j)
      BY BlankTyped DEF Jobs, Steps, WritesText
    <3> QED  BY <1>0, <2>3, <3>1, BecomesTyped DEF Activate
  <2>4. ASSUME NEW t \in Texts, EditPrompt(o, t) PROVE JobsType'
    <3>1. LET j == [Asked EXCEPT !.step = "compare", !.text = t] IN j \in Jobs /\ WritesText(j)
      BY <1>0, BlankTyped DEF Jobs, Steps, WritesText
    <3> QED  BY <1>0, <2>4, <3>1, BecomesTyped DEF EditPrompt
  <2>5. ASSUME NEW off \in BOOLEAN, Tune(o, off) PROVE JobsType'
    <3>1. LET j == [Blank EXCEPT !.step = "tune", !.off = off] IN j \in Jobs /\ WritesText(j)
      BY BlankTyped DEF Jobs, Steps, WritesText
    <3> QED  BY <1>0, <2>5, <3>1, BecomesTyped DEF Tune
  <2> QED  BY <2>1, <2>2, <2>3, <2>4, <2>5 DEF Request
<1> QED  BY <1>1, <1>2, <1>3, TypeAgain

(* What reconcilePrompt and the tuning route do next.                      *)
LEMMA ProceedTyped == ASSUME TypeOK, NEW a \in Actors, Proceed(a) PROVE TypeOK'
<1>0. JobsType /\ StoreType /\ BoxType /\ EnvType /\ UsedType /\ job[a] \in Jobs /\ WritesText(job[a])
  BY TypeParts DEF JobsType
<1>1. UsedType' /\ StoreType'
  <2>1. Sound
    BY DEF Proceed, ReadDesired, Compare, ReadDeployment, PatchEnv, Delete, ReadForTuning,
           PatchTuning, Guarded
  <2>2. StoreType'
    BY <1>0 DEF Proceed, ReadDesired, Compare, ReadDeployment, PatchEnv, Delete, ReadForTuning,
                PatchTuning, Guarded, store, StoreType, Jobs, Maybe
  <2> QED  BY <1>0, <2>1, <2>2, UsedTyped
<1>2. BoxType'
  BY <1>0 DEF Proceed, ReadDesired, Compare, ReadDeployment, PatchEnv, Delete, ReadForTuning,
              PatchTuning, Guarded, BoxType
<1>3. EnvType'
  <2>1. job[a].seen \in Envs /\ job[a].text \in Maybe /\ job[a].off \in BOOLEAN
    BY <1>0 DEF Jobs
  <2>2. CASE PatchEnv(a)
    BY <1>0, <2>1, <2>2 DEF PatchEnv, EnvType, Envs
  <2>3. CASE PatchTuning(a)
    BY <1>0, <2>1, <2>3 DEF PatchTuning, EnvType, Envs
  <2> QED
    BY <1>0, <2>2, <2>3 DEF Proceed, ReadDesired, Compare, ReadDeployment, Delete, ReadForTuning,
                            Guarded, EnvType
<1>4. JobsType'
  <2>1. CASE Done(a)
    BY <1>0, <2>1, DoneTyped
  <2>2. CASE ReadDesired(a)
    <3>1. CASE Desired # NoText
      <4>1. LET j == [job[a] EXCEPT !.step = "compare", !.text = Desired]
            IN  j \in Jobs /\ WritesText(j)
        BY <1>0, <3>1, DesiredTyped DEF Jobs, Steps, WritesText
      <4> QED  BY <1>0, <2>2, <3>1, <4>1, BecomesTyped DEF ReadDesired
    <3> QED  BY <2>1, <2>2, <3>1 DEF ReadDesired
  <2>3. CASE Compare(a)
    <3>1. [job[a] EXCEPT !.step = "patch"] \in Jobs
      BY <1>0 DEF Jobs, Steps
    <3>2. WritesText([job[a] EXCEPT !.step = "patch"])
      BY <1>0, <2>3 DEF Compare, At, Jobs, WritesText
    <3> QED  BY <1>0, <2>1, <2>3, <3>1, <3>2, BecomesTyped DEF Compare, Goes
  <2>4. CASE ReadDeployment(a)
    <3>1. [job[a] EXCEPT !.step = "write", !.seen = env] \in Jobs
      BY <1>0 DEF Jobs, Steps, EnvType
    <3>2. WritesText([job[a] EXCEPT !.step = "write", !.seen = env])
      BY <1>0, <2>4 DEF ReadDeployment, Guarded, At, Jobs, WritesText
    <3> QED  BY <1>0, <2>1, <2>4, <3>1, <3>2, BecomesTyped DEF ReadDeployment, Guarded
  <2>5. CASE ReadForTuning(a)
    <3>1. [job[a] EXCEPT !.step = "tuneWrite", !.seen = env] \in Jobs
      BY <1>0 DEF Jobs, Steps, EnvType
    <3>2. WritesText([job[a] EXCEPT !.step = "tuneWrite", !.seen = env])
      BY <1>0 DEF Jobs, WritesText
    <3> QED  BY <1>0, <2>1, <2>5, <3>1, <3>2, BecomesTyped DEF ReadForTuning, Guarded
  <2> QED
    BY <2>1, <2>2, <2>3, <2>4, <2>5 DEF Proceed, PatchEnv, Delete, PatchTuning
<1> QED  BY <1>1, <1>2, <1>3, <1>4, TypeAgain

(* The loop's own steps: the beginning of a pass, and the seeding.         *)
LEMMA LoopTyped == ASSUME TypeOK, BeginPass \/ Seed PROVE TypeOK'
<1>0. /\ JobsType /\ StoreType /\ BoxType /\ EnvType /\ UsedType /\ Loop \in Actors
      /\ job[Loop] \in Jobs /\ WritesText(job[Loop])
  BY TypeParts DEF JobsType, Actors
<1> USE DEF Seed, BeginPass, SeedSets, SeedActive, SeedText, SeedSet, SeedPoint
<1>1. UsedType' /\ BoxType' /\ EnvType'
  <2>1. Sound /\ UNCHANGED <<env, mode, known, graphs>>
    OBVIOUS
  <2>2. UsedType'
    BY <1>0, <2>1, UsedTyped
  <2> QED  BY <1>0, <2>1, <2>2 DEF BoxType, EnvType
<1>2. StoreType'
  BY <1>0, PromptAssumption DEF store, StoreType, Jobs
<1>3. JobsType'
  <2>1. CASE Done(Loop)
    BY <1>0, <2>1, DoneTyped
  <2>2. CASE BeginPass
    <3>1. LET j == [Asked EXCEPT !.step = "desired"] IN j \in Jobs /\ WritesText(j)
      BY BlankTyped DEF Jobs, Steps, WritesText
    <3> QED  BY <1>0, <2>2, <3>1, BecomesTyped
  <2>3. CASE SeedSets
    <3>1. ASSUME NEW s \in {"seedText", "seedActive"}
          PROVE  LET j == [job[Loop] EXCEPT !.ids = Stored, !.step = s]
                 IN  j \in Jobs /\ WritesText(j)
      BY <1>0 DEF Jobs, Steps, Stored, WritesText
    <3> QED  BY <1>0, <2>3, <3>1, BecomesTyped
  <2>4. CASE SeedActive
    <3>1. ASSUME NEW t \in Sets
          PROVE  LET j == [job[Loop] EXCEPT !.step = "seedPoint", !.id = t]
                 IN  j \in Jobs /\ WritesText(j)
      BY <1>0 DEF Jobs, Steps, WritesText
    <3>2. job[Loop].ids \subseteq Sets
      BY <1>0 DEF Jobs
    <3> QED  BY <1>0, <2>1, <2>4, <3>1, <3>2, BecomesTyped, PromptAssumption
  <2>5. CASE SeedText
    <3>1. ASSUME NEW t \in Maybe
          PROVE  LET j == [job[Loop] EXCEPT !.step = "seedSet", !.text = t]
                 IN  j \in Jobs /\ WritesText(j)
      BY <1>0 DEF Jobs, Steps, WritesText
    <3>2. (IF Desired = NoText THEN Bundled ELSE Desired) \in Maybe
      BY <1>0, DesiredTyped, PromptAssumption DEF Maybe
    <3> QED  BY <1>0, <2>5, <3>1, <3>2, BecomesTyped
  <2>6. CASE SeedSet
    <3>1. LET j == [job[Loop] EXCEPT !.step = "seedPoint", !.id = Default]
          IN  j \in Jobs /\ WritesText(j)
      BY <1>0, PromptAssumption DEF Jobs, Steps, WritesText
    <3> QED  BY <1>0, <2>6, <3>1, BecomesTyped
  <2> QED  BY <2>1, <2>2, <2>3, <2>4, <2>5, <2>6
<1> QED  BY <1>1, <1>2, <1>3, TypeAgain

LEMMA TypeStep == ASSUME TypeOK, [Next]_vars PROVE TypeOK'
<1>0. JobsType /\ StoreType /\ BoxType /\ EnvType /\ UsedType
  BY TypeParts
<1>1. ASSUME NEW a \in Actors, Fail(a) PROVE TypeOK'
  <2>1. JobsType' /\ UsedType'
    BY <1>0, <1>1, DoneTyped, UsedTyped DEF Fail
  <2>2. StoreType' /\ BoxType' /\ EnvType'
    BY <1>0, <1>1 DEF Fail, store, StoreType, BoxType, EnvType
  <2> QED  BY <2>1, <2>2, TypeAgain
<1>2. CASE Restart
  <2>1. JobsType' /\ UsedType'
    BY <1>0, <1>2, BootingTyped, UsedTyped DEF Restart
  <2>2. StoreType' /\ BoxType' /\ EnvType'
    BY <1>0, <1>2 DEF Restart, store, StoreType, BoxType, EnvType
  <2> QED  BY <2>1, <2>2, TypeAgain
<1>3. CASE Switch \/ Learn \/ LearnNothing
  <2>1. UsedType'
    BY <1>0, <1>3, UsedTyped DEF Learn, LearnNothing
  <2>2. JobsType'
    BY <1>0, <1>3 DEF Switch, Learn, LearnNothing, JobsType
  <2>3. StoreType' /\ BoxType' /\ EnvType'
    BY <1>0, <1>3 DEF Switch, Learn, LearnNothing, store, StoreType, BoxType, EnvType
  <2> QED  BY <2>1, <2>2, <2>3, TypeAgain
<1>4. CASE UNCHANGED vars
  BY <1>4 DEF vars, TypeOK, Stored
<1> QED
  BY <1>1, <1>2, <1>3, <1>4, RequestTyped, ProceedTyped, LoopTyped DEF Next

LEMMA TypeStart == ASSUME Init PROVE TypeOK
<1>1. JobsType
  <2>1. [Blank EXCEPT !.step = "seed"] \in Jobs /\ WritesText([Blank EXCEPT !.step = "seed"])
    BY BlankTyped DEF Jobs, Steps, WritesText
  <2> QED  BY <2>1, BlankTyped DEF Init, JobsType, Booting
<1>2. StoreType /\ BoxType
  BY DEF Init, StoreType, BoxType, Maybe
<1>3. EnvType
  BY PromptAssumption DEF Init, EnvType, Envs, Maybe
<1>4. UsedType
  BY PromptAssumption DEF Init, UsedType
<1> QED  BY <1>1, <1>2, <1>3, <1>4, TypeParts

(* Every variable keeps the type of what it models, and a job that is to   *)
(* compare or to write a prompt has one (reconcile/prompt.ts).             *)
THEOREM TypeCorrect == Spec => []TypeOK
<1>1. Init => TypeOK
  BY TypeStart
<1>2. TypeOK /\ [Next]_vars => TypeOK'
  BY TypeStep
<1> QED
  BY <1>1, <1>2, PTL DEF Spec

--------------------------------------------------------------------------------
(* Only two steps write the Deployment, and each has a prompt to write or  *)
(* leaves the one there is.                                                *)
LEMMA PromptStep ==
  ASSUME TypeOK, [Next]_vars, env.prompt # NoText
  PROVE  env'.prompt # NoText
<1>1. ASSUME NEW a \in Actors, PatchEnv(a) PROVE env'.prompt # NoText
  BY <1>1 DEF PatchEnv, At, TypeOK
<1>2. ASSUME NEW a, PatchTuning(a) PROVE env'.prompt # NoText
  BY <1>2 DEF PatchTuning
<1>3. ASSUME env' = env PROVE env'.prompt # NoText
  BY <1>3
<1> QED
  BY <1>1, <1>2, <1>3
  DEF Next, vars, Request, SaveSet, AskDelete, Activate, EditPrompt, Tune, Proceed, ReadDesired,
      Compare, ReadDeployment, ReadForTuning, Guarded, Delete, BeginPass, Seed, SeedSets,
      SeedActive, SeedText, SeedSet, SeedPoint, Fail, Restart, Switch, Learn, LearnNothing

(* prompt/route.ts, reconcile/prompt.ts and tuning/rtvi/route.ts: whatever *)
(* is deleted, activated, saved, paused and restarted in between, the VLM  *)
(* is never left without the prompt it had or a newer one.                 *)
THEOREM PromptStays == Spec => PromptIsKept
<1>1. TypeOK /\ [Next]_vars => [env.prompt # NoText => env'.prompt # NoText]_vars
  BY PromptStep
<1> QED
  BY <1>1, TypeCorrect, PTL DEF Spec, PromptIsKept
================================================================================
