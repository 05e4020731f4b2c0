--------------------------- MODULE PromptReconcile ---------------------------
(***************************************************************************)
(* The VLM prompt: the library of prompt sets and the active pointer of    *)
(* the config store, the routes that edit them, and the writers of the VLM *)
(* Deployment's environment, which are the reconcile loop, the prompt      *)
(* route and the RTVI tuning route.  All of them live in one process, the  *)
(* loop seeds the library when it starts, and none of them writes the      *)
(* Deployment while the box mode they know is not `vss`.                   *)
(*                                                                         *)
(* A store call is atomic (FileStore shows why); a handler is the sequence *)
(* of its calls.  Two reads of the mode within the life of one cached      *)
(* answer are one answer: `known`, which BoxMode models in time.           *)
(***************************************************************************)
EXTENDS Naturals, FiniteSets

CONSTANTS
  Sets,         \* ids of prompt sets
  Default,      \* the id "default"
  Texts,        \* prompt texts
  Bundled,      \* the default text the console ships
  NoText,       \* no prompt
  NoSet,        \* no active pointer
  Operators,    \* requests that may be served at a time
  Loop,         \* the reconcile loop
  MaxRequests,  \* bound: requests
  MaxFlips,     \* bound: changes of the box's mode
  MaxFaults     \* bound: failed calls and restarts of the process

ASSUME PromptAssumption ==
  /\ Default \in Sets /\ NoSet \notin Sets
  /\ Bundled \in Texts /\ NoText \notin Texts
  /\ Loop \notin Operators
  /\ MaxRequests \in Nat /\ MaxFlips \in Nat /\ MaxFaults \in Nat

VARIABLES
  library,   \* promptSets: the text of each set, NoText where there is none
  active,    \* activePromptId
  legacy,    \* the single prompt doc
  env,       \* the Deployment: its prompt, and whether the switch-off of CUDA
             \* graphs, which is a variable's presence, is there
  mode,      \* the box's mode: "vss" or "llm"
  known,     \* the mode the process knows
  job,       \* what each request and the loop is doing
  graphs,    \* history: CUDA graphs as last saved, and acknowledged
  used       \* requests, flips and faults so far

vars == <<library, active, legacy, env, mode, known, job, graphs, used>>
store == <<library, active, legacy>>

Actors == Operators \union {Loop}
Maybe  == Texts \union {NoText}
Envs   == [prompt : Maybe, graphsOff : BOOLEAN]

(* A job: its next step, the box as it was asked at its start, the set and *)
(* the text it is about, the ids or the environment it has read.           *)
Steps == {"idle", "delete", "desired", "compare", "patch", "write", "tune", "tuneWrite",
          "seed", "seedActive", "seedRepair", "seedText", "seedSet", "seedPoint"}
Jobs  == [step : Steps, paused : BOOLEAN, id : Sets, text : Maybe,
          ids : SUBSET Sets, seen : Envs, off : BOOLEAN]
Blank == [step |-> "idle", paused |-> FALSE, id |-> Default, text |-> NoText, ids |-> {},
          seen |-> [prompt |-> NoText, graphsOff |-> FALSE], off |-> FALSE]

Stored == {s \in Sets : library[s] # NoText}

(* readPrompt: the active set's text, else the single document's.          *)
Desired == IF active \in Stored THEN library[active] ELSE legacy

(* Every variable keeps the type of what it models, and a job that is to   *)
(* compare or to write a prompt has one.                                   *)
TypeOK ==
  /\ library \in [Sets -> Maybe] /\ active \in Sets \union {NoSet} /\ legacy \in Maybe
  /\ env \in Envs
  /\ mode \in {"vss", "llm"} /\ known \in {"vss", "llm"}
  /\ job \in [Actors -> Jobs]
  /\ \A a \in Actors : job[a].step \in {"compare", "patch", "write"} => job[a].text # NoText
  /\ graphs \in {"on", "off", "unsaid"}
  /\ used \in [requests : 0 .. MaxRequests, flips : 0 .. MaxFlips, faults : 0 .. MaxFaults]

Booting == [a \in Actors |-> IF a = Loop THEN [Blank EXCEPT !.step = "seed"] ELSE Blank]

(* A store nothing has been saved to yet, or one with a single document; a *)
(* Deployment that has no prompt yet, or the chart's.                      *)
Init == /\ library = [s \in Sets |-> NoText] /\ active = NoSet
        /\ legacy \in Maybe
        /\ env \in [prompt : {NoText, Bundled}, graphsOff : {FALSE}]
        /\ mode = "vss" /\ known = "vss"
        /\ job = Booting
        /\ graphs = "unsaid"
        /\ used = [requests |-> 0, flips |-> 0, faults |-> 0]

--------------------------------------------------------------------------------
(* Steps of a job.                                                         *)

At(a, step)    == job[a].step = step
Becomes(a, j)  == job' = [job EXCEPT ![a] = j]
Goes(a, step)  == Becomes(a, [job[a] EXCEPT !.step = step])
Done(a)        == Becomes(a, Blank)
Fault          == used.faults < MaxFaults /\ used' = [used EXCEPT !.faults = @ + 1]
Sound          == used' = used

(* A request is taken by a free operator; it asks for the mode first.      *)
Arrives(o) == /\ At(o, "idle") /\ used.requests < MaxRequests
              /\ used' = [used EXCEPT !.requests = @ + 1]
Asked      == [Blank EXCEPT !.paused = known # "vss"]

SaveSet(o, s, t) ==
  /\ Arrives(o)
  /\ library' = [library EXCEPT ![s] = t]
  /\ UNCHANGED <<active, legacy, env, mode, known, job, graphs>>

(* {deleteSetId}: the pointer is read, the set is deleted in a later call. *)
AskDelete(o, s) ==
  /\ Arrives(o)
  /\ active # s
  /\ Becomes(o, [Asked EXCEPT !.step = "delete", !.id = s])
  /\ UNCHANGED <<store, env, mode, known, graphs>>

Delete(o) ==
  /\ At(o, "delete") /\ Done(o) /\ Sound
  /\ library' = [library EXCEPT ![job[o].id] = NoText]
  /\ UNCHANGED <<active, legacy, env, mode, known, graphs>>

(* {activePromptId}: the page offers the sets there are.                   *)
Activate(o, s) ==
  /\ Arrives(o) /\ s \in Stored
  /\ active' = s
  /\ Becomes(o, [Asked EXCEPT !.step = "desired"])
  /\ UNCHANGED <<library, legacy, env, mode, known, graphs>>

(* {prompt}: the text saved is the text applied, whatever set is active.   *)
EditPrompt(o, t) ==
  /\ Arrives(o)
  /\ legacy' = t
  /\ Becomes(o, [Asked EXCEPT !.step = "compare", !.text = t])
  /\ UNCHANGED <<library, active, env, mode, known, graphs>>

(* The tuning route refuses up front while the box is paused.              *)
Tune(o, off) ==
  /\ Arrives(o) /\ known = "vss"
  /\ Becomes(o, [Blank EXCEPT !.step = "tune", !.off = off])
  /\ UNCHANGED <<store, env, mode, known, graphs>>

--------------------------------------------------------------------------------
(* reconcilePrompt, for the loop and for the prompt route.                 *)

ReadDesiredBlank(a) == \* (variant) no desired prompt is a blank one
  /\ At(a, "desired") /\ Sound
  /\ Becomes(a, [job[a] EXCEPT !.step = "compare", !.text = Desired])
  /\ UNCHANGED <<store, env, mode, known, graphs>>

ReadDesired(a) ==
  /\ At(a, "desired") /\ Sound
  /\ IF Desired = NoText THEN Done(a)
     ELSE Becomes(a, [job[a] EXCEPT !.step = "compare", !.text = Desired])
  /\ UNCHANGED <<store, env, mode, known, graphs>>

CompareNothing(a) == \* (variant) patched whether it differs or not
  /\ At(a, "compare") /\ Sound
  /\ IF job[a].paused THEN Done(a) ELSE Goes(a, "patch")
  /\ UNCHANGED <<store, env, mode, known, graphs>>

Compare(a) ==
  /\ At(a, "compare") /\ Sound
  /\ IF env.prompt = job[a].text \/ job[a].paused THEN Done(a) ELSE Goes(a, "patch")
  /\ UNCHANGED <<store, env, mode, known, graphs>>

(* The guard asks again, then the Deployment is read.                      *)
Guarded(a, step, next) ==
  /\ At(a, step) /\ Sound
  /\ IF known # "vss" THEN Done(a)
     ELSE Becomes(a, [job[a] EXCEPT !.step = next, !.seen = env])
  /\ UNCHANGED <<store, env, mode, known, graphs>>
ReadDeployment(a) == Guarded(a, "patch", "write")
ReadForTuning(o)  == Guarded(o, "tune", "tuneWrite")

(* A strategic merge patch merges the variables it names by their name and *)
(* leaves those it does not name.  The restart that follows changes        *)
(* nothing here: a changed template already rolls the pods.                *)
PatchEnv(a) ==
  /\ At(a, "write") /\ Done(a) /\ Sound
  /\ env' = [prompt |-> job[a].text, graphsOff |-> env.graphsOff \/ job[a].seen.graphsOff]
  /\ UNCHANGED <<store, mode, known, graphs>>

PatchTuningWhole(o) == \* (variant) the environment read replaces the one there is
  /\ At(o, "tuneWrite") /\ Done(o) /\ Sound
  /\ env' = [job[o].seen EXCEPT !.graphsOff = @ \/ job[o].off]
  /\ graphs' = IF job[o].off THEN "off" ELSE "on"
  /\ UNCHANGED <<store, mode, known>>

PatchTuning(o) ==
  /\ At(o, "tuneWrite") /\ Done(o) /\ Sound
  /\ env' = [prompt    |-> IF job[o].seen.prompt = NoText THEN env.prompt ELSE job[o].seen.prompt,
             graphsOff |-> env.graphsOff \/ job[o].off]
  /\ graphs' = IF job[o].off THEN "off" ELSE "on"
  /\ UNCHANGED <<store, mode, known>>

--------------------------------------------------------------------------------
(* The loop.  A pass asks for the mode before it converges the cameras and *)
(* reads the desired prompt after that.                                    *)

BeginPassOnce == \* (variant) a pause, once seen, is remembered
  /\ At(Loop, "idle") /\ Sound
  /\ Becomes(Loop, [Blank EXCEPT !.step = "desired", !.paused = used.flips > 0])
  /\ UNCHANGED <<store, env, mode, known, graphs>>

BeginPass ==
  /\ At(Loop, "idle") /\ Sound
  /\ Becomes(Loop, [Asked EXCEPT !.step = "desired"])
  /\ UNCHANGED <<store, env, mode, known, graphs>>

(* seedDefaultPromptSet, before the first pass.                            *)
SeedSets ==
  /\ At(Loop, "seed") /\ Sound
  /\ Becomes(Loop, [job[Loop] EXCEPT !.ids = Stored,
                                     !.step = IF Stored = {} THEN "seedText" ELSE "seedActive"])
  /\ UNCHANGED <<store, env, mode, known, graphs>>

SeedActive ==
  /\ At(Loop, "seedActive") /\ Sound
  /\ LET ids    == job[Loop].ids
         target == IF Default \in ids THEN {Default} ELSE IF Cardinality(ids) = 1 THEN ids ELSE {}
     IN  IF active \in ids \/ target = {} THEN Done(Loop)
         ELSE \E t \in target : Becomes(Loop, [job[Loop] EXCEPT !.step = "seedPoint", !.id = t])
  /\ UNCHANGED <<store, env, mode, known, graphs>>

SeedText ==
  /\ At(Loop, "seedText") /\ Sound
  /\ Becomes(Loop, [job[Loop] EXCEPT !.step = "seedSet",
                                     !.text = IF Desired = NoText THEN Bundled ELSE Desired])
  /\ UNCHANGED <<store, env, mode, known, graphs>>

SeedSet ==
  /\ At(Loop, "seedSet") /\ Sound
  /\ library' = [library EXCEPT ![Default] = job[Loop].text]
  /\ Becomes(Loop, [job[Loop] EXCEPT !.step = "seedPoint", !.id = Default])
  /\ UNCHANGED <<active, legacy, env, mode, known, graphs>>

SeedPoint ==
  /\ At(Loop, "seedPoint") /\ Sound
  /\ active' = job[Loop].id
  /\ Done(Loop)
  /\ UNCHANGED <<library, legacy, env, mode, known, graphs>>

--------------------------------------------------------------------------------
(* A call that fails ends its handler, and the seeding.                    *)
Fail(a) ==
  /\ ~At(a, "idle") /\ Fault /\ Done(a)
  /\ UNCHANGED <<store, env, mode, known, graphs>>

(* The process restarts: its requests are lost, and the loop seeds again.  *)
Restart ==
  /\ Fault
  /\ job' = Booting
  /\ UNCHANGED <<store, env, mode, known, graphs>>

(* The AI Factory switches the box; the process learns it later.  An       *)
(* unreadable record is taken for `vss`.                                   *)
Switch ==
  /\ used.flips < MaxFlips /\ used' = [used EXCEPT !.flips = @ + 1]
  /\ mode' = IF mode = "vss" THEN "llm" ELSE "vss"
  /\ UNCHANGED <<store, env, known, job, graphs>>
Learn ==
  /\ known # mode /\ known' = mode /\ Sound
  /\ UNCHANGED <<store, env, mode, job, graphs>>
LearnNothing ==
  /\ known = "llm" /\ known' = "vss" /\ Fault
  /\ UNCHANGED <<store, env, mode, job, graphs>>

Request(o) ==
  \/ \E s \in Sets, t \in Texts : SaveSet(o, s, t)
  \/ \E s \in Sets : AskDelete(o, s) \/ Activate(o, s)
  \/ \E t \in Texts : EditPrompt(o, t)
  \/ \E off \in BOOLEAN : Tune(o, off)

Proceed(a) == \/ ReadDesired(a) \/ Compare(a) \/ ReadDeployment(a) \/ PatchEnv(a)
              \/ a \in Operators /\ (Delete(a) \/ ReadForTuning(a) \/ PatchTuning(a))
Seed       == SeedSets \/ SeedActive \/ SeedText \/ SeedSet \/ SeedPoint

Next == \/ \E o \in Operators : Request(o)
        \/ \E a \in Actors : Proceed(a) \/ Fail(a)
        \/ BeginPass \/ Seed \/ Restart \/ Switch \/ Learn \/ LearnNothing

Spec == Init /\ [][Next]_vars

(* A call returns or fails; the interval fires again and again; the cached *)
(* mode expires.  Nobody has to save or to switch.                         *)
Fairness == /\ \A a \in Actors : WF_vars(Proceed(a))
            /\ WF_vars(BeginPass) /\ WF_vars(Seed) /\ WF_vars(Learn)
FairSpec == Spec /\ Fairness

--------------------------------------------------------------------------------
(* Whatever was overwritten on the way (by a slow request, by a tuning     *)
(* save that read the environment before it, by a pause in the middle),    *)
(* once the box stays in `vss` the VLM ends up with the prompt the store   *)
(* resolves to, and stays there.                                           *)
DesiredGoesLive ==
  <>[](mode = "vss") => <>[](Desired # NoText => env.prompt = Desired)

(* A VLM that has a prompt is never left without one: not when the store   *)
(* resolves to none, as it does once a set is deleted that another request *)
(* has just activated (prompt/route.ts), and not by a tuning save that     *)
(* read the environment before there was one (tuning/rtvi/route.ts).       *)
PromptIsKept == [][env.prompt # NoText => env'.prompt # NoText]_vars

(* The writers of the Deployment come to rest: no pass patches, and rolls  *)
(* the VLM, for ever.                                                      *)
PatchesSettle == <>[](\A a \in Actors : ~At(a, "write"))

(* When nobody is at work, CUDA graphs are as the last save that was       *)
(* acknowledged left them.                                                 *)
GraphsAsSaved ==
  (\A o \in Operators : At(o, "idle")) /\ graphs = "on" => ~env.graphsOff
================================================================================
