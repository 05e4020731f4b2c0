----------------------------- MODULE AnswersProofs -----------------------------
(***************************************************************************)
(* Proofs of the parts that answer the operator from what they asked       *)
(* elsewhere: the agent's configuration, the chat, the clips and the       *)
(* media routes.  For each, as in ServingProofs: what a state of it always *)
(* satisfies, that its initial states do, that its steps keep it, and what *)
(* follows for the properties of ServiceParts.                             *)
(***************************************************************************)
EXTENDS AnsweringParts, FiniteSetTheorems, SequenceTheorems, WellFoundedInduction, TLAPS

--------------------------------------------------------------------------------
(* The agent's configuration (lib/agent-config.ts, lib/agent-config-       *)
(* write.ts): v1 the cluster, v2 what the pod was started with, v3 the     *)
(* forms, v4 the requests, v5 the turns.                                   *)
AgentNames  == {"LLM_BASE_URL", "LLM_MODEL_TYPE", "NVIDIA_API_KEY", "OPENAI_API_KEY", "OTHER"}
AgentValues == {"nvidia", "claude", "nim", "openai", "typed", "set", "secret", "none"}
AgentEntries == [name : AgentNames, kind : {"plain", "ref", "empty"}, value : AgentValues]
AgentBodies == [prompt : {"same", "stock", "edited"}, url : {"same", "nvidia", "claude"},
                type : {"same", "nim", "openai"}]
AgentKeys   == {"NVIDIA_API_KEY", "OPENAI_API_KEY", "none"}

(* An environment names each entry once, and its endpoint and type are     *)
(* among those the page knows.                                             *)
EnvFits(env) ==
  /\ env \subseteq AgentEntries
  /\ \A e, f \in env : e.name = f.name => e = f
  /\ \A e \in env : /\ e.name = "LLM_BASE_URL" => e.value \in {"nvidia", "claude"}
                    /\ e.name = "LLM_MODEL_TYPE" => e.value \in {"nim", "openai"}

ClusterFits(c) ==
  /\ c \in [prompt : {"stock", "edited"}, temperature : BOOLEAN, version : Nat, env : {c.env}]
  /\ EnvFits(c.env)
AgentForms == [there : BOOLEAN, data : Agent!Draft, draft : Agent!Draft, key : AgentKeys]
ReqSteps   == {"none", "read document", "write document", "read env", "write env", "restart"}
ReqTyped(r) ==
  /\ r \in [step : ReqSteps, body : AgentBodies, version : Nat, env : {r.env}, alone : BOOLEAN]
  /\ EnvFits(r.env)

(* What a request that runs alone has read and written is what is there.   *)
Stored(r, c) ==
  r.alone =>
    /\ r.step # "none"
    /\ r.step = "write env" => r.env = c.env
    /\ r.step \in {"read env", "write env", "restart"} =>
         /\ r.body.prompt \in {"same", c.prompt}
         /\ Agent!Strips(r.body) => ~c.temperature
    /\ r.step = "restart" =>
         /\ r.body.url = "same" \/ Agent!Plain("LLM_BASE_URL", r.body.url) \in c.env
         /\ r.body.type = "same" \/ Agent!Plain("LLM_MODEL_TYPE", r.body.type) \in c.env
         /\ r.body.type = "openai" => Agent!Ref("OPENAI_API_KEY") \in c.env
LonelyOnes(reqs) ==
  \A u, w \in AgentGiven.Users : reqs[u].alone /\ u # w => reqs[w].step = "none"

AgentInv ==
  /\ v5 \in 0 .. AgentGiven.MaxTurns
  /\ ClusterFits(v1)
  /\ v3 \in [AgentGiven.Users -> AgentForms]
  /\ v4 = [u \in AgentGiven.Users |-> v4[u]]
  /\ \A u \in AgentGiven.Users : ReqTyped(v4[u]) /\ Stored(v4[u], v1)
  /\ LonelyOnes(v4)

LEMMA AgentCounts == \A S : Agent!Cardinality(S) = Cardinality(S)
BY DEF Agent!Cardinality, Cardinality

LEMMA AgentPromise == AgentInv => Agent!TypeOK /\ Agent!EnvNamedOnce
<1> SUFFICES ASSUME AgentInv PROVE Agent!TypeOK /\ Agent!EnvNamedOnce
  OBVIOUS
<1>1. Agent!TypeOK
  BY DEF AgentInv, ClusterFits, EnvFits, AgentEntries, AgentForms, Agent!TypeOK
<1>2. ASSUME NEW e \in v1.env PROVE Agent!Cardinality(Agent!Named(v1.env, e.name)) = 1
  <2>1. Agent!Named(v1.env, e.name) = {e}
    BY <1>2 DEF AgentInv, ClusterFits, EnvFits, Agent!Named
  <2> QED BY <2>1, FS_Singleton, AgentCounts
<1> QED BY <1>1, <1>2 DEF Agent!EnvNamedOnce

LEMMA AgentStart == Agent!Init => AgentInv
<1> SUFFICES ASSUME Agent!Init PROVE AgentInv
  OBVIOUS
<1> USE AgentAssumption
<1>1. ASSUME NEW env \in Agent!Envs PROVE EnvFits(env)
  BY DEF Agent!Envs, EnvFits, AgentEntries, AgentNames, AgentValues, Agent!Plain, Agent!Ref, Agent!Empty
<1>2. v5 \in 0 .. AgentGiven.MaxTurns
  BY DEF Agent!Init
<1>3. ClusterFits(v1)
  BY <1>1 DEF Agent!Init, ClusterFits
<1>4. Agent!NoForm \in AgentForms
  BY DEF Agent!NoForm, AgentForms, AgentKeys, Agent!Draft, Agent!Urls, Agent!Types
<1>5. ReqTyped(Agent!NoReq) /\ ~Agent!NoReq.alone
  BY DEF Agent!NoReq, Agent!NoBody, Agent!Same, ReqTyped, ReqSteps, AgentBodies, EnvFits
<1>6. v3 = [u \in AgentGiven.Users |-> Agent!NoForm] /\ v4 = [u \in AgentGiven.Users |-> Agent!NoReq]
  BY DEF Agent!Init
<1> QED BY <1>2, <1>3, <1>4, <1>5, <1>6 DEF AgentInv, Stored, LonelyOnes

(* The endpoint and the type the page knows are read off the environment.  *)
LEMMA ValuesRead ==
  ASSUME NEW c, ClusterFits(c)
  PROVE  /\ Agent!ValueOf(c.env, "LLM_BASE_URL", "nvidia") \in {"nvidia", "claude"}
         /\ Agent!ValueOf(c.env, "LLM_MODEL_TYPE", "nim") \in {"nim", "openai"}
         /\ \A x : Agent!Plain("LLM_BASE_URL", x) \in c.env =>
                     Agent!ValueOf(c.env, "LLM_BASE_URL", "nvidia") = x
         /\ \A x : Agent!Plain("LLM_MODEL_TYPE", x) \in c.env =>
                     Agent!ValueOf(c.env, "LLM_MODEL_TYPE", "nim") = x
<1> DEFINE url  == {e \in c.env : e.name = "LLM_BASE_URL" /\ e.kind = "plain"}
           type == {e \in c.env : e.name = "LLM_MODEL_TYPE" /\ e.kind = "plain"}
<1>1. ASSUME NEW e \in c.env, e.name = "LLM_BASE_URL", e.kind = "plain"
      PROVE  Agent!ValueOf(c.env, "LLM_BASE_URL", "nvidia") = e.value
  BY <1>1 DEF Agent!ValueOf, ClusterFits, EnvFits
<1>2. ASSUME NEW e \in c.env, e.name = "LLM_MODEL_TYPE", e.kind = "plain"
      PROVE  Agent!ValueOf(c.env, "LLM_MODEL_TYPE", "nim") = e.value
  BY <1>2 DEF Agent!ValueOf, ClusterFits, EnvFits
<1>3. Agent!ValueOf(c.env, "LLM_BASE_URL", "nvidia") \in {"nvidia", "claude"}
  <2>1. CASE \E e \in c.env : e.name = "LLM_BASE_URL" /\ e.kind = "plain"
    BY <1>1, <2>1 DEF ClusterFits, EnvFits
  <2>2. CASE ~\E e \in c.env : e.name = "LLM_BASE_URL" /\ e.kind = "plain"
    BY <2>2 DEF Agent!ValueOf
  <2> QED BY <2>1, <2>2
<1>4. Agent!ValueOf(c.env, "LLM_MODEL_TYPE", "nim") \in {"nim", "openai"}
  <2>1. CASE \E e \in c.env : e.name = "LLM_MODEL_TYPE" /\ e.kind = "plain"
    BY <1>2, <2>1 DEF ClusterFits, EnvFits
  <2>2. CASE ~\E e \in c.env : e.name = "LLM_MODEL_TYPE" /\ e.kind = "plain"
    BY <2>2 DEF Agent!ValueOf
  <2> QED BY <2>1, <2>2
<1> QED BY <1>1, <1>2, <1>3, <1>4 DEF Agent!Plain

(* What a request writes to the environment.                               *)
LEMMA EnvPatched ==
  ASSUME NEW env, EnvFits(env), NEW body \in AgentBodies
  PROVE  /\ EnvFits(Agent!PatchedEnv(env, body))
         /\ body.url # "same" => Agent!Plain("LLM_BASE_URL", body.url) \in Agent!PatchedEnv(env, body)
         /\ body.type # "same" => Agent!Plain("LLM_MODEL_TYPE", body.type) \in Agent!PatchedEnv(env, body)
         /\ body.type = "openai" => Agent!Ref("OPENAI_API_KEY") \in Agent!PatchedEnv(env, body)
         /\ \A e \in env : e.kind # "empty" /\ e.name \in {"NVIDIA_API_KEY", "OTHER"}
                             => e \in Agent!PatchedEnv(env, body)
<1> DEFINE new == Agent!PatchedEnv(env, body)
<1>1. \A e \in new : \/ e \in env /\ ~(e.name = "LLM_BASE_URL" /\ body.url # "same")
                        /\ ~(e.name = "LLM_MODEL_TYPE" /\ body.type # "same")
                        /\ ~(e.name = "OPENAI_API_KEY" /\ body.type = "openai")
                     \/ body.url # "same" /\ e = Agent!Plain("LLM_BASE_URL", body.url)
                     \/ body.type # "same" /\ e = Agent!Plain("LLM_MODEL_TYPE", body.type)
                     \/ body.type = "openai" /\ e = Agent!Ref("OPENAI_API_KEY")
  BY DEF Agent!PatchedEnv, Agent!Others, Agent!Same
<1>2. /\ body.url # "same" => Agent!Plain("LLM_BASE_URL", body.url) \in new
      /\ body.type # "same" => Agent!Plain("LLM_MODEL_TYPE", body.type) \in new
      /\ body.type = "openai" => Agent!Ref("OPENAI_API_KEY") \in new
      /\ \A e \in env : e.kind # "empty" /\ e.name \in {"NVIDIA_API_KEY", "OTHER"} => e \in new
  BY DEF Agent!PatchedEnv, Agent!Others, Agent!Same
<1>3. body.url \in {"same", "nvidia", "claude"} /\ body.type \in {"same", "nim", "openai"}
  BY DEF AgentBodies
<1> HIDE DEF new
<1>4. new \subseteq AgentEntries
  BY <1>1, <1>3 DEF EnvFits, AgentEntries, AgentNames, AgentValues, Agent!Plain, Agent!Ref
<1>5. \A e, f \in new : e.name = f.name => e = f
  BY <1>1, <1>3 DEF EnvFits, Agent!Plain, Agent!Ref
<1>6. \A e \in new : /\ e.name = "LLM_BASE_URL" => e.value \in {"nvidia", "claude"}
                     /\ e.name = "LLM_MODEL_TYPE" => e.value \in {"nim", "openai"}
  BY <1>1, <1>3 DEF EnvFits, Agent!Plain, Agent!Ref
<1>7. EnvFits(new)
  BY <1>4, <1>5, <1>6 DEF EnvFits
<1> QED BY <1>2, <1>7 DEF new

(* A step that keeps to its types and of a request that is under way.      *)
AgentKeeps == Agent!WriteStep /\ Agent!AnswerStep /\ Agent!ProbeStep

LEMMA AgentMoves ==
  ASSUME AgentInv, NEW u \in AgentGiven.Users, NEW r,
         v5' \in 0 .. AgentGiven.MaxTurns, ClusterFits(v1'), v3' \in [AgentGiven.Users -> AgentForms],
         v4' = [v4 EXCEPT ![u] = r], ReqTyped(r), Stored(r, v1'), r.alone => v4[u].alone,
         v4[u].step # "none"
  PROVE  AgentInv'
<1>1. /\ v4 = [w \in AgentGiven.Users |-> v4[w]]
      /\ \A w \in AgentGiven.Users : ReqTyped(v4[w]) /\ Stored(v4[w], v1)
      /\ LonelyOnes(v4)
  BY DEF AgentInv
<1>2. v4' = [w \in AgentGiven.Users |-> v4'[w]] /\ v4'[u] = r
      /\ \A w \in AgentGiven.Users : w # u => v4'[w] = v4[w]
  BY <1>1
<1>3. ASSUME NEW w \in AgentGiven.Users PROVE ReqTyped(v4'[w]) /\ Stored(v4'[w], v1')
  <2>1. CASE w = u
    BY <1>2, <2>1
  <2>2. CASE w # u
    <3>1. ~v4[w].alone
      BY <1>1, <2>2 DEF LonelyOnes
    <3> QED BY <1>1, <1>2, <2>2, <3>1 DEF Stored
  <2> QED BY <2>1, <2>2
<1>4. LonelyOnes(v4')
  BY <1>1, <1>2 DEF LonelyOnes
<1> QED BY <1>2, <1>3, <1>4 DEF AgentInv

(* A form that changes leaves the requests alone.                          *)
LEMMA AgentFormMoves ==
  ASSUME AgentInv, UNCHANGED <<v1, v4>>, v5' \in 0 .. AgentGiven.MaxTurns,
         v3' \in [AgentGiven.Users -> AgentForms],
         \A w \in AgentGiven.Users : v3'[w].key = v3[w].key
  PROVE  AgentInv' /\ AgentKeeps
<1>1. AgentInv'
  BY DEF AgentInv
<1>2. \A w \in AgentGiven.Users : v4'[w].step = v4[w].step /\ v3'[w].key = v3[w].key
  BY DEF AgentInv
<1>3. Agent!WriteStep /\ Agent!ProbeStep
  BY <1>2 DEF Agent!WriteStep, Agent!ProbeStep
<1>4. Agent!AnswerStep
  BY <1>2 DEF Agent!AnswerStep, Agent!Answered
<1> QED BY <1>1, <1>3, <1>4 DEF AgentKeeps

LEMMA AgentTurn == AgentInv /\ Agent!Turn => v5' \in 0 .. AgentGiven.MaxTurns
BY AgentAssumption DEF AgentInv, Agent!Turn

LEMMA AgentForm ==
  ASSUME AgentInv, NEW u \in AgentGiven.Users
  PROVE  /\ v3[u] \in AgentForms
         /\ v3[u] = [there |-> v3[u].there, data |-> v3[u].data, draft |-> v3[u].draft, key |-> v3[u].key]
         /\ v3[u].draft = [prompt |-> v3[u].draft.prompt, url |-> v3[u].draft.url, type |-> v3[u].draft.type]
         /\ v3[u].draft.prompt \in {"stock", "edited"} /\ v3[u].draft.url \in Agent!Urls
         /\ v3[u].draft.type \in Agent!Types
<1>1. v3[u] \in AgentForms
  BY DEF AgentInv
<1>2. v3[u].draft \in Agent!Draft
  BY <1>1 DEF AgentForms
<1> QED BY <1>1, <1>2 DEF AgentForms, Agent!Draft

LEMMA BehaviorFits ==
  ASSUME AgentInv PROVE Agent!Behavior \in Agent!Draft
<1>1. ClusterFits(v1) /\ v1.prompt \in {"stock", "edited"}
  BY DEF AgentInv, ClusterFits
<1> QED BY <1>1, ValuesRead DEF Agent!Behavior, Agent!Draft, Agent!Urls, Agent!Types

(* The key of the endpoint itself is tried first.                          *)
HostedKey(k, b) ==
  Agent!HostedClaude(b.url) /\ Agent!Has(v1.env, "OPENAI_API_KEY") => k = "OPENAI_API_KEY"

LEMMA LoadStep ==
  ASSUME AgentInv, NEW u \in AgentGiven.Users, Agent!Load(u)
  PROVE  AgentInv' /\ AgentKeeps
<1> DEFINE b == Agent!Behavior
           k == Agent!ProbeKey(v1.env, b.url)
           f == [there |-> TRUE, data |-> b, key |-> k, draft |-> IF v3[u].there THEN v3[u].draft ELSE b]
<1>1. b \in Agent!Draft /\ k \in AgentKeys /\ v3[u].draft \in Agent!Draft
  <2>1. k \in AgentKeys
    BY DEF Agent!ProbeKey, AgentKeys
  <2> QED BY <2>1, BehaviorFits, AgentForm DEF AgentForms
<1>2. v3' = [v3 EXCEPT ![u] = f] /\ UNCHANGED <<v1, v2, v4, v5>>
  BY DEF Agent!Load
<1>3. f \in AgentForms
  <2> HIDE DEF b, k
  <2> QED BY <1>1 DEF AgentForms
<1>4. f.key = k
  OBVIOUS
<1>5. HostedKey(k, b)
  BY DEF Agent!ProbeKey, HostedKey
<1> HIDE DEF f
<1>6. v3' \in [AgentGiven.Users -> AgentForms] /\ \A w \in AgentGiven.Users : w # u => v3'[w] = v3[w]
  BY <1>2, <1>3 DEF AgentInv
<1>7. AgentInv'
  BY <1>2, <1>6 DEF AgentInv
<1>8. \A w \in AgentGiven.Users : v4'[w].step = v4[w].step
  BY <1>2
<1>9. Agent!WriteStep /\ Agent!AnswerStep
  BY <1>8 DEF Agent!WriteStep, Agent!AnswerStep, Agent!Answered
<1>a. v3'[u].key = k
  BY <1>2, <1>4 DEF AgentInv
<1>b. Agent!ProbeStep
  <2> HIDE DEF b, k
  <2> QED BY <1>5, <1>6, <1>a DEF Agent!ProbeStep, HostedKey, b
<1> QED BY <1>7, <1>9, <1>b DEF AgentKeeps

LEMMA DraftSteps ==
  ASSUME AgentInv, NEW u \in AgentGiven.Users,
         \/ Agent!Custom(u) \/ \E prompt \in {"stock", "edited"} : Agent!Edit(u, prompt)
         \/ \E p \in Agent!Presets : Agent!Pick(u, p)
  PROVE  AgentInv' /\ AgentKeeps
<1>1. /\ UNCHANGED <<v1, v2, v4>> /\ Agent!Turn
      /\ \E d \in Agent!Draft : v3' = [v3 EXCEPT ![u] = [v3[u] EXCEPT !.draft = d]]
  <2> DEFINE d0 == v3[u].draft
  <2>0. /\ d0 = [prompt |-> d0.prompt, url |-> d0.url, type |-> d0.type]
        /\ d0.prompt \in {"stock", "edited"} /\ d0.url \in Agent!Urls /\ d0.type \in Agent!Types
    BY AgentForm
  <2>1. ASSUME NEW x \in {"stock", "edited"}, Agent!Edit(u, x)
        PROVE  UNCHANGED <<v1, v2, v4>> /\ Agent!Turn /\ v3' = [v3 EXCEPT ![u] = [v3[u] EXCEPT !.draft = [d0 EXCEPT !.prompt = x]]]
               /\ [d0 EXCEPT !.prompt = x] \in Agent!Draft
    <3>1. [d0 EXCEPT !.prompt = x] \in Agent!Draft
      BY <2>0 DEF Agent!Draft
    <3> QED BY <2>1, <3>1 DEF Agent!Edit
  <2>2. ASSUME NEW p \in Agent!Presets, Agent!Pick(u, p)
        PROVE  UNCHANGED <<v1, v2, v4>> /\ Agent!Turn /\ v3' = [v3 EXCEPT ![u] = [v3[u] EXCEPT !.draft = [d0 EXCEPT !.url = p.url, !.type = p.type]]]
               /\ [d0 EXCEPT !.url = p.url, !.type = p.type] \in Agent!Draft
    <3>1. p.url \in Agent!Urls /\ p.type \in Agent!Types
      BY DEF Agent!Presets, Agent!Urls, Agent!Types
    <3>2. [d0 EXCEPT !.url = p.url, !.type = p.type] \in Agent!Draft
      BY <2>0, <3>1 DEF Agent!Draft
    <3>3. v3' = [[v3 EXCEPT ![u].draft.url = p.url] EXCEPT ![u].draft.type = p.type]
      BY <2>2 DEF Agent!Pick
    <3> DEFINE f1 == [v3[u] EXCEPT !.draft = [d0 EXCEPT !.url = p.url]]
               y  == [v3 EXCEPT ![u] = f1]
    <3>4. y = [v3 EXCEPT ![u].draft.url = p.url]
      OBVIOUS
    <3>5. y[u] = f1 /\ f1.draft = [d0 EXCEPT !.url = p.url]
      BY AgentForm DEF AgentInv
    <3>6. v3' = [y EXCEPT ![u].draft.type = p.type]
      BY <3>3, <3>4
    <3>7. v3' = [y EXCEPT ![u] = [y[u] EXCEPT !.draft = [y[u].draft EXCEPT !.type = p.type]]]
      <4> HIDE DEF y
      <4> QED BY <3>6
    <3>8. [f1.draft EXCEPT !.type = p.type] = [d0 EXCEPT !.url = p.url, !.type = p.type]
      BY <3>5
    <3>9. [f1 EXCEPT !.draft = [f1.draft EXCEPT !.type = p.type]]
            = [v3[u] EXCEPT !.draft = [d0 EXCEPT !.url = p.url, !.type = p.type]]
      BY <3>8
    <3>a. v3' = [v3 EXCEPT ![u] = [v3[u] EXCEPT !.draft = [d0 EXCEPT !.url = p.url, !.type = p.type]]]
      BY <3>5, <3>7, <3>9
    <3> QED BY <2>2, <3>2, <3>a DEF Agent!Pick
  <2>3. ASSUME Agent!Custom(u)
        PROVE  \E d \in Agent!Draft : UNCHANGED <<v1, v2, v4>> /\ Agent!Turn /\ v3' = [v3 EXCEPT ![u] = [v3[u] EXCEPT !.draft = d]]
    <3>1. CASE \E url \in Agent!Urls : v3' = [v3 EXCEPT ![u].draft.url = url]
      <4>1. PICK url \in Agent!Urls : v3' = [v3 EXCEPT ![u].draft.url = url]
        BY <3>1
      <4>2. [d0 EXCEPT !.url = url] \in Agent!Draft
        BY <2>0 DEF Agent!Draft
      <4>3. v3' = [v3 EXCEPT ![u] = [v3[u] EXCEPT !.draft = [d0 EXCEPT !.url = url]]]
        BY <4>1
      <4> QED BY <2>3, <4>2, <4>3 DEF Agent!Custom
    <3>2. CASE \E type \in Agent!Types : v3' = [v3 EXCEPT ![u].draft.type = type]
      <4>1. PICK type \in Agent!Types : v3' = [v3 EXCEPT ![u].draft.type = type]
        BY <3>2
      <4>2. [d0 EXCEPT !.type = type] \in Agent!Draft
        BY <2>0 DEF Agent!Draft
      <4>3. v3' = [v3 EXCEPT ![u] = [v3[u] EXCEPT !.draft = [d0 EXCEPT !.type = type]]]
        BY <4>1
      <4> QED BY <2>3, <4>2, <4>3 DEF Agent!Custom
    <3> QED BY <2>3, <3>1, <3>2 DEF Agent!Custom
  <2> HIDE DEF d0
  <2> QED BY <2>1, <2>2, <2>3
<1>2. PICK d \in Agent!Draft : v3' = [v3 EXCEPT ![u] = [v3[u] EXCEPT !.draft = d]]
  BY <1>1
<1> DEFINE f == [v3[u] EXCEPT !.draft = d]
<1>3. f \in AgentForms /\ f.key = v3[u].key
  BY AgentForm DEF AgentForms
<1> HIDE DEF f
<1>4. v3' \in [AgentGiven.Users -> AgentForms] /\ \A w \in AgentGiven.Users : v3'[w].key = v3[w].key
  BY <1>2, <1>3 DEF AgentInv, f
<1>5. v5' \in 0 .. AgentGiven.MaxTurns
  BY <1>1, AgentTurn
<1> QED BY <1>1, <1>4, <1>5, AgentFormMoves

(* A step of the request of u: what is asked of it is asked of u alone.    *)
LEMMA OneWrites ==
  ASSUME AgentInv, NEW u \in AgentGiven.Users, NEW r,
         v4' = [v4 EXCEPT ![u] = r], \A w \in AgentGiven.Users : v3'[w].key = v3[w].key,
         v4[u].step = "write env" /\ r.step = "restart" /\ v4[u].alone =>
           \A e \in v1.env : e.kind # "empty" /\ e.name \in {"NVIDIA_API_KEY", "OTHER"} => e \in v1'.env,
         v4[u].step = "write document" /\ r.step = "read env" => v4[u].version = v1.version,
         v4[u].step = "restart" /\ r.step = "none" /\ v4[u].alone /\ v3'[u] # v3[u] =>
           /\ v2' = Agent!Started
           /\ v4[u].body.prompt \in {Agent!Same, v1.prompt}
           /\ v4[u].body.url \in {Agent!Same, Agent!Behavior.url}
           /\ v4[u].body.type \in {Agent!Same, Agent!Behavior.type}
           /\ Agent!Strips(v4[u].body) => ~v2'.temperature /\ Agent!Ref("OPENAI_API_KEY") \in v2'.env
  PROVE  AgentKeeps
<1>1. v4'[u] = r /\ \A w \in AgentGiven.Users : w # u => v4'[w] = v4[w]
  BY DEF AgentInv
<1>2. Agent!WriteStep
  BY <1>1 DEF Agent!WriteStep
<1>3. Agent!AnswerStep
  BY <1>1 DEF Agent!AnswerStep, Agent!Answered
<1>4. Agent!ProbeStep
  BY DEF Agent!ProbeStep
<1> QED BY <1>2, <1>3, <1>4 DEF AgentKeeps

LEMMA AgentReq ==
  ASSUME AgentInv, NEW u \in AgentGiven.Users
  PROVE  /\ v4[u].step \in ReqSteps /\ v4[u].body \in AgentBodies /\ v4[u].version \in Nat
         /\ v4[u].alone \in BOOLEAN /\ EnvFits(v4[u].env)
         /\ v4[u] = [step |-> v4[u].step, body |-> v4[u].body, version |-> v4[u].version,
                     env |-> v4[u].env, alone |-> v4[u].alone]
         /\ ReqTyped(v4[u]) /\ Stored(v4[u], v1)
         /\ ClusterFits(v1) /\ v5 \in 0 .. AgentGiven.MaxTurns /\ v3 \in [AgentGiven.Users -> AgentForms]
<1>1. ReqTyped(v4[u]) /\ Stored(v4[u], v1)
  BY DEF AgentInv
<1>2. v4[u] \in [step : ReqSteps, body : AgentBodies, version : Nat, env : {v4[u].env}, alone : BOOLEAN]
      /\ EnvFits(v4[u].env)
  BY <1>1 DEF ReqTyped
<1>3. /\ v4[u].step \in ReqSteps /\ v4[u].body \in AgentBodies /\ v4[u].version \in Nat
      /\ v4[u].alone \in BOOLEAN
      /\ v4[u] = [step |-> v4[u].step, body |-> v4[u].body, version |-> v4[u].version,
                  env |-> v4[u].env, alone |-> v4[u].alone]
  BY <1>2
<1> QED BY <1>1, <1>2, <1>3 DEF AgentInv

(* What the console remembers of a request, once a field of it is set.     *)
LEMMA ReqSet ==
  ASSUME NEW q, NEW s,
         q \in [step : {q.step}, body : {q.body}, version : {q.version}, env : {q.env}, alone : {q.alone}]
  PROVE  [q EXCEPT !.step = s]
           = [step |-> s, body |-> q.body, version |-> q.version, env |-> q.env, alone |-> q.alone]
<1> DEFINE a == [q EXCEPT !.step = s]
<1>1. a \in [step : {s}, body : {q.body}, version : {q.version}, env : {q.env}, alone : {q.alone}]
  OBVIOUS
<1> HIDE DEF a
<1>2. a = [step |-> s, body |-> q.body, version |-> q.version, env |-> q.env, alone |-> q.alone]
  BY <1>1
<1> QED BY <1>2 DEF a

LEMMA ReqSetAlone ==
  ASSUME NEW q, NEW s,
         q \in [step : {q.step}, body : {q.body}, version : {q.version}, env : {q.env}, alone : {q.alone}]
  PROVE  [q EXCEPT !.alone = s]
           = [step |-> q.step, body |-> q.body, version |-> q.version, env |-> q.env, alone |-> s]
<1> DEFINE a == [q EXCEPT !.alone = s]
<1>1. a \in [step : {q.step}, body : {q.body}, version : {q.version}, env : {q.env}, alone : {s}]
  OBVIOUS
<1> HIDE DEF a
<1>2. a = [step |-> q.step, body |-> q.body, version |-> q.version, env |-> q.env, alone |-> s]
  BY <1>1
<1> QED BY <1>2 DEF a

LEMMA ReqSetVersion ==
  ASSUME NEW q, NEW s, NEW n,
         q \in [step : {q.step}, body : {q.body}, version : {q.version}, env : {q.env}, alone : {q.alone}]
  PROVE  [[q EXCEPT !.version = n] EXCEPT !.step = s]
           = [step |-> s, body |-> q.body, version |-> n, env |-> q.env, alone |-> q.alone]
<1> DEFINE y == [q EXCEPT !.version = n]
           a == [y EXCEPT !.step = s]
<1>1. y \in [step : {q.step}, body : {q.body}, version : {n}, env : {q.env}, alone : {q.alone}]
  OBVIOUS
<1> HIDE DEF y
<1>2. a \in [step : {s}, body : {q.body}, version : {n}, env : {q.env}, alone : {q.alone}]
  BY <1>1
<1> HIDE DEF a
<1>3. a = [step |-> s, body |-> q.body, version |-> n, env |-> q.env, alone |-> q.alone]
  BY <1>2
<1> QED BY <1>3 DEF a, y

LEMMA ReqSetEnv ==
  ASSUME NEW q, NEW s, NEW n,
         q \in [step : {q.step}, body : {q.body}, version : {q.version}, env : {q.env}, alone : {q.alone}]
  PROVE  [[q EXCEPT !.env = n] EXCEPT !.step = s]
           = [step |-> s, body |-> q.body, version |-> q.version, env |-> n, alone |-> q.alone]
<1> DEFINE y == [q EXCEPT !.env = n]
           a == [y EXCEPT !.step = s]
<1>1. y \in [step : {q.step}, body : {q.body}, version : {q.version}, env : {n}, alone : {q.alone}]
  OBVIOUS
<1> HIDE DEF y
<1>2. a \in [step : {s}, body : {q.body}, version : {q.version}, env : {n}, alone : {q.alone}]
  BY <1>1
<1> HIDE DEF a
<1>3. a = [step |-> s, body |-> q.body, version |-> q.version, env |-> n, alone |-> q.alone]
  BY <1>2
<1> QED BY <1>3 DEF a, y

LEMMA AgentReqSet ==
  ASSUME AgentInv, NEW u \in AgentGiven.Users
  PROVE  v4[u] \in [step : {v4[u].step}, body : {v4[u].body}, version : {v4[u].version},
                    env : {v4[u].env}, alone : {v4[u].alone}]
<1> DEFINE q == v4[u]
<1>1. q = [step |-> q.step, body |-> q.body, version |-> q.version, env |-> q.env, alone |-> q.alone]
  BY AgentReq
<1> HIDE DEF q
<1>2. q \in [step : {q.step}, body : {q.body}, version : {q.version}, env : {q.env}, alone : {q.alone}]
  BY <1>1
<1> QED BY <1>2 DEF q

LEMMA ReadDocumentStep ==
  ASSUME AgentInv, NEW u \in AgentGiven.Users, Agent!ReadDocument(u)
  PROVE  AgentInv' /\ AgentKeeps
<1> DEFINE q == v4[u]
           to == IF q.body.prompt = "same" /\ ~Agent!Strips(q.body) THEN "read env" ELSE "write document"
           r == [step |-> to, body |-> q.body, version |-> v1.version, env |-> q.env, alone |-> q.alone]
<1>1. /\ q.step = "read document" /\ UNCHANGED <<v1, v2, v3, v5>>
      /\ v4' = [v4 EXCEPT ![u].version = v1.version, ![u].step = to]
  BY DEF Agent!ReadDocument, Agent!Same
<1>2. v4' = [v4 EXCEPT ![u] = r]
  <2> DEFINE y == [v4 EXCEPT ![u] = [q EXCEPT !.version = v1.version]]
  <2>1. y = [v4 EXCEPT ![u].version = v1.version]
    OBVIOUS
  <2>2. v4' = [y EXCEPT ![u].step = to]
    BY <1>1, <2>1
  <2>3. v4' = [y EXCEPT ![u] = [y[u] EXCEPT !.step = to]]
    <3> HIDE DEF y, to
    <3> QED BY <2>2
  <2>4. y[u] = [q EXCEPT !.version = v1.version]
    BY DEF AgentInv
  <2>5. [y[u] EXCEPT !.step = to] = r
    <3>1. q \in [step : {q.step}, body : {q.body}, version : {q.version}, env : {q.env}, alone : {q.alone}]
      BY AgentReqSet
    <3> HIDE DEF y, to, q
    <3>2. [[q EXCEPT !.version = v1.version] EXCEPT !.step = to] = r
      BY <3>1, ReqSetVersion
    <3> QED BY <2>4, <3>2
  <2> QED BY <2>3, <2>5
<1>3. ReqTyped(r) /\ Stored(r, v1)
  <2>0. v1.version \in Nat
    BY DEF AgentInv, ClusterFits
  <2>1. ReqTyped(r)
    BY <2>0, AgentReq DEF ReqTyped, ReqSteps
  <2>2. Stored(r, v1)
    BY <1>1, AgentReq DEF Stored
  <2> QED BY <2>1, <2>2
<1>4. r.alone = q.alone /\ r.step \in {"read env", "write document"}
  OBVIOUS
<1> HIDE DEF r, q
<1>5. AgentInv'
  <2>1. ClusterFits(v1') /\ v5' \in 0 .. AgentGiven.MaxTurns /\ v3' \in [AgentGiven.Users -> AgentForms]
        /\ Stored(r, v1') /\ q.step # "none"
    BY <1>1, <1>3, AgentReq
  <2> QED BY <1>2, <1>3, <1>4, <2>1, AgentMoves DEF q
<1>6. \A w \in AgentGiven.Users : v3'[w].key = v3[w].key
  BY <1>1
<1>7. AgentKeeps
  <2>1. v4[u].step = "read document"
    BY <1>1 DEF q
  <2> QED BY <1>2, <1>6, <2>1, OneWrites
<1> QED BY <1>5, <1>7

LEMMA WriteDocumentStep ==
  ASSUME AgentInv, NEW u \in AgentGiven.Users, Agent!WriteDocument(u)
  PROVE  AgentInv' /\ AgentKeeps
<1> DEFINE q == v4[u]
           r == [q EXCEPT !.step = "read env"]
           d == Agent!Document(u)
<1>1. /\ q.step = "write document" /\ q.version = v1.version /\ UNCHANGED <<v2, v3, v5>>
      /\ v4' = [v4 EXCEPT ![u] = r]
      /\ v1' = [v1 EXCEPT !.prompt = d.prompt, !.temperature = d.temperature, !.version = v1.version + 1]
  BY DEF Agent!WriteDocument, Agent!Matches
<1>2. /\ d.prompt = IF q.body.prompt = "same" THEN v1.prompt ELSE q.body.prompt
      /\ d.temperature = (v1.temperature /\ ~Agent!Strips(q.body))
  BY DEF Agent!Document, Agent!Same
<1>3. /\ v1.prompt \in {"stock", "edited"} /\ v1.temperature \in BOOLEAN /\ v1.version \in Nat /\ EnvFits(v1.env)
      /\ v1 = [prompt |-> v1.prompt, temperature |-> v1.temperature, version |-> v1.version, env |-> v1.env]
  BY DEF AgentInv, ClusterFits
<1>4. d.prompt \in {"stock", "edited"} /\ d.temperature \in BOOLEAN
  <2>1. d.prompt \in {"stock", "edited"}
    BY <1>2, <1>3, AgentReq DEF AgentBodies
  <2> QED BY <1>2, <2>1
<1> HIDE DEF d
<1>5. v1' = [prompt |-> d.prompt, temperature |-> d.temperature, version |-> v1.version + 1, env |-> v1.env]
  BY <1>1, <1>3
<1>6. ClusterFits(v1')
  <2>1. v1.version + 1 \in Nat
    BY <1>3
  <2> QED BY <1>3, <1>4, <1>5, <2>1 DEF ClusterFits
<1>7. ReqTyped(r) /\ Stored(r, v1') /\ r.alone = q.alone /\ r.step = "read env"
  <2>0. r = [step |-> "read env", body |-> q.body, version |-> q.version, env |-> q.env, alone |-> q.alone]
    BY AgentReqSet, ReqSet
  <2> HIDE DEF r
  <2>1. /\ r.step = "read env" /\ r.body = q.body /\ r.version = q.version /\ r.env = q.env /\ r.alone = q.alone
        /\ r = [step |-> "read env", body |-> q.body, version |-> q.version, env |-> q.env, alone |-> q.alone]
    BY <2>0
  <2>2. ReqTyped(r)
    BY <2>1, AgentReq DEF ReqTyped, ReqSteps
  <2>3. Stored(r, v1')
    BY <2>1, <1>2, <1>5 DEF Stored
  <2> QED BY <2>1, <2>2, <2>3
<1> HIDE DEF r, q
<1>8. AgentInv'
  <2>1. v5' \in 0 .. AgentGiven.MaxTurns /\ v3' \in [AgentGiven.Users -> AgentForms] /\ q.step # "none"
    BY <1>1, AgentReq
  <2> QED BY <1>1, <1>6, <1>7, <2>1, AgentMoves DEF q
<1>9. \A w \in AgentGiven.Users : v3'[w].key = v3[w].key
  BY <1>1
<1>a. AgentKeeps
  <2>1. v4[u].step = "write document" /\ v4[u].version = v1.version
    BY <1>1 DEF q
  <2> QED BY <1>1, <1>7, <1>9, <2>1, OneWrites
<1> QED BY <1>8, <1>a

LEMMA ReadEnvStep ==
  ASSUME AgentInv, NEW u \in AgentGiven.Users, Agent!ReadEnv(u)
  PROVE  AgentInv' /\ AgentKeeps
<1> DEFINE q == v4[u]
           to == IF q.body.url = "same" /\ q.body.type = "same" THEN "restart" ELSE "write env"
           r == [step |-> to, body |-> q.body, version |-> q.version, env |-> v1.env, alone |-> q.alone]
<1>1. /\ q.step = "read env" /\ UNCHANGED <<v1, v2, v3, v5>>
      /\ v4' = [v4 EXCEPT ![u].env = v1.env, ![u].step = to]
  BY DEF Agent!ReadEnv, Agent!Same
<1>2. v4' = [v4 EXCEPT ![u] = r]
  <2> DEFINE y == [v4 EXCEPT ![u] = [q EXCEPT !.env = v1.env]]
  <2>1. y = [v4 EXCEPT ![u].env = v1.env]
    OBVIOUS
  <2>2. v4' = [y EXCEPT ![u].step = to]
    BY <1>1, <2>1
  <2>3. v4' = [y EXCEPT ![u] = [y[u] EXCEPT !.step = to]]
    <3> HIDE DEF y, to
    <3> QED BY <2>2
  <2>4. y[u] = [q EXCEPT !.env = v1.env]
    BY DEF AgentInv
  <2>5. [y[u] EXCEPT !.step = to] = r
    <3>1. q \in [step : {q.step}, body : {q.body}, version : {q.version}, env : {q.env}, alone : {q.alone}]
      BY AgentReqSet
    <3> HIDE DEF y, to, q
    <3>2. [[q EXCEPT !.env = v1.env] EXCEPT !.step = to] = r
      BY <3>1, ReqSetEnv
    <3> QED BY <2>4, <3>2
  <2> QED BY <2>3, <2>5
<1>3. ReqTyped(r)
  <2>1. EnvFits(v1.env)
    BY DEF AgentInv, ClusterFits
  <2> QED BY <2>1, AgentReq DEF ReqTyped, ReqSteps
<1>4. Stored(r, v1)
  <2>1. q.body.type = "same" => ~Agent!Strips(q.body) /\ q.body.type # "openai"
    BY DEF Agent!Strips
  <2> QED BY <1>1, <2>1, AgentReq DEF Stored
<1>5. r.alone = q.alone /\ r.step \in {"restart", "write env"}
  OBVIOUS
<1> HIDE DEF r, q
<1>6. AgentInv'
  <2>1. ClusterFits(v1') /\ v5' \in 0 .. AgentGiven.MaxTurns /\ v3' \in [AgentGiven.Users -> AgentForms]
        /\ Stored(r, v1') /\ q.step # "none"
    BY <1>1, <1>4, AgentReq
  <2> QED BY <1>2, <1>3, <1>5, <2>1, AgentMoves DEF q
<1>7. \A w \in AgentGiven.Users : v3'[w].key = v3[w].key
  BY <1>1
<1>8. AgentKeeps
  <2>1. v4[u].step = "read env"
    BY <1>1 DEF q
  <2> QED BY <1>2, <1>7, <2>1, OneWrites
<1> QED BY <1>6, <1>8

LEMMA WriteEnvStep ==
  ASSUME AgentInv, NEW u \in AgentGiven.Users, Agent!WriteEnv(u)
  PROVE  AgentInv' /\ AgentKeeps
<1> DEFINE q == v4[u]
           r == [q EXCEPT !.step = "restart"]
           new == Agent!PatchedEnv(q.env, q.body)
<1>1. /\ q.step = "write env" /\ UNCHANGED <<v3, v5>>
      /\ v4' = [v4 EXCEPT ![u] = r]
      /\ v1' = [v1 EXCEPT !.env = new]
  BY DEF Agent!WriteEnv
<1>2. /\ EnvFits(new)
      /\ q.body.url # "same" => Agent!Plain("LLM_BASE_URL", q.body.url) \in new
      /\ q.body.type # "same" => Agent!Plain("LLM_MODEL_TYPE", q.body.type) \in new
      /\ q.body.type = "openai" => Agent!Ref("OPENAI_API_KEY") \in new
      /\ \A e \in q.env : e.kind # "empty" /\ e.name \in {"NVIDIA_API_KEY", "OTHER"} => e \in new
  BY EnvPatched, AgentReq
<1> HIDE DEF new
<1>3. /\ v1.prompt \in {"stock", "edited"} /\ v1.temperature \in BOOLEAN /\ v1.version \in Nat
      /\ v1 = [prompt |-> v1.prompt, temperature |-> v1.temperature, version |-> v1.version, env |-> v1.env]
  BY DEF AgentInv, ClusterFits
<1>5. v1' = [prompt |-> v1.prompt, temperature |-> v1.temperature, version |-> v1.version, env |-> new]
  BY <1>1, <1>3
<1>6. ClusterFits(v1')
  BY <1>2, <1>3, <1>5 DEF ClusterFits
<1>7. ReqTyped(r) /\ Stored(r, v1') /\ r.alone = q.alone /\ r.step = "restart"
  <2>0. r = [step |-> "restart", body |-> q.body, version |-> q.version, env |-> q.env, alone |-> q.alone]
    BY AgentReqSet, ReqSet
  <2> HIDE DEF r
  <2>1. /\ r.step = "restart" /\ r.body = q.body /\ r.version = q.version /\ r.env = q.env /\ r.alone = q.alone
        /\ r = [step |-> "restart", body |-> q.body, version |-> q.version, env |-> q.env, alone |-> q.alone]
    BY <2>0
  <2>2. ReqTyped(r)
    BY <2>1, AgentReq DEF ReqTyped, ReqSteps
  <2>3. Stored(r, v1')
    BY <1>1, <1>2, <2>1, <1>5, AgentReq DEF Stored
  <2> QED BY <2>1, <2>2, <2>3
<1>8. q.alone => q.env = v1.env
  BY <1>1, AgentReq DEF Stored
<1> HIDE DEF r, q
<1>9. AgentInv'
  <2>1. v5' \in 0 .. AgentGiven.MaxTurns /\ v3' \in [AgentGiven.Users -> AgentForms] /\ q.step # "none"
    BY <1>1, AgentReq
  <2> QED BY <1>1, <1>6, <1>7, <2>1, AgentMoves DEF q
<1>a. \A w \in AgentGiven.Users : v3'[w].key = v3[w].key
  BY <1>1
<1>b. AgentKeeps
  <2>1. v4[u].step = "write env"
    BY <1>1 DEF q
  <2>2. v4[u].alone =>
          \A e \in v1.env : e.kind # "empty" /\ e.name \in {"NVIDIA_API_KEY", "OTHER"} => e \in v1'.env
    BY <1>2, <1>5, <1>8 DEF q
  <2> QED BY <1>1, <1>a, <2>1, <2>2, OneWrites
<1> QED BY <1>9, <1>b

LEMMA AgentEnds ==
  ASSUME AgentInv, NEW u \in AgentGiven.Users, Agent!Restart(u) \/ Agent!Fail(u)
  PROVE  AgentInv' /\ AgentKeeps
<1> DEFINE f == [v3[u] EXCEPT !.data = Agent!Behavior]
<1>1. /\ v4[u].step # "none" /\ v1' = v1 /\ v5' = v5 /\ v4' = [v4 EXCEPT ![u] = Agent!NoReq]
      /\ \/ v4[u].step = "restart" /\ v2' = Agent!Started /\ v3' = [v3 EXCEPT ![u] = f]
         \/ v3' = v3
  BY DEF Agent!Restart, Agent!Restarted, Agent!Fail
<1>2. f \in AgentForms /\ f.key = v3[u].key
  <2>1. Agent!Behavior \in Agent!Draft
    BY BehaviorFits
  <2> QED BY <2>1, AgentForm DEF AgentForms
<1> HIDE DEF f
<1>3. v3' \in [AgentGiven.Users -> AgentForms] /\ \A w \in AgentGiven.Users : v3'[w].key = v3[w].key
  BY <1>1, <1>2 DEF AgentInv
<1>4. ReqTyped(Agent!NoReq) /\ ~Agent!NoReq.alone /\ Agent!NoReq.step = "none"
  BY DEF Agent!NoReq, Agent!NoBody, Agent!Same, ReqTyped, ReqSteps, AgentBodies, EnvFits
<1>5. AgentInv'
  <2>1. ClusterFits(v1') /\ v5' \in 0 .. AgentGiven.MaxTurns /\ Stored(Agent!NoReq, v1')
    BY <1>1, <1>4, AgentReq DEF Stored
  <2> QED BY <1>1, <1>3, <1>4, <2>1, AgentMoves
<1>6. ASSUME v4[u].step = "restart", v4[u].alone, v3' # v3
      PROVE  /\ v2' = Agent!Started
             /\ v4[u].body.prompt \in {Agent!Same, v1.prompt}
             /\ v4[u].body.url \in {Agent!Same, Agent!Behavior.url}
             /\ v4[u].body.type \in {Agent!Same, Agent!Behavior.type}
             /\ Agent!Strips(v4[u].body) => ~v2'.temperature /\ Agent!Ref("OPENAI_API_KEY") \in v2'.env
  <2>1. Stored(v4[u], v1) /\ ClusterFits(v1)
    BY AgentReq
  <2>2. v2' = Agent!Started
    BY <1>1, <1>6
  <2>3. v4[u].body.url \in {Agent!Same, Agent!Behavior.url} /\ v4[u].body.type \in {Agent!Same, Agent!Behavior.type}
    BY <1>6, <2>1, ValuesRead DEF Stored, Agent!Same, Agent!Behavior
  <2>4. Agent!Strips(v4[u].body) => ~v2'.temperature /\ Agent!Ref("OPENAI_API_KEY") \in v2'.env
    BY <1>6, <2>1, <2>2 DEF Stored, Agent!Strips, Agent!Started
  <2> QED BY <1>6, <2>1, <2>2, <2>3, <2>4 DEF Stored, Agent!Same
<1>7. AgentKeeps
  <2>1. v3'[u] # v3[u] => v3' # v3
    OBVIOUS
  <2> QED BY <1>1, <1>3, <1>4, <1>6, <2>1, OneWrites
<1> QED BY <1>5, <1>7

(* Requests that run are none of them alone any more.                      *)
LEMMA CrowdedFits ==
  ASSUME AgentInv
  PROVE  /\ Agent!Crowded = [w \in AgentGiven.Users |-> Agent!Crowded[w]]
         /\ \A w \in AgentGiven.Users :
              /\ ReqTyped(Agent!Crowded[w]) /\ ~Agent!Crowded[w].alone
              /\ Agent!Crowded[w].step = v4[w].step
<1> SUFFICES ASSUME NEW w \in AgentGiven.Users
             PROVE  ReqTyped(Agent!Crowded[w]) /\ ~Agent!Crowded[w].alone /\ Agent!Crowded[w].step = v4[w].step
  BY DEF Agent!Crowded
<1> DEFINE r == [v4[w] EXCEPT !.alone = FALSE]
<1>0. r = [step |-> v4[w].step, body |-> v4[w].body, version |-> v4[w].version, env |-> v4[w].env, alone |-> FALSE]
  BY AgentReqSet, ReqSetAlone
<1>1. /\ r.alone = FALSE /\ r.step = v4[w].step /\ r.env = v4[w].env
      /\ r = [step |-> v4[w].step, body |-> v4[w].body, version |-> v4[w].version, env |-> v4[w].env, alone |-> FALSE]
  <2> HIDE DEF r
  <2> QED BY <1>0
<1>2. Agent!Crowded[w] = r
  BY DEF Agent!Crowded
<1> HIDE DEF r
<1>3. ReqTyped(r)
  BY <1>1, AgentReq DEF ReqTyped
<1> QED BY <1>1, <1>2, <1>3

LEMMA SaveStep ==
  ASSUME AgentInv, NEW u \in AgentGiven.Users, Agent!Save(u)
  PROVE  AgentInv' /\ AgentKeeps
<1> DEFINE b == Agent!Differ(u)
           a == \A w \in AgentGiven.Users : v4[w].step = "none"
           r == [step |-> "read document", body |-> b, version |-> 0, env |-> {}, alone |-> a]
<1>1. /\ v4[u].step = "none" /\ Agent!Turn /\ UNCHANGED <<v1, v2, v3>>
      /\ v4' = [Agent!Crowded EXCEPT ![u] = r]
  BY DEF Agent!Save
<1>2. b \in AgentBodies
  <2>1. /\ v3[u].draft \in Agent!Draft /\ v3[u].data \in Agent!Draft
    BY AgentForm DEF AgentForms
  <2> QED BY <2>1 DEF Agent!Differ, Agent!Draft, AgentBodies, Agent!Same, Agent!Urls, Agent!Types
<1> HIDE DEF b
<1>3. ReqTyped(r) /\ Stored(r, v1')
  BY <1>2 DEF ReqTyped, ReqSteps, EnvFits, Stored
<1>4. r.alone = a /\ r.step = "read document"
  OBVIOUS
<1> HIDE DEF r
<1>5. /\ v4'[u] = r /\ v4' = [w \in AgentGiven.Users |-> v4'[w]]
      /\ \A w \in AgentGiven.Users : w # u => v4'[w] = Agent!Crowded[w]
  BY <1>1, CrowdedFits
<1>6. ASSUME NEW w \in AgentGiven.Users PROVE ReqTyped(v4'[w]) /\ Stored(v4'[w], v1')
  <2>1. CASE w = u
    BY <1>3, <1>5, <2>1
  <2>2. CASE w # u
    BY <1>5, <2>2, CrowdedFits DEF Stored
  <2> QED BY <2>1, <2>2
<1>7. LonelyOnes(v4')
  BY <1>4, <1>5, CrowdedFits DEF LonelyOnes
<1>8. AgentInv'
  <2>1. v5' \in 0 .. AgentGiven.MaxTurns
    BY <1>1, AgentTurn
  <2> QED BY <1>1, <1>5, <1>6, <1>7, <2>1 DEF AgentInv
<1>9. \A w \in AgentGiven.Users : v4[w].step = v4'[w].step \/ (v4[w].step = "none" /\ v3'[w] = v3[w])
  BY <1>1, <1>5, CrowdedFits
<1>a. Agent!WriteStep /\ Agent!AnswerStep /\ Agent!ProbeStep
  BY <1>1, <1>9 DEF Agent!WriteStep, Agent!AnswerStep, Agent!Answered, Agent!ProbeStep
<1> QED BY <1>8, <1>a DEF AgentKeeps

LEMMA RedeployStep ==
  ASSUME AgentInv, Agent!Redeploy
  PROVE  AgentInv' /\ AgentKeeps
<1> DEFINE new == {e \in v1.env : e.name # "LLM_BASE_URL"} \union {Agent!Plain("LLM_BASE_URL", "nvidia")}
<1>1. /\ Agent!Turn /\ UNCHANGED v3 /\ v4' = Agent!Crowded
      /\ v1' = [v1 EXCEPT !.prompt = "stock", !.temperature = TRUE, !.version = v1.version + 1, !.env = new]
  BY DEF Agent!Redeploy
<1>2. /\ v1.version \in Nat /\ EnvFits(v1.env)
      /\ v1 = [prompt |-> v1.prompt, temperature |-> v1.temperature, version |-> v1.version, env |-> v1.env]
  BY DEF AgentInv, ClusterFits
<1>3. EnvFits(new)
  BY <1>2 DEF EnvFits, AgentEntries, AgentNames, AgentValues, Agent!Plain
<1> HIDE DEF new
<1>4. v1' = [prompt |-> "stock", temperature |-> TRUE, version |-> v1.version + 1, env |-> new]
  BY <1>1, <1>2
<1>5. ClusterFits(v1')
  <2>1. v1.version + 1 \in Nat
    BY <1>2
  <2> QED BY <1>3, <1>4, <2>1 DEF ClusterFits
<1>6. AgentInv'
  <2>1. v5' \in 0 .. AgentGiven.MaxTurns
    BY <1>1, AgentTurn
  <2>2. \A w \in AgentGiven.Users : ReqTyped(v4'[w]) /\ ~v4'[w].alone
    BY <1>1, CrowdedFits
  <2>3. v4' = [w \in AgentGiven.Users |-> v4'[w]]
    BY <1>1, CrowdedFits
  <2> QED BY <1>1, <1>5, <2>1, <2>2, <2>3 DEF AgentInv, LonelyOnes, Stored
<1>7. \A w \in AgentGiven.Users : v4[w].step = v4'[w].step
  BY <1>1, CrowdedFits
<1>8. Agent!WriteStep /\ Agent!AnswerStep /\ Agent!ProbeStep
  BY <1>1, <1>7 DEF Agent!WriteStep, Agent!AnswerStep, Agent!Answered, Agent!ProbeStep
<1> QED BY <1>6, <1>8 DEF AgentKeeps

LEMMA AgentStep ==
  ASSUME AgentInv, [Agent!Next]_(Agent!vars)
  PROVE  AgentInv' /\ (Agent!Next => AgentKeeps)
<1>1. CASE UNCHANGED Agent!vars /\ ~Agent!Next
  BY <1>1 DEF Agent!vars, AgentInv
<1>2. CASE Agent!Next
  <2>1. ASSUME NEW u \in AgentGiven.Users,
               \/ Agent!Load(u) \/ Agent!Custom(u) \/ Agent!Save(u) \/ Agent!ReadDocument(u)
               \/ Agent!WriteDocument(u) \/ Agent!ReadEnv(u) \/ Agent!WriteEnv(u) \/ Agent!Restart(u)
               \/ Agent!Fail(u) \/ \E prompt \in {"stock", "edited"} : Agent!Edit(u, prompt)
               \/ \E p \in Agent!Presets : Agent!Pick(u, p)
        PROVE  AgentInv' /\ AgentKeeps
    BY <2>1, LoadStep, DraftSteps, SaveStep, ReadDocumentStep, WriteDocumentStep, ReadEnvStep,
       WriteEnvStep, AgentEnds
  <2> QED BY <1>2, <2>1, RedeployStep DEF Agent!Next
<1> QED BY <1>1, <1>2

--------------------------------------------------------------------------------
(* The chat and the search page (app/chat/page.tsx, lib/use-voice.ts): v1  *)
(* the chat, v2 the wires, v3 the threads, v4 the microphone, v5 what is   *)
(* being said, v6 the search page.                                         *)
TurnsAsked == 0 .. ChatGiven.MaxTurns
ChatTyped(c) ==
  /\ c \in [lines : {c.lines}, loading : BOOLEAN, error : BOOLEAN,
            probe : {"idle", "running", "pass", "fail"}, turns : TurnsAsked,
            conv : {0} \union Chat!Convs, clears : 0 .. ChatGiven.MaxClears, since : TurnsAsked]
  /\ c.since <= c.turns /\ c.conv \in {0, c.clears + 1}
Wire(w) ==
  w \in [turn : 1 .. ChatGiven.MaxTurns, what : {"send", "probe"}, ask : Chat!Asks,
         conv : Chat!Convs, spoken : BOOLEAN, at : {"console", "agent"}]
SaidFits(w, c) ==
  /\ Wire(w) /\ w.turn <= c.turns /\ w.conv <= c.clears + 1
  /\ w.conv = c.clears + 1 => w.turn > c.since
ThreadsFit(t, c) ==
  /\ t \in [Chat!Convs -> Seq(1 .. ChatGiven.MaxTurns)]
  /\ \A i \in DOMAIN t[c.clears + 1] : t[c.clears + 1][i] > c.since
  /\ \A k \in Chat!Convs : k > c.clears + 1 => t[k] = <<>>
Saying == [turn : 1 .. ChatGiven.MaxTurns, loop : BOOLEAN, stage : {"fetch", "clip", "voice"}]
MicTyped(m) ==
  /\ m \in [open : {m.open}, listening : BOOLEAN, flag : BOOLEAN, mode : BOOLEAN, heard : TurnsAsked]
  /\ m.open = {} \/ \E r : m.open = {r}
OneVoice(s) == \A a, b \in s : a.stage = "voice" /\ b.stage = "voice" => a = b
Heeded(w, s) == {x.turn : x \in {y \in w : y.spoken}} \union {x.turn : x \in s}
SpokenCounted(w, s, m) ==
  /\ IsFiniteSet(Heeded(w, s))
  /\ Cardinality(Heeded(w, s)) + (IF m.flag THEN 1 ELSE 0) <= m.heard
SearchFits(p) ==
  /\ p \in [here : BOOLEAN, asked : TurnsAsked, pending : {{}, {p.asked}},
            hits : {0, p.asked}, searched : BOOLEAN, runs : TurnsAsked]
  /\ p.asked = p.runs

ChatInv ==
  /\ ChatTyped(v1)
  /\ \A w \in v2 : SaidFits(w, v1)
  /\ v1.loading => \E w \in v2 : w.what = "send"
  /\ ThreadsFit(v3, v1)
  /\ MicTyped(v4)
  /\ v5 \subseteq Saying /\ OneVoice(v5)
  /\ SpokenCounted(v2, v5, v4)
  /\ SearchFits(v6)

LEMMA ChatCounts == \A S : Chat!Cardinality(S) = Cardinality(S)
BY DEF Chat!Cardinality, Cardinality

LEMMA ChatPromise ==
  ChatInv => /\ Chat!TypeOK /\ Chat!OneRecognizer /\ Chat!ClearedStaysOut /\ Chat!ThinkingIsReal
             /\ Chat!SpokenWereAsked /\ Chat!OnlySoundAnswers /\ Chat!HitsAreOfTheQuestion
<1> SUFFICES ASSUME ChatInv
             PROVE  /\ Chat!TypeOK /\ Chat!OneRecognizer /\ Chat!ClearedStaysOut /\ Chat!ThinkingIsReal
                    /\ Chat!SpokenWereAsked /\ Chat!OnlySoundAnswers /\ Chat!HitsAreOfTheQuestion
  OBVIOUS
<1> USE ChatAssumption
<1>1. Chat!TypeOK
  <2>1. /\ v1.turns \in TurnsAsked /\ v1.conv \in {0} \union Chat!Convs /\ v1.loading \in BOOLEAN
    BY DEF ChatInv, ChatTyped
  <2>2. \A w \in v2 : w.at \in {"console", "agent"} /\ w.conv \in Chat!Convs
    BY DEF ChatInv, SaidFits, Wire
  <2>3. \A s \in v5 : s.stage \in {"fetch", "clip", "voice"}
    BY DEF ChatInv, Saying
  <2>4. v6.asked \in TurnsAsked
    BY DEF ChatInv, SearchFits
  <2> QED BY <2>1, <2>2, <2>3, <2>4 DEF Chat!TypeOK, TurnsAsked
<1>2. Chat!OneRecognizer
  <2>1. Cardinality(v4.open) <= 1
    <3>1. CASE v4.open = {}
      BY <3>1, FS_EmptySet
    <3>2. CASE \E r : v4.open = {r}
      BY <3>2, FS_Singleton
    <3> QED BY <3>1, <3>2 DEF ChatInv, MicTyped
  <2>2. Cardinality({s \in v5 : s.stage = "voice"}) <= 1
    <3> DEFINE V == {s \in v5 : s.stage = "voice"}
    <3>1. V = {} \/ \E s : V = {s}
      BY DEF ChatInv, OneVoice
    <3> QED BY <3>1, FS_EmptySet, FS_Singleton
  <2> QED BY <2>1, <2>2, ChatCounts DEF Chat!OneRecognizer
<1>3. Chat!ClearedStaysOut
  <2>1. v1.conv \in {0, v1.clears + 1}
    BY DEF ChatInv, ChatTyped
  <2> QED BY <2>1 DEF ChatInv, ThreadsFit, Chat!ClearedStaysOut
<1>4. Chat!SpokenWereAsked
  <2>1. Heeded(v2, v5) = {w.turn : w \in {x \in v2 : x.spoken}} \union {s.turn : s \in v5}
    BY DEF Heeded
  <2>2. Cardinality(Heeded(v2, v5)) \in Nat /\ v4.heard \in Nat
    BY FS_CardinalityType DEF ChatInv, SpokenCounted, MicTyped, TurnsAsked
  <2>3. Cardinality(Heeded(v2, v5)) <= v4.heard
    <3>1. CASE v4.flag
      BY <2>2, <3>1 DEF ChatInv, SpokenCounted
    <3>2. CASE ~v4.flag
      BY <2>2, <3>2 DEF ChatInv, SpokenCounted
    <3> QED BY <3>1, <3>2
  <2> QED BY <2>1, <2>3, ChatCounts DEF Chat!SpokenWereAsked
<1>5. Chat!OnlySoundAnswers
  <2>1. \A reply \in Chat!Replies : Chat!Coherent(reply) => reply \notin {"canned", "short", "empty"}
    BY DEF Chat!Replies, Chat!Coherent
  <2>2. ASSUME NEW u \in Chat!Urls, NEW tag \in {"img", "a"}, Chat!Element(tag, Chat!Rewritten(u)) # "text"
        PROVE  u.scheme # "script" /\ ~(Chat!Rewritten(u).scheme = "http" /\ u.host = "agent")
    <3>1. CASE u.scheme = "http" /\ u.host = "agent"
      <4>1. Chat!Rewritten(u).scheme = "rooted"
        BY <3>1 DEF Chat!Rewritten, Chat!Urls
      <4> QED BY <3>1, <4>1
    <3>2. CASE ~(u.scheme = "http" /\ u.host = "agent")
      <4>1. Chat!Rewritten(u) = u
        BY <3>2 DEF Chat!Rewritten
      <4> QED BY <2>2, <3>2, <4>1 DEF Chat!Element
    <3> QED BY <3>1, <3>2
  <2> QED BY <2>1, <2>2 DEF Chat!OnlySoundAnswers
<1>6. Chat!ThinkingIsReal
  BY DEF ChatInv, Chat!ThinkingIsReal
<1>7. Chat!HitsAreOfTheQuestion
  BY DEF ChatInv, SearchFits, Chat!HitsAreOfTheQuestion
<1> QED BY <1>1, <1>2, <1>3, <1>4, <1>5, <1>6, <1>7

LEMMA ChatStart == Chat!Init => ChatInv
<1> SUFFICES ASSUME Chat!Init PROVE ChatInv
  OBVIOUS
<1> USE ChatAssumption
<1>1. ChatTyped(v1) /\ ~v1.loading
  BY DEF Chat!Init, ChatTyped, TurnsAsked
<1>2. v2 = {} /\ v5 = {}
  BY DEF Chat!Init
<1>3. ThreadsFit(v3, v1)
  <2>1. v1.clears = 0 /\ v3 = [c \in Chat!Convs |-> <<>>] /\ 1 \in Chat!Convs
    BY DEF Chat!Init, Chat!Convs
  <2> QED BY <2>1 DEF ThreadsFit
<1>4. MicTyped(v4)
  BY DEF Chat!Init, MicTyped, TurnsAsked
<1>5. SpokenCounted(v2, v5, v4)
  <2>1. Heeded({}, {}) = {}
    BY DEF Heeded
  <2>2. v4.heard = 0 /\ v4.flag = FALSE
    BY DEF Chat!Init
  <2> QED BY <1>2, <2>1, <2>2, FS_EmptySet DEF SpokenCounted
<1>6. SearchFits(v6)
  BY DEF Chat!Init, SearchFits, TurnsAsked
<1> QED BY <1>1, <1>2, <1>3, <1>4, <1>5, <1>6 DEF ChatInv, OneVoice

(* What is to be spoken was heard, and a raised flag was heard as well.     *)
Up(m) == IF m.flag THEN 1 ELSE 0

LEMMA CountedGoes ==
  ASSUME NEW w, NEW s, NEW m, NEW w2, NEW s2, NEW m2, SpokenCounted(w, s, m),
         m.heard \in Nat, m2.heard \in Nat,
         \/ Heeded(w2, s2) \subseteq Heeded(w, s) /\ Up(m2) + m.heard <= Up(m) + m2.heard
         \/ \E t : /\ Heeded(w2, s2) \subseteq Heeded(w, s) \union {t}
                   /\ 1 + Up(m2) + m.heard <= Up(m) + m2.heard
  PROVE  SpokenCounted(w2, s2, m2)
<1> DEFINE A == Heeded(w, s)
           B == Heeded(w2, s2)
<1>1. IsFiniteSet(A) /\ Cardinality(A) + Up(m) <= m.heard /\ Cardinality(A) \in Nat
  BY FS_CardinalityType DEF SpokenCounted, Up
<1>2. Up(m) \in Nat /\ Up(m2) \in Nat
  BY DEF Up
<1>3. CASE B \subseteq A /\ Up(m2) + m.heard <= Up(m) + m2.heard
  <2>1. IsFiniteSet(B) /\ Cardinality(B) <= Cardinality(A) /\ Cardinality(B) \in Nat
    BY <1>1, <1>3, FS_Subset, FS_CardinalityType
  <2>2. Cardinality(B) + Up(m2) <= m2.heard
    <3> HIDE DEF A, B, Up
    <3> QED BY <1>1, <1>2, <1>3, <2>1
  <2> QED BY <2>1, <2>2 DEF SpokenCounted, Up
<1>4. ASSUME NEW t, B \subseteq A \union {t}, 1 + Up(m2) + m.heard <= Up(m) + m2.heard
      PROVE  SpokenCounted(w2, s2, m2)
  <2>1. IsFiniteSet(A \union {t}) /\ Cardinality(A \union {t}) <= Cardinality(A) + 1
        /\ Cardinality(A \union {t}) \in Nat
    <3>1. IsFiniteSet(A \union {t})
          /\ Cardinality(A \union {t}) = IF t \in A THEN Cardinality(A) ELSE Cardinality(A) + 1
      BY <1>1, FS_AddElement
    <3> HIDE DEF A
    <3> QED BY <1>1, <3>1
  <2>2. IsFiniteSet(B) /\ Cardinality(B) <= Cardinality(A \union {t}) /\ Cardinality(B) \in Nat
    BY <1>4, <2>1, FS_Subset, FS_CardinalityType
  <2>3. Cardinality(B) + Up(m2) <= m2.heard
    <3> HIDE DEF A, B, Up
    <3> QED BY <1>1, <1>2, <1>4, <2>1, <2>2
  <2> QED BY <2>2, <2>3 DEF SpokenCounted, Up
<1> QED BY <1>3, <1>4

LEMMA ChatFields ==
  ASSUME NEW c, ChatTyped(c)
  PROVE  /\ c = [lines |-> c.lines, loading |-> c.loading, error |-> c.error, probe |-> c.probe,
                 turns |-> c.turns, conv |-> c.conv, clears |-> c.clears, since |-> c.since]
         /\ c.loading \in BOOLEAN /\ c.error \in BOOLEAN /\ c.probe \in {"idle", "running", "pass", "fail"}
         /\ c.turns \in TurnsAsked /\ c.conv \in {0} \union Chat!Convs
         /\ c.clears \in 0 .. ChatGiven.MaxClears /\ c.since \in TurnsAsked
BY DEF ChatTyped

LEMMA ChatAsks ==
  ASSUME NEW c, ChatTyped(c), NEW l, NEW t, NEW k
  PROVE  [c EXCEPT !.lines = l, !.loading = TRUE, !.error = FALSE, !.turns = t, !.conv = k]
           = [lines |-> l, loading |-> TRUE, error |-> FALSE, probe |-> c.probe, turns |-> t, conv |-> k,
              clears |-> c.clears, since |-> c.since]
<1> DEFINE y == [c EXCEPT !.lines = l, !.loading = TRUE, !.error = FALSE, !.turns = t, !.conv = k]
<1>1. c \in [lines : {c.lines}, loading : {c.loading}, error : {c.error}, probe : {c.probe},
             turns : {c.turns}, conv : {c.conv}, clears : {c.clears}, since : {c.since}]
  BY ChatFields
<1>2. y \in [lines : {l}, loading : {TRUE}, error : {FALSE}, probe : {c.probe}, turns : {t}, conv : {k},
             clears : {c.clears}, since : {c.since}]
  BY <1>1
<1> HIDE DEF y
<1>3. y = [lines |-> l, loading |-> TRUE, error |-> FALSE, probe |-> c.probe, turns |-> t, conv |-> k,
           clears |-> c.clears, since |-> c.since]
  BY <1>2
<1> QED BY <1>3 DEF y

LEMMA WiresLast ==
  ASSUME NEW c, NEW d, NEW w, ChatTyped(c), ChatTyped(d), SaidFits(w, c),
         c.turns <= d.turns, c.clears = d.clears, c.since = d.since
  PROVE  SaidFits(w, d)
<1>1. w.turn \in Nat /\ c.turns \in Nat /\ d.turns \in Nat
  BY ChatAssumption, ChatFields DEF SaidFits, Wire, TurnsAsked
<1> QED BY <1>1 DEF SaidFits

LEMMA ThreadsLast ==
  ASSUME NEW c, NEW d, NEW t, ThreadsFit(t, c), c.clears = d.clears, c.since = d.since
  PROVE  ThreadsFit(t, d)
BY DEF ThreadsFit

(* The conversation of the next question is that of the transcript.        *)
LEMMA ConversationIs ==
  ChatInv => Chat!Conversation = v1.clears + 1 /\ Chat!Conversation \in Chat!Convs
<1> SUFFICES ASSUME ChatInv PROVE Chat!Conversation = v1.clears + 1 /\ Chat!Conversation \in Chat!Convs
  OBVIOUS
<1>1. v1.conv \in {0, v1.clears + 1} /\ v1.clears \in 0 .. ChatGiven.MaxClears
  BY DEF ChatInv, ChatTyped
<1>2. Chat!Conversation = v1.clears + 1
  BY <1>1 DEF Chat!Conversation
<1>3. v1.clears + 1 \in 1 .. ChatGiven.MaxClears + 1
  BY <1>1, ChatAssumption
<1> QED BY <1>2, <1>3 DEF Chat!Convs

LEMMA AskedFits ==
  ASSUME ChatInv, NEW lines, NEW ask \in Chat!Asks, NEW spoken \in BOOLEAN,
         Chat!Asked(lines, ask, spoken)
  PROVE  /\ ChatTyped(v1') /\ \A w \in v2' : SaidFits(w, v1')
         /\ v1'.loading => \E w \in v2' : w.what = "send"
         /\ ThreadsFit(v3, v1')
         /\ Heeded(v2', v5) \subseteq Heeded(v2, v5) \union (IF spoken THEN {v1.turns + 1} ELSE {})
<1> DEFINE t == v1.turns + 1
           k == Chat!Conversation
           l == Append(lines, Chat!Line("user", t))
           n == [turn |-> t, what |-> "send", ask |-> ask, conv |-> k, spoken |-> spoken, at |-> "console"]
<1>1. /\ v1.turns < ChatGiven.MaxTurns /\ v2' = v2 \union {n}
      /\ v1' = [v1 EXCEPT !.lines = l, !.loading = TRUE, !.error = FALSE, !.turns = t, !.conv = k]
  BY DEF Chat!Asked
<1>2. k = v1.clears + 1 /\ k \in Chat!Convs
  BY ConversationIs
<1>3. t \in 1 .. ChatGiven.MaxTurns /\ t \in TurnsAsked /\ v1.turns \in Nat /\ v1.turns <= t /\ v1.since < t
      /\ v1.since \in Nat
  <2>1. v1.turns \in 0 .. ChatGiven.MaxTurns /\ v1.since \in 0 .. ChatGiven.MaxTurns /\ v1.since <= v1.turns
    BY DEF ChatInv, ChatTyped, TurnsAsked
  <2> QED BY <1>1, <2>1, ChatAssumption DEF TurnsAsked
<1>4. v1' = [lines |-> l, loading |-> TRUE, error |-> FALSE, probe |-> v1.probe, turns |-> t, conv |-> k,
             clears |-> v1.clears, since |-> v1.since]
  <2> HIDE DEF l, t, k
  <2> QED BY <1>1, ChatAsks DEF ChatInv
<1>5. n.turn = t /\ n.conv = k /\ n.what = "send" /\ n.spoken = spoken
  OBVIOUS
<1>6. Wire(n)
  <2> HIDE DEF t, k
  <2> QED BY <1>2, <1>3 DEF Wire
<1> HIDE DEF n, l, k
<1>7. ChatTyped(v1')
  <2> HIDE DEF t
  <2> QED BY <1>2, <1>3, <1>4, ChatFields DEF ChatTyped, ChatInv
<1>8. SaidFits(n, v1')
  <2> HIDE DEF t
  <2> QED BY <1>2, <1>3, <1>4, <1>5, <1>6 DEF SaidFits
<1>9. ASSUME NEW w \in v2 PROVE SaidFits(w, v1')
  <2>1. ChatTyped(v1) /\ SaidFits(w, v1)
    BY DEF ChatInv
  <2>2. v1.turns <= v1'.turns /\ v1.clears = v1'.clears /\ v1.since = v1'.since
    BY <1>3, <1>4
  <2> DEFINE d == v1'
  <2>3. ChatTyped(d) /\ v1.turns <= d.turns /\ v1.clears = d.clears /\ v1.since = d.since
    BY <1>7, <2>2
  <2> HIDE DEF d
  <2>4. SaidFits(w, d)
    BY <2>1, <2>3, WiresLast
  <2> QED BY <2>4 DEF d
<1>a. ThreadsFit(v3, v1')
  BY <1>4 DEF ChatInv, ThreadsFit
<1>b. Heeded(v2', v5) \subseteq Heeded(v2, v5) \union (IF spoken THEN {t} ELSE {})
  BY <1>1, <1>5 DEF Heeded
<1>c. \E w \in v2' : w.what = "send"
  BY <1>1, <1>5
<1> QED BY <1>1, <1>7, <1>8, <1>9, <1>a, <1>b, <1>c

LEMMA MicFields ==
  ChatInv => /\ v4 = [open |-> v4.open, listening |-> v4.listening, flag |-> v4.flag, mode |-> v4.mode,
                      heard |-> v4.heard]
             /\ v4.listening \in BOOLEAN /\ v4.flag \in BOOLEAN /\ v4.mode \in BOOLEAN
             /\ v4.heard \in TurnsAsked /\ v4.heard \in Nat
             /\ v4.open = {} \/ \E r : v4.open = {r}
BY ChatAssumption DEF ChatInv, MicTyped, TurnsAsked

LEMMA SendStep ==
  ASSUME ChatInv, NEW ask \in Chat!Asks, Chat!Send(ask)
  PROVE  ChatInv'
<1>1. /\ Chat!Asked(v1.lines, ask, v4.flag) /\ v4' = [v4 EXCEPT !.flag = FALSE] /\ UNCHANGED <<v3, v5, v6>>
      /\ v4.flag \in BOOLEAN
  BY MicFields DEF Chat!Send, Chat!FlagAfter
<1>2. v4' = [open |-> v4.open, listening |-> v4.listening, flag |-> FALSE, mode |-> v4.mode, heard |-> v4.heard]
  BY <1>1, MicFields
<1>3. MicTyped(v4')
  BY <1>2, MicFields DEF MicTyped
<1>4. /\ ChatTyped(v1') /\ \A w \in v2' : SaidFits(w, v1')
      /\ v1'.loading => \E w \in v2' : w.what = "send"
      /\ ThreadsFit(v3, v1')
      /\ Heeded(v2', v5) \subseteq Heeded(v2, v5) \union (IF v4.flag THEN {v1.turns + 1} ELSE {})
  BY <1>1, AskedFits
<1>5. SpokenCounted(v2', v5, v4')
  <2> DEFINE w2 == v2'
             m2 == v4'
  <2>1. m2.heard = v4.heard /\ m2.flag = FALSE /\ v4.heard \in Nat /\ Up(m2) = 0 /\ SpokenCounted(v2, v5, v4)
    BY <1>2, MicFields DEF ChatInv, Up
  <2>2. v4.flag => Up(v4) = 1
    BY DEF Up
  <2>3. ~v4.flag => Up(v4) = 0
    BY DEF Up
  <2>4. \/ Heeded(w2, v5) \subseteq Heeded(v2, v5) /\ Up(m2) + v4.heard <= Up(v4) + m2.heard
        \/ \E x : /\ Heeded(w2, v5) \subseteq Heeded(v2, v5) \union {x}
                  /\ 1 + Up(m2) + v4.heard <= Up(v4) + m2.heard
    <3>1. CASE v4.flag
      <4>1. Heeded(w2, v5) \subseteq Heeded(v2, v5) \union {v1.turns + 1}
        BY <1>4, <3>1
      <4>2. 1 + Up(m2) + v4.heard <= Up(v4) + m2.heard
        <5> HIDE DEF m2
        <5> QED BY <2>1, <2>2, <3>1
      <4> QED BY <4>1, <4>2
    <3>2. CASE ~v4.flag
      <4>1. Heeded(w2, v5) \subseteq Heeded(v2, v5)
        BY <1>4, <3>2
      <4>2. Up(m2) + v4.heard <= Up(v4) + m2.heard
        <5> HIDE DEF m2
        <5> QED BY <2>1, <2>3, <3>2
      <4> QED BY <4>1, <4>2
    <3> QED BY <3>1, <3>2
  <2> HIDE DEF w2, m2
  <2>5. SpokenCounted(w2, v5, m2)
    BY <2>1, <2>4, CountedGoes
  <2> QED BY <2>5 DEF w2, m2
<1> QED BY <1>1, <1>3, <1>4, <1>5 DEF ChatInv

(* While the transcript is not cleared, wires and threads stay as they fit. *)
LEMMA ChatStays ==
  ASSUME ChatInv, NEW d, ChatTyped(d), v1.turns <= d.turns, d.clears = v1.clears, d.since = v1.since
  PROVE  (\A w \in v2 : SaidFits(w, d)) /\ ThreadsFit(v3, d)
BY WiresLast, ThreadsLast DEF ChatInv

LEMMA ProbeAsks ==
  ASSUME ChatInv, Chat!Probe
  PROVE  ChatInv'
<1> DEFINE t == v1.turns + 1
           k == Chat!Conversation
           n == [turn |-> t, what |-> "probe", ask |-> "talk", conv |-> k, spoken |-> FALSE, at |-> "console"]
           d == [v1 EXCEPT !.probe = "running", !.turns = t, !.conv = k]
<1>1. /\ ~v1.loading /\ v1.turns < ChatGiven.MaxTurns /\ v2' = v2 \union {n} /\ v1' = d
      /\ UNCHANGED <<v3, v4, v5, v6>>
  BY DEF Chat!Probe
<1>2. k = v1.clears + 1 /\ k \in Chat!Convs
  BY ConversationIs
<1>3. t \in 1 .. ChatGiven.MaxTurns /\ t \in TurnsAsked /\ v1.turns \in Nat /\ v1.turns <= t /\ v1.since < t
      /\ v1.since \in Nat
  <2>1. v1.turns \in 0 .. ChatGiven.MaxTurns /\ v1.since \in 0 .. ChatGiven.MaxTurns /\ v1.since <= v1.turns
    BY DEF ChatInv, ChatTyped, TurnsAsked
  <2> QED BY <1>1, <2>1, ChatAssumption DEF TurnsAsked
<1>4. d = [lines |-> v1.lines, loading |-> v1.loading, error |-> v1.error, probe |-> "running",
           turns |-> t, conv |-> k, clears |-> v1.clears, since |-> v1.since]
  <2>1. v1 \in [lines : {v1.lines}, loading : {v1.loading}, error : {v1.error}, probe : {v1.probe},
                turns : {v1.turns}, conv : {v1.conv}, clears : {v1.clears}, since : {v1.since}]
    BY ChatFields DEF ChatInv
  <2> HIDE DEF t, k
  <2>2. d \in [lines : {v1.lines}, loading : {v1.loading}, error : {v1.error}, probe : {"running"},
               turns : {t}, conv : {k}, clears : {v1.clears}, since : {v1.since}]
    BY <2>1
  <2> HIDE DEF d
  <2> QED BY <2>2
<1>5. n.turn = t /\ n.conv = k /\ n.what = "probe" /\ n.spoken = FALSE
  OBVIOUS
<1>6. Wire(n)
  <2> HIDE DEF t, k
  <2> QED BY <1>2, <1>3 DEF Wire, Chat!Asks
<1> HIDE DEF n, k, d
<1>7. ChatTyped(d)
  <2> HIDE DEF t
  <2> QED BY <1>2, <1>3, <1>4, ChatFields DEF ChatTyped, ChatInv
<1>8. SaidFits(n, d)
  <2> HIDE DEF t
  <2> QED BY <1>2, <1>3, <1>4, <1>5, <1>6 DEF SaidFits
<1>9. (\A w \in v2 : SaidFits(w, d)) /\ ThreadsFit(v3, d)
  BY <1>3, <1>4, <1>7, ChatStays
<1>a. Heeded(v2', v5') = Heeded(v2, v5)
  BY <1>1, <1>5 DEF Heeded
<1>b. SpokenCounted(v2', v5', v4')
  BY <1>1, <1>a DEF ChatInv, SpokenCounted
<1>c. /\ ChatTyped(v1') /\ (\A w \in v2' : SaidFits(w, v1')) /\ ThreadsFit(v3', v1') /\ ~v1'.loading
  BY <1>1, <1>4, <1>7, <1>8, <1>9
<1> QED BY <1>1, <1>b, <1>c DEF ChatInv

LEMMA RouteStep ==
  ASSUME ChatInv, NEW w \in v2, Chat!Route(w)
  PROVE  ChatInv'
<1> DEFINE n == [w EXCEPT !.at = "agent"]
<1>1. /\ v2' = (v2 \ {w}) \union {n} /\ v3' = [v3 EXCEPT ![w.conv] = Append(v3[w.conv], w.turn)]
      /\ UNCHANGED <<v1, v4, v5, v6>>
  BY DEF Chat!Route
<1>2. SaidFits(w, v1) /\ Wire(w)
  BY DEF ChatInv, SaidFits
<1>3. /\ Wire(n) /\ n.turn = w.turn /\ n.conv = w.conv /\ n.what = w.what /\ n.spoken = w.spoken
  BY <1>2 DEF Wire
<1> HIDE DEF n
<1>4. SaidFits(n, v1)
  BY <1>2, <1>3 DEF SaidFits
<1>5. v1.loading => \E x \in v2' : x.what = "send"
  BY <1>1, <1>3 DEF ChatInv
<1>6. Heeded(v2', v5') \subseteq Heeded(v2, v5)
  BY <1>1, <1>3 DEF Heeded
<1>7. SpokenCounted(v2', v5', v4')
  <2> DEFINE w2 == v2'
             s2 == v5'
             m2 == v4'
  <2>a. Heeded(w2, s2) \subseteq Heeded(v2, v5) /\ SpokenCounted(v2, v5, v4)
    BY <1>6 DEF ChatInv
  <2>b. v4.heard \in Nat /\ m2.heard \in Nat
    BY <1>1, <1>6, MicFields
  <2>c. Up(m2) + v4.heard <= Up(v4) + m2.heard
    BY <1>1, <1>6, MicFields DEF Up
  <2>1. Heeded(w2, s2) \subseteq Heeded(v2, v5) /\ Up(m2) + v4.heard <= Up(v4) + m2.heard
        /\ SpokenCounted(v2, v5, v4) /\ v4.heard \in Nat /\ m2.heard \in Nat
    BY <2>a, <2>b, <2>c
  <2> HIDE DEF w2, s2, m2
  <2>2. SpokenCounted(w2, s2, m2)
    BY <2>1, CountedGoes
  <2> QED BY <2>2 DEF w2, s2, m2
<1>8. ThreadsFit(v3', v1)
  <2> DEFINE k == v1.clears + 1
             a == Append(v3[w.conv], w.turn)
  <2>1. /\ v3 \in [Chat!Convs -> Seq(1 .. ChatGiven.MaxTurns)] /\ w.conv \in Chat!Convs /\ w.turn \in 1 .. ChatGiven.MaxTurns
        /\ v3[w.conv] \in Seq(1 .. ChatGiven.MaxTurns)
    BY <1>2 DEF ChatInv, ThreadsFit, Wire
  <2>2. a \in Seq(1 .. ChatGiven.MaxTurns)
    BY <2>1
  <2>3. \A i \in DOMAIN a : a[i] = w.turn \/ (i \in DOMAIN v3[w.conv] /\ a[i] = v3[w.conv][i])
    BY <2>1
  <2> HIDE DEF a
  <2>4. v3' \in [Chat!Convs -> Seq(1 .. ChatGiven.MaxTurns)] /\ v3'[w.conv] = a
        /\ \A c \in Chat!Convs : c # w.conv => v3'[c] = v3[c]
    BY <1>1, <2>1, <2>2 DEF a
  <2>5. v1.clears \in 0 .. ChatGiven.MaxClears /\ k \in Chat!Convs /\ w.conv <= k
    BY <1>2, ChatAssumption, ChatFields DEF ChatInv, Chat!Convs, SaidFits
  <2>6. \A i \in DOMAIN v3'[k] : v3'[k][i] > v1.since
    <3>1. CASE w.conv = k
      <4>1. w.turn > v1.since
        BY <1>2, <3>1 DEF SaidFits
      <4> QED BY <2>3, <2>4, <3>1, <4>1 DEF ChatInv, ThreadsFit
    <3>2. CASE w.conv # k
      BY <2>4, <2>5, <3>2 DEF ChatInv, ThreadsFit
    <3> QED BY <3>1, <3>2
  <2>7. \A c \in Chat!Convs : c > k => v3'[c] = <<>>
    <3>1. w.conv \in Nat /\ k \in Nat /\ \A c \in Chat!Convs : c > k => c # w.conv
      BY <2>5, ChatAssumption, <2>1 DEF Chat!Convs
    <3> QED BY <2>4, <3>1 DEF ChatInv, ThreadsFit
  <2> QED BY <2>4, <2>6, <2>7 DEF ThreadsFit
<1> QED BY <1>1, <1>4, <1>5, <1>7, <1>8 DEF ChatInv

(* An exchange ends: its wire goes, and with it the page's waiting.        *)
LEMMA ExchangeEnds ==
  ASSUME ChatInv, NEW w \in v2, v2' = v2 \ {w}, UNCHANGED <<v3, v4, v6>>,
         ChatTyped(v1'), v1'.turns = v1.turns, v1'.clears = v1.clears, v1'.since = v1.since,
         v1'.loading => v1.loading /\ w.what # "send",
         v5' \subseteq Saying, OneVoice(v5'),
         \A s \in v5' : s \in v5 \/ (w.spoken /\ s.turn = w.turn)
  PROVE  ChatInv'
<1>1. \A x \in v2 : SaidFits(x, v1')
  <2> DEFINE d == v1'
  <2>1. ChatTyped(d) /\ v1.turns <= d.turns /\ d.clears = v1.clears /\ d.since = v1.since
    BY ChatAssumption, ChatFields DEF ChatInv, TurnsAsked
  <2> HIDE DEF d
  <2>2. \A x \in v2 : SaidFits(x, d)
    BY <2>1, ChatStays
  <2> QED BY <2>2 DEF d
<1>2. ThreadsFit(v3, v1')
  BY DEF ChatInv, ThreadsFit
<1>3. v1'.loading => \E x \in v2' : x.what = "send"
  BY DEF ChatInv
<1>4. Heeded(v2', v5') \subseteq Heeded(v2, v5)
  BY DEF Heeded
<1>5. SpokenCounted(v2', v5', v4')
  <2> DEFINE w2 == v2'
             s2 == v5'
             m2 == v4'
  <2>a. Heeded(w2, s2) \subseteq Heeded(v2, v5) /\ SpokenCounted(v2, v5, v4)
    BY <1>4 DEF ChatInv
  <2>b. v4.heard \in Nat /\ m2.heard \in Nat
    BY <1>4, MicFields
  <2>c. Up(m2) + v4.heard <= Up(v4) + m2.heard
    BY <1>4, MicFields DEF Up
  <2>1. Heeded(w2, s2) \subseteq Heeded(v2, v5) /\ Up(m2) + v4.heard <= Up(v4) + m2.heard
        /\ SpokenCounted(v2, v5, v4) /\ v4.heard \in Nat /\ m2.heard \in Nat
    BY <2>a, <2>b, <2>c
  <2> HIDE DEF w2, s2, m2
  <2>2. SpokenCounted(w2, s2, m2)
    BY <2>1, CountedGoes
  <2> QED BY <2>2 DEF w2, s2, m2
<1> QED BY <1>1, <1>2, <1>3, <1>5 DEF ChatInv

LEMMA ChatRebuilt ==
  ASSUME NEW c, ChatTyped(c), NEW d, NEW a, NEW k \in BOOLEAN, NEW e \in BOOLEAN,
         NEW q \in {"idle", "running", "pass", "fail"},
         d \in [lines : {a}, loading : {k}, error : {e}, probe : {q},
                turns : {c.turns}, conv : {c.conv}, clears : {c.clears}, since : {c.since}]
  PROVE  ChatTyped(d) /\ d.loading = k /\ d.turns = c.turns /\ d.clears = c.clears /\ d.since = c.since
<1>1. /\ c.turns \in TurnsAsked /\ c.conv \in {0} \union Chat!Convs
      /\ c.clears \in 0 .. ChatGiven.MaxClears /\ c.since \in TurnsAsked
      /\ c.since <= c.turns /\ c.conv \in {0, c.clears + 1}
  BY ChatFields DEF ChatTyped
<1> QED BY <1>1 DEF ChatTyped

LEMMA ChatHas ==
  ASSUME NEW c, ChatTyped(c)
  PROVE  /\ c \in [lines : {c.lines}, loading : {c.loading}, error : {c.error}, probe : {c.probe},
                   turns : {c.turns}, conv : {c.conv}, clears : {c.clears}, since : {c.since}]
         /\ c.loading \in BOOLEAN /\ c.error \in BOOLEAN /\ c.probe \in {"idle", "running", "pass", "fail"}
BY ChatFields DEF ChatTyped

LEMMA ReplyChanges ==
  ASSUME NEW c, ChatTyped(c), NEW d,
         \/ \E l : d = [c EXCEPT !.lines = l, !.loading = FALSE]
         \/ d = [c EXCEPT !.error = TRUE, !.loading = FALSE]
  PROVE  ChatTyped(d) /\ ~d.loading /\ d.turns = c.turns /\ d.clears = c.clears /\ d.since = c.since
<1>0. /\ c \in [lines : {c.lines}, loading : {c.loading}, error : {c.error}, probe : {c.probe},
                turns : {c.turns}, conv : {c.conv}, clears : {c.clears}, since : {c.since}]
      /\ c.loading \in BOOLEAN /\ c.error \in BOOLEAN /\ c.probe \in {"idle", "running", "pass", "fail"}
  BY ChatHas
<1>9. c.loading \in BOOLEAN /\ c.error \in BOOLEAN /\ c.probe \in {"idle", "running", "pass", "fail"}
  BY <1>0
<1>1. ASSUME NEW l, d = [c EXCEPT !.lines = l, !.loading = FALSE]
      PROVE  ChatTyped(d) /\ ~d.loading /\ d.turns = c.turns /\ d.clears = c.clears /\ d.since = c.since
  <2>1. d \in [lines : {l}, loading : {FALSE}, error : {c.error}, probe : {c.probe},
               turns : {c.turns}, conv : {c.conv}, clears : {c.clears}, since : {c.since}]
    BY <1>0, <1>1
  <2>2. ChatTyped(d) /\ d.loading = FALSE /\ d.turns = c.turns /\ d.clears = c.clears /\ d.since = c.since
    BY <1>9, <2>1, ChatRebuilt
  <2> QED BY <1>1, <2>2
<1>2. CASE d = [c EXCEPT !.error = TRUE, !.loading = FALSE]
  <2>1. d \in [lines : {c.lines}, loading : {FALSE}, error : {TRUE}, probe : {c.probe},
               turns : {c.turns}, conv : {c.conv}, clears : {c.clears}, since : {c.since}]
    BY <1>0, <1>2
  <2>2. ChatTyped(d) /\ d.loading = FALSE /\ d.turns = c.turns /\ d.clears = c.clears /\ d.since = c.since
    BY <1>9, <2>1, ChatRebuilt
  <2> QED BY <1>2, <2>2
<1> QED BY <1>1, <1>2

LEMMA ProbeChanges ==
  ASSUME NEW c, ChatTyped(c), NEW d, NEW what,
         \/ \E l : d = [c EXCEPT !.lines = l, !.probe = "pass"] /\ what = "probe"
         \/ d = [c EXCEPT !.probe = "fail"] /\ what = "probe"
         \/ d = [c EXCEPT !.error = TRUE, !.loading = FALSE]
  PROVE  /\ ChatTyped(d) /\ (d.loading => c.loading /\ what # "send")
         /\ d.turns = c.turns /\ d.clears = c.clears /\ d.since = c.since
<1>0. /\ c \in [lines : {c.lines}, loading : {c.loading}, error : {c.error}, probe : {c.probe},
                turns : {c.turns}, conv : {c.conv}, clears : {c.clears}, since : {c.since}]
      /\ c.loading \in BOOLEAN /\ c.error \in BOOLEAN /\ c.probe \in {"idle", "running", "pass", "fail"}
  BY ChatHas
<1>9. c.loading \in BOOLEAN /\ c.error \in BOOLEAN /\ c.probe \in {"idle", "running", "pass", "fail"}
  BY <1>0
<1>1. ASSUME NEW l, d = [c EXCEPT !.lines = l, !.probe = "pass"], what = "probe"
      PROVE  /\ ChatTyped(d) /\ (d.loading => c.loading /\ what # "send")
             /\ d.turns = c.turns /\ d.clears = c.clears /\ d.since = c.since
  <2>1. d \in [lines : {l}, loading : {c.loading}, error : {c.error}, probe : {"pass"},
               turns : {c.turns}, conv : {c.conv}, clears : {c.clears}, since : {c.since}]
    BY <1>0, <1>1
  <2>2. ChatTyped(d) /\ d.loading = c.loading /\ d.turns = c.turns /\ d.clears = c.clears /\ d.since = c.since
    BY <1>9, <2>1, ChatRebuilt
  <2> QED BY <1>1, <2>2
<1>2. CASE d = [c EXCEPT !.probe = "fail"] /\ what = "probe"
  <2>1. d \in [lines : {c.lines}, loading : {c.loading}, error : {c.error}, probe : {"fail"},
               turns : {c.turns}, conv : {c.conv}, clears : {c.clears}, since : {c.since}]
    BY <1>0, <1>2
  <2>2. ChatTyped(d) /\ d.loading = c.loading /\ d.turns = c.turns /\ d.clears = c.clears /\ d.since = c.since
    BY <1>9, <2>1, ChatRebuilt
  <2> QED BY <1>2, <2>2
<1>3. CASE d = [c EXCEPT !.error = TRUE, !.loading = FALSE]
  <2>1. d \in [lines : {c.lines}, loading : {FALSE}, error : {TRUE}, probe : {c.probe},
               turns : {c.turns}, conv : {c.conv}, clears : {c.clears}, since : {c.since}]
    BY <1>0, <1>3
  <2>2. ChatTyped(d) /\ d.loading = FALSE /\ d.turns = c.turns /\ d.clears = c.clears /\ d.since = c.since
    BY <1>9, <2>1, ChatRebuilt
  <2> QED BY <1>3, <2>2
<1> QED BY <1>1, <1>2, <1>3

(* What is said of a turn is said of it, by one voice.                     *)
LEMMA SayingFits ==
  ASSUME ChatInv, NEW t \in 1 .. ChatGiven.MaxTurns, NEW s \in Chat!Said(t), NEW new,
         new = IF s.stage = "fetch" THEN Chat!Silenced \union {s} ELSE Chat!BrowserSays(s)
  PROVE  new \subseteq Saying /\ OneVoice(new) /\ \A x \in new : x \in v5 \/ x.turn = t
<1>1. s \in Saying /\ s.turn = t
  BY MicFields DEF Chat!Said, Saying
<1>2. CASE s.stage = "fetch"
  BY <1>1, <1>2 DEF Chat!Silenced, OneVoice, ChatInv
<1>3. CASE s.stage # "fetch"
  BY <1>1, <1>3 DEF Chat!BrowserSays, OneVoice, ChatInv
<1> QED BY <1>2, <1>3

LEMMA ReplySteps ==
  ASSUME ChatInv, NEW w \in v2, NEW reply,
         Chat!Reply(w, reply) \/ Chat!ProbeReply(w, reply) \/ Chat!Fail(w)
  PROVE  ChatInv'
<1> USE DEF Chat!Settled
<1>0. ChatTyped(v1) /\ w.turn \in 1 .. ChatGiven.MaxTurns /\ v5 \subseteq Saying /\ OneVoice(v5)
      /\ v2 \ {w} = v2 \ {w}
  BY DEF ChatInv, SaidFits, Wire
<1>1. CASE Chat!Reply(w, reply)
  <2>1. /\ v2' = v2 \ {w} /\ UNCHANGED <<v3, v4, v6>>
        /\ \/ v1' = [v1 EXCEPT !.lines = Append(v1.lines, Chat!Line("assistant", w.turn)), !.loading = FALSE]
           \/ v1' = [v1 EXCEPT !.error = TRUE, !.loading = FALSE]
        /\ \/ v5' = v5
           \/ w.spoken /\ \E s \in Chat!Said(w.turn) :
                v5' = IF s.stage = "fetch" THEN Chat!Silenced \union {s} ELSE Chat!BrowserSays(s)
    BY <1>1 DEF Chat!Reply
  <2>2. ChatTyped(v1') /\ ~v1'.loading /\ v1'.turns = v1.turns /\ v1'.clears = v1.clears /\ v1'.since = v1.since
    <3> DEFINE z == v1'
    <3>1. \/ \E l : z = [v1 EXCEPT !.lines = l, !.loading = FALSE]
          \/ z = [v1 EXCEPT !.error = TRUE, !.loading = FALSE]
      BY <2>1
    <3> HIDE DEF z
    <3>2. ChatTyped(z) /\ ~z.loading /\ z.turns = v1.turns /\ z.clears = v1.clears /\ z.since = v1.since
      BY <1>0, <3>1, ReplyChanges
    <3> QED BY <3>2 DEF z
  <2>3. /\ v5' \subseteq Saying /\ OneVoice(v5')
        /\ \A s \in v5' : s \in v5 \/ (w.spoken /\ s.turn = w.turn)
    <3>1. CASE v5' = v5
      BY <1>0, <3>1
    <3>2. CASE w.spoken /\ \E s \in Chat!Said(w.turn) :
                v5' = IF s.stage = "fetch" THEN Chat!Silenced \union {s} ELSE Chat!BrowserSays(s)
      <4>1. PICK s \in Chat!Said(w.turn) :
              v5' = IF s.stage = "fetch" THEN Chat!Silenced \union {s} ELSE Chat!BrowserSays(s)
        BY <3>2
      <4> DEFINE new == v5'
      <4>2. new = IF s.stage = "fetch" THEN Chat!Silenced \union {s} ELSE Chat!BrowserSays(s)
        BY <4>1
      <4> HIDE DEF new
      <4>3. new \subseteq Saying /\ OneVoice(new) /\ \A x \in new : x \in v5 \/ x.turn = w.turn
        BY <1>0, <4>2, SayingFits
      <4> QED BY <3>2, <4>3 DEF new
    <3> QED BY <2>1, <3>1, <3>2
  <2> QED BY <2>1, <2>2, <2>3, ExchangeEnds
<1>2. CASE Chat!ProbeReply(w, reply) \/ Chat!Fail(w)
  <2>1. /\ v2' = v2 \ {w} /\ UNCHANGED <<v3, v4, v5, v6>>
        /\ \/ /\ w.what = "probe"
              /\ \/ \E l : v1' = [v1 EXCEPT !.lines = l, !.probe = "pass"]
                 \/ v1' = [v1 EXCEPT !.probe = "fail"]
           \/ v1' = [v1 EXCEPT !.error = TRUE, !.loading = FALSE]
    BY <1>2 DEF Chat!ProbeReply, Chat!Fail
  <2>2. /\ ChatTyped(v1') /\ (v1'.loading => v1.loading /\ w.what # "send")
        /\ v1'.turns = v1.turns /\ v1'.clears = v1.clears /\ v1'.since = v1.since
    <3> DEFINE z == v1'
    <3>1. \/ \E l : z = [v1 EXCEPT !.lines = l, !.probe = "pass"] /\ w.what = "probe"
          \/ z = [v1 EXCEPT !.probe = "fail"] /\ w.what = "probe"
          \/ z = [v1 EXCEPT !.error = TRUE, !.loading = FALSE]
      BY <2>1
    <3> HIDE DEF z
    <3>2. /\ ChatTyped(z) /\ (z.loading => v1.loading /\ w.what # "send")
          /\ z.turns = v1.turns /\ z.clears = v1.clears /\ z.since = v1.since
      BY <1>0, <3>1, ProbeChanges
    <3> QED BY <3>2 DEF z
  <2>3. v5' \subseteq Saying /\ OneVoice(v5') /\ \A s \in v5' : s \in v5 \/ (w.spoken /\ s.turn = w.turn)
    BY <1>0, <2>1
  <2> QED BY <2>1, <2>2, <2>3, ExchangeEnds
<1> QED BY <1>1, <1>2

LEMMA ClearStep ==
  ASSUME ChatInv, Chat!Clear
  PROVE  ChatInv'
<1> USE ChatAssumption
<1> DEFINE d == [v1 EXCEPT !.lines = <<>>, !.error = FALSE, !.conv = 0, !.clears = v1.clears + 1, !.since = v1.turns]
           k == v1.clears + 1
<1>1. v1' = d /\ v1.clears < ChatGiven.MaxClears /\ UNCHANGED <<v2, v3, v4, v5, v6>>
  BY DEF Chat!Clear, Chat!NewThread
<1>2. /\ v1 \in [lines : {v1.lines}, loading : {v1.loading}, error : {v1.error}, probe : {v1.probe},
                 turns : {v1.turns}, conv : {v1.conv}, clears : {v1.clears}, since : {v1.since}]
      /\ v1.loading \in BOOLEAN /\ v1.error \in BOOLEAN /\ v1.probe \in {"idle", "running", "pass", "fail"}
      /\ v1.turns \in TurnsAsked /\ v1.clears \in 0 .. ChatGiven.MaxClears
  BY ChatFields DEF ChatInv
<1>3. d \in [lines : {<<>>}, loading : {v1.loading}, error : {FALSE}, probe : {v1.probe},
             turns : {v1.turns}, conv : {0}, clears : {k}, since : {v1.turns}]
  <2> HIDE DEF k
  <2> DEFINE y == [v1 EXCEPT !.lines = <<>>, !.error = FALSE, !.conv = 0]
  <2>1. y \in [lines : {<<>>}, loading : {v1.loading}, error : {FALSE}, probe : {v1.probe},
               turns : {v1.turns}, conv : {0}, clears : {v1.clears}, since : {v1.since}]
    BY <1>2
  <2>2. d = [y EXCEPT !.clears = k, !.since = v1.turns]
    BY DEF k
  <2> HIDE DEF y
  <2> QED BY <2>1, <2>2
<1> HIDE DEF d
<1>4. /\ d.loading = v1.loading /\ d.turns = v1.turns /\ d.clears = k /\ d.since = v1.turns /\ d.conv = 0
      /\ d.error = FALSE /\ d.probe = v1.probe /\ d.lines = <<>>
      /\ d \in [lines : {d.lines}, loading : {d.loading}, error : {d.error}, probe : {d.probe},
                turns : {d.turns}, conv : {d.conv}, clears : {d.clears}, since : {d.since}]
  BY <1>3
<1>5. k \in 0 .. ChatGiven.MaxClears /\ k \in Nat /\ v1.turns \in Nat
  BY <1>1, <1>2 DEF TurnsAsked
<1>6. ChatTyped(d)
  <2> HIDE DEF k
  <2>1. d.turns \in TurnsAsked /\ d.conv \in {0} \union Chat!Convs /\ d.clears \in 0 .. ChatGiven.MaxClears
        /\ d.since \in TurnsAsked /\ d.since <= d.turns /\ d.conv \in {0, d.clears + 1}
    BY <1>2, <1>4, <1>5
  <2>2. /\ d.loading \in BOOLEAN /\ d.error \in BOOLEAN
        /\ d.probe \in {"idle", "running", "pass", "fail"}
    BY <1>2, <1>4
  <2> QED BY <1>4, <2>1, <2>2 DEF ChatTyped
<1>7. ASSUME NEW w \in v2 PROVE SaidFits(w, d)
  <2>1. SaidFits(w, v1) /\ w.conv \in Nat
    BY DEF ChatInv, SaidFits, Wire, Chat!Convs
  <2>2. w.conv <= k /\ w.conv # k + 1
    BY <1>5, <2>1 DEF SaidFits
  <2>3. w.conv <= d.clears + 1 /\ w.conv # d.clears + 1
    BY <1>4, <1>5, <2>1, <2>2
  <2> QED BY <1>4, <2>1, <2>3 DEF SaidFits
<1>8. ThreadsFit(v3, d)
  <2>1. k + 1 \in Chat!Convs /\ v3[k + 1] = <<>>
    <3>1. k + 1 \in Chat!Convs /\ k + 1 > k
      BY <1>5 DEF Chat!Convs
    <3> QED BY <3>1 DEF ChatInv, ThreadsFit
  <2>2. \A c \in Chat!Convs : c > k + 1 => v3[c] = <<>>
    <3>1. \A c \in Chat!Convs : c > k + 1 => c > k
      BY <1>5 DEF Chat!Convs
    <3> QED BY <3>1 DEF ChatInv, ThreadsFit
  <2> QED BY <1>4, <2>1, <2>2 DEF ThreadsFit, ChatInv
<1> QED BY <1>1, <1>4, <1>6, <1>7, <1>8 DEF ChatInv

(* The microphone alone: nothing heard, no flag raised or taken down.      *)
LEMMA MicSteps ==
  ASSUME ChatInv, Chat!Listen \/ Chat!Started \/ Chat!Ended \/ Chat!EndedLate \/ Chat!Mode
  PROVE  ChatInv'
<1>1. UNCHANGED <<v1, v2, v3, v5, v6>>
  BY DEF Chat!Listen, Chat!Started, Chat!Ended, Chat!EndedLate, Chat!Mode
<1>2. MicTyped(v4') /\ v4'.flag = v4.flag /\ v4'.heard = v4.heard
  <2>1. /\ v4 \in [open : {v4.open}, listening : BOOLEAN, flag : BOOLEAN, mode : BOOLEAN, heard : TurnsAsked]
        /\ v4.open = {} \/ \E r : v4.open = {r}
    BY DEF ChatInv, MicTyped
  <2>2. CASE Chat!Listen
    BY <2>1, <2>2 DEF Chat!Listen, Chat!Opened, MicTyped
  <2>3. CASE Chat!Started \/ Chat!EndedLate
    BY <2>1, <2>3 DEF Chat!Started, Chat!EndedLate, MicTyped
  <2>4. CASE Chat!Ended
    BY <2>1, <2>4 DEF Chat!Ended, MicTyped
  <2>5. CASE Chat!Mode
    BY <2>1, <2>5 DEF Chat!Mode, MicTyped
  <2> QED BY <2>2, <2>3, <2>4, <2>5
<1> QED BY <1>1, <1>2 DEF ChatInv, SpokenCounted

(* What is heard: asked, or noted for later while the page is busy.        *)
LEMMA HeardFits ==
  ASSUME ChatInv, NEW f \in BOOLEAN, v4.heard < ChatGiven.MaxTurns,
         v4' = [v4 EXCEPT !.flag = f, !.heard = v4.heard + 1]
  PROVE  MicTyped(v4') /\ v4'.flag = f /\ v4'.heard = v4.heard + 1 /\ v4'.heard \in Nat
<1> DEFINE n == v4.heard + 1
<1>1. /\ v4 \in [open : {v4.open}, listening : BOOLEAN, flag : BOOLEAN, mode : BOOLEAN, heard : TurnsAsked]
      /\ v4.open = {} \/ \E r : v4.open = {r}
  BY DEF ChatInv, MicTyped
<1>2. n \in TurnsAsked /\ n \in Nat
  BY <1>1, ChatAssumption DEF TurnsAsked
<1>3. v4' = [v4 EXCEPT !.flag = f, !.heard = n]
  OBVIOUS
<1> HIDE DEF n
<1>4. MicTyped(v4') /\ v4'.flag = f /\ v4'.heard = n
  BY <1>1, <1>2, <1>3 DEF MicTyped
<1> QED BY <1>2, <1>4 DEF n

LEMMA HeardStep ==
  ASSUME ChatInv, NEW r \in v4.open, NEW ask \in Chat!Asks, Chat!Heard(r, ask)
  PROVE  ChatInv'
<1>1. CASE \E l : Chat!Asked(l, ask, TRUE) /\ v4' = [v4 EXCEPT !.flag = FALSE, !.heard = v4.heard + 1]
                  /\ v4.heard < ChatGiven.MaxTurns /\ UNCHANGED <<v3, v5, v6>>
  <2>1. PICK l : Chat!Asked(l, ask, TRUE)
    BY <1>1
  <2>2. v4' = [v4 EXCEPT !.flag = FALSE, !.heard = v4.heard + 1] /\ v4.heard < ChatGiven.MaxTurns
        /\ UNCHANGED <<v3, v5, v6>>
    BY <1>1
  <2>3. MicTyped(v4') /\ v4'.flag = FALSE /\ v4'.heard = v4.heard + 1 /\ v4'.heard \in Nat
    BY <2>2, HeardFits
  <2>4. /\ ChatTyped(v1') /\ \A w \in v2' : SaidFits(w, v1')
        /\ v1'.loading => \E w \in v2' : w.what = "send"
        /\ ThreadsFit(v3, v1')
        /\ Heeded(v2', v5) \subseteq Heeded(v2, v5) \union {v1.turns + 1}
    <3>1. TRUE \in BOOLEAN
      OBVIOUS
    <3> QED BY <2>1, <3>1, AskedFits
  <2>5. SpokenCounted(v2', v5, v4')
    <3> DEFINE w2 == v2'
               m2 == v4'
    <3>1. /\ Heeded(w2, v5) \subseteq Heeded(v2, v5) \union {v1.turns + 1} /\ SpokenCounted(v2, v5, v4)
          /\ v4.heard \in Nat /\ m2.heard \in Nat /\ m2.heard = v4.heard + 1 /\ Up(m2) = 0 /\ Up(v4) \in Nat
      BY <2>3, <2>4, MicFields DEF Up, ChatInv
    <3> HIDE DEF w2, m2
    <3>2. 1 + Up(m2) + v4.heard <= Up(v4) + m2.heard
      BY <3>1
    <3>3. SpokenCounted(w2, v5, m2)
      BY <3>1, <3>2, CountedGoes
    <3> QED BY <3>3 DEF w2, m2
  <2> QED BY <2>2, <2>3, <2>4, <2>5 DEF ChatInv
<1>2. CASE v4' = [v4 EXCEPT !.flag = TRUE, !.heard = v4.heard + 1] /\ v4.heard < ChatGiven.MaxTurns
           /\ UNCHANGED <<v1, v2, v3, v5, v6>>
  <2>1. MicTyped(v4') /\ v4'.flag = TRUE /\ v4'.heard = v4.heard + 1 /\ v4'.heard \in Nat
    BY <1>2, HeardFits
  <2>2. SpokenCounted(v2, v5, v4')
    <3> DEFINE m2 == v4'
    <3>1. /\ SpokenCounted(v2, v5, v4) /\ v4.heard \in Nat /\ m2.heard \in Nat /\ m2.heard = v4.heard + 1
          /\ Up(m2) = 1 /\ Up(v4) \in Nat
      BY <2>1, MicFields DEF Up, ChatInv
    <3> HIDE DEF m2
    <3>2. Up(m2) + v4.heard <= Up(v4) + m2.heard
      BY <3>1
    <3>3. SpokenCounted(v2, v5, m2)
      BY <3>1, <3>2, CountedGoes
    <3> QED BY <3>3 DEF m2
  <2> QED BY <1>2, <2>1, <2>2 DEF ChatInv
<1> QED BY <1>1, <1>2 DEF Chat!Heard, Chat!FlagAfter

LEMMA FetchedStep ==
  ASSUME ChatInv, NEW s \in v5, Chat!Fetched(s)
  PROVE  ChatInv'
<1> DEFINE c == [s EXCEPT !.stage = "clip"]
           v == [s EXCEPT !.stage = "voice"]
<1>1. /\ UNCHANGED <<v1, v2, v3, v4, v6>>
      /\ \/ v5' = (v5 \ {s}) \union {c}
         \/ v5' = {r \in v5 : r.stage # "voice" /\ r # s} \union {v}
  BY DEF Chat!Fetched
<1>2. s \in Saying /\ OneVoice(v5) /\ v5 \subseteq Saying
  BY DEF ChatInv
<1>3. /\ c \in Saying /\ c.turn = s.turn /\ c.stage = "clip"
      /\ v \in Saying /\ v.turn = s.turn /\ v.stage = "voice"
  BY <1>2 DEF Saying
<1> HIDE DEF c, v
<1>4. v5' \subseteq Saying /\ OneVoice(v5')
  BY <1>1, <1>2, <1>3 DEF OneVoice
<1>5. Heeded(v2, v5') \subseteq Heeded(v2, v5)
  BY <1>1, <1>3 DEF Heeded
<1>6. SpokenCounted(v2, v5', v4)
  <2> DEFINE s2 == v5'
  <2>1. Heeded(v2, s2) \subseteq Heeded(v2, v5) /\ SpokenCounted(v2, v5, v4) /\ v4.heard \in Nat
        /\ Up(v4) + v4.heard <= Up(v4) + v4.heard
    BY <1>5, MicFields DEF ChatInv, Up
  <2> HIDE DEF s2
  <2>2. SpokenCounted(v2, s2, v4)
    BY <2>1, CountedGoes
  <2> QED BY <2>2 DEF s2
<1> QED BY <1>1, <1>4, <1>6 DEF ChatInv

LEMMA SpokenStep ==
  ASSUME ChatInv, NEW s \in v5, Chat!Spoken(s)
  PROVE  ChatInv'
<1>1. /\ UNCHANGED <<v1, v2, v3, v6>> /\ v5' = v5 \ {s}
      /\ v4' = [v4 EXCEPT !.open = Chat!Opened(Chat!Listener("loop"))] \/ v4' = v4
  BY DEF Chat!Spoken
<1>2. MicTyped(v4') /\ v4'.flag = v4.flag /\ v4'.heard = v4.heard
  BY <1>1 DEF ChatInv, MicTyped, Chat!Opened
<1>3. v5' \subseteq Saying /\ OneVoice(v5')
  BY <1>1 DEF ChatInv, OneVoice
<1>4. SpokenCounted(v2, v5', v4')
  <2> DEFINE s2 == v5'
             m2 == v4'
  <2>1. Heeded(v2, s2) \subseteq Heeded(v2, v5) /\ Up(m2) + v4.heard <= Up(v4) + m2.heard
        /\ SpokenCounted(v2, v5, v4) /\ v4.heard \in Nat /\ m2.heard \in Nat
    BY <1>1, <1>2, MicFields DEF Up, ChatInv, Heeded
  <2> HIDE DEF s2, m2
  <2>2. SpokenCounted(v2, s2, m2)
    BY <2>1, CountedGoes
  <2> QED BY <2>2 DEF s2, m2
<1> QED BY <1>1, <1>2, <1>3, <1>4 DEF ChatInv

LEMMA SearchSteps ==
  ASSUME ChatInv, Chat!Search \/ \E q \in v6.pending : Chat!Found(q)
  PROVE  ChatInv'
<1> USE ChatAssumption
<1>0. /\ v6 \in [here : BOOLEAN, asked : {v6.asked}, pending : {{}, {v6.asked}},
                 hits : {0, v6.asked}, searched : BOOLEAN, runs : {v6.runs}]
      /\ v6.asked \in TurnsAsked /\ v6.asked = v6.runs
  BY DEF ChatInv, SearchFits
<1>1. CASE Chat!Search
  <2> DEFINE n == v6.runs + 1
             y == [v6 EXCEPT !.asked = n, !.pending = {n}, !.hits = 0, !.searched = TRUE, !.runs = n]
  <2>1. v6.pending = {} /\ v6.runs < ChatGiven.MaxTurns /\ v6' = y /\ UNCHANGED <<v1, v2, v3, v4, v5>>
    BY <1>1 DEF Chat!Search, Chat!CanSearch
  <2>2. n \in TurnsAsked
    BY <1>0, <2>1 DEF TurnsAsked
  <2> HIDE DEF n
  <2>3. y \in [here : BOOLEAN, asked : {n}, pending : {{n}}, hits : {0}, searched : {TRUE}, runs : {n}]
    BY <1>0
  <2> HIDE DEF y
  <2>4. SearchFits(y)
    BY <2>2, <2>3 DEF SearchFits
  <2> QED BY <2>1, <2>4 DEF ChatInv
<1>2. ASSUME NEW q \in v6.pending, Chat!Found(q)
      PROVE  ChatInv'
  <2>1. q = v6.asked /\ v6.pending = {q}
    BY <1>0
  <2>2. PICK h \in {0, q} : v6' = [v6 EXCEPT !.pending = v6.pending \ {q}, !.hits = h]
    BY <1>2 DEF Chat!Found
  <2> DEFINE y == [v6 EXCEPT !.pending = {}, !.hits = h]
  <2>3. v6' = y
    BY <2>1, <2>2
  <2>4. y \in [here : BOOLEAN, asked : {v6.asked}, pending : {{}}, hits : {h}, searched : BOOLEAN, runs : {v6.runs}]
    BY <1>0
  <2> HIDE DEF y
  <2>5. SearchFits(y)
    BY <1>0, <2>1, <2>4 DEF SearchFits
  <2> QED BY <1>2, <2>3, <2>5 DEF ChatInv, Chat!Found
<1> QED BY <1>1, <1>2

LEMMA ChatStep == ASSUME ChatInv, [Chat!Next]_(Chat!vars) PROVE ChatInv'
<1>1. CASE UNCHANGED Chat!vars
  BY <1>1 DEF Chat!vars, ChatInv, SpokenCounted
<1>2. CASE Chat!Next
  <2>1. ASSUME NEW w \in v2, NEW reply \in Chat!Replies, Chat!Route(w) \/ Chat!Fail(w)
                                          \/ Chat!Reply(w, reply) \/ Chat!ProbeReply(w, reply)
        PROVE  ChatInv'
    BY <2>1, RouteStep, ReplySteps
  <2>2. ASSUME NEW w \in v2, Chat!Route(w) \/ Chat!Fail(w) PROVE ChatInv'
    <3>1. "good" \in Chat!Replies
      BY DEF Chat!Replies
    <3> QED BY <2>1, <2>2, <3>1
  <2>3. ASSUME NEW ask \in Chat!Asks, Chat!Send(ask) \/ \E r \in v4.open : Chat!Heard(r, ask)
        PROVE  ChatInv'
    BY <2>3, SendStep, HeardStep
  <2>4. CASE Chat!Probe \/ Chat!Clear \/ Chat!Listen \/ Chat!Started \/ Chat!Ended \/ Chat!EndedLate \/ Chat!Mode
    BY <2>4, ProbeAsks, ClearStep, MicSteps
  <2>5. ASSUME NEW s \in v5, Chat!Fetched(s) \/ Chat!Spoken(s) PROVE ChatInv'
    BY <2>5, FetchedStep, SpokenStep
  <2>6. CASE Chat!Search \/ \E q \in v6.pending : Chat!Found(q)
    BY <2>6, SearchSteps
  <2> QED BY <1>2, <2>1, <2>2, <2>3, <2>4, <2>5, <2>6 DEF Chat!Next
<1> QED BY <1>1, <1>2

--------------------------------------------------------------------------------
(* What is shown of recordings (ClipPlayer.tsx, LiveFeedPlayer.tsx,        *)
(* media-guard.ts and its routes, the probe of a playback): v1 the view,   *)
(* v2 the player, v3 the row of a camera, v4 the still, v5 the probe.      *)
Reasons   == {"none", "diagnosed", "unreachable"}
PlayerRec == [status : MediaGiven.Statuses, video : BOOLEAN, hls : BOOLEAN, error : BOOLEAN,
              ready : BOOLEAN, retries : {0, 1}, timer : BOOLEAN, reason : Reasons]
\* it tries again once: the load effect does not find the element the error took away
TriesOnce(p) == /\ p.timer => p.error /\ p.retries = 0
                /\ p.retries = 1 => p.error
PlayerFits(p) == p \in PlayerRec /\ TriesOnce(p) /\ (p.video <=> Media!Shown(p) = "video")

StoredClip(src) ==
  /\ src.form \in {"own", "path"}
  /\ \E i \in 1 .. 3 : Len(src.path) > i + 1 /\ SubSeq(src.path, i, i + 1) = <<"vst", "storage">>
StillFits(s) ==
  /\ s \in [src : {s.src}, step : {"idle", "fetch", "extract"}, file : BOOLEAN,
            age : 0 .. MediaGiven.Ttl, answer : {s.answer}]
  /\ s.step # "idle" => StoredClip(s.src)
FrameFits(r) ==
  r \in [eip : BOOLEAN, frame : {"none", "still", "failed"}, asked : BOOLEAN]
ProbeFits == v5.verdict \in {"none", "ok", "warn", "error"} /\ Media!ProbesALiveStream

MediaInv == PlayerFits(v2) /\ FrameFits(v3) /\ StillFits(v4) /\ ProbeFits

LEMMA RetriesType == \A k \in {0, 1} : k < MediaGiven.MaxRetries /\ k \in 0 .. MediaGiven.MaxRetries
<1>1. MediaGiven.MaxRetries \in Nat \ {0, 1}
  BY MediaAssumption
<1> QED BY <1>1

LEMMA ShownIs ==
  ASSUME NEW p \in PlayerRec
  PROVE  /\ (Media!Shown(p) = "video") <=> (p.status # "failed" /\ ~p.error)
         /\ TriesOnce(p) /\ Media!Shown(p) = "card" => p.status \in {"failed", "ready"}
<1>1. p.status \in {"pending", "none", "ready", "failed"} /\ p.error \in BOOLEAN /\ p.retries \in {0, 1}
  BY MediaAssumption DEF PlayerRec
<1>2. p.retries < MediaGiven.MaxRetries
  BY <1>1, RetriesType
<1> QED BY <1>1, <1>2 DEF Media!Shown, Media!Transient

LEMMA MediaPromise ==
  MediaInv => /\ Media!TypeOK /\ Media!PendingIsNotLost
              /\ Media!OnlyStorageIsFetched /\ Media!ProbesALiveStream
<1> SUFFICES ASSUME MediaInv
             PROVE  /\ Media!TypeOK /\ Media!PendingIsNotLost
                    /\ Media!OnlyStorageIsFetched /\ Media!ProbesALiveStream
  OBVIOUS
<1>1. v2 \in PlayerRec /\ v2.status \in MediaGiven.Statuses /\ v2.retries \in {0, 1}
  BY DEF MediaInv, PlayerFits, PlayerRec
<1>2. v2.retries \in 0 .. MediaGiven.MaxRetries
  BY <1>1, RetriesType
<1>3. v3.frame \in {"none", "still", "failed"}
  BY DEF MediaInv, FrameFits
<1>4. v4.step \in {"idle", "fetch", "extract"} /\ v4.age \in 0 .. MediaGiven.Ttl
      /\ (v4.step # "idle" => StoredClip(v4.src))
  BY DEF MediaInv, StillFits
<1>5. Media!TypeOK
  BY <1>1, <1>2, <1>3, <1>4 DEF MediaInv, ProbeFits, Media!TypeOK
<1>6. Media!PendingIsNotLost
  BY <1>1, ShownIs DEF MediaInv, PlayerFits, Media!PendingIsNotLost
<1>7. Media!OnlyStorageIsFetched
  BY <1>4 DEF StoredClip, Media!OnlyStorageIsFetched
<1> QED BY <1>5, <1>6, <1>7 DEF MediaInv, ProbeFits

(* What rendering and loading make of a player.                            *)
LEMMA RenderedIs ==
  ASSUME NEW p \in PlayerRec, TriesOnce(p)
  PROVE  /\ PlayerFits(Media!Rendered(p))
         /\ Media!Rendered(p).video = (p.status # "failed" /\ ~p.error)
         /\ Media!Rendered(p).error = p.error /\ Media!Rendered(p).status = p.status
<1> DEFINE b == Media!Shown(p) = "video"
           r == [p EXCEPT !.video = b]
<1>1. r \in [status : {p.status}, video : {b}, hls : {p.hls}, error : {p.error}, ready : {p.ready},
        retries : {p.retries}, timer : {p.timer}, reason : {p.reason}]
      /\ b \in BOOLEAN
  BY DEF PlayerRec
<1>2. Media!Rendered(p) = r
  BY DEF Media!Rendered
<1>3. b = (p.status # "failed" /\ ~p.error)
  BY ShownIs
<1> HIDE DEF r, b
<1>4. r.status = p.status /\ r.hls = p.hls /\ r.error = p.error /\ r.ready = p.ready /\ r.retries = p.retries /\ r.timer = p.timer /\ r.reason = p.reason /\ r.video = b
  BY <1>1
<1>5. r \in PlayerRec
  BY <1>1, <1>4 DEF PlayerRec
<1>6. TriesOnce(r)
  BY <1>4 DEF TriesOnce
<1>7. r.video <=> Media!Shown(r) = "video"
  BY <1>3, <1>4, <1>5, ShownIs
<1> QED BY <1>2, <1>3, <1>4, <1>5, <1>6, <1>7 DEF PlayerFits

LEMMA LoadedIs ==
  ASSUME NEW p, PlayerFits(p)
  PROVE  /\ PlayerFits(Media!Loaded(p))
         /\ ~p.video => Media!Loaded(p).error = p.error
         /\ Media!Loaded(p).status = p.status
<1>0. p \in PlayerRec /\ (p.video <=> (p.status # "failed" /\ ~p.error)) /\ TriesOnce(p)
  BY ShownIs DEF PlayerFits
<1>1. CASE p.status = "failed" \/ ~p.video
  <2> DEFINE r == [p EXCEPT !.hls = FALSE]
  <2>1. r \in [status : {p.status}, video : {p.video}, hls : {FALSE}, error : {p.error}, ready : {p.ready},
        retries : {p.retries}, timer : {p.timer}, reason : {p.reason}]
    BY <1>0 DEF PlayerRec
  <2>2. Media!Loaded(p) = r
    BY <1>1 DEF Media!Loaded
  <2> HIDE DEF r
  <2>3. r.status = p.status /\ r.video = p.video /\ r.error = p.error /\ r.ready = p.ready /\ r.retries = p.retries /\ r.timer = p.timer /\ r.reason = p.reason /\ r.hls = FALSE
    BY <2>1
  <2>4. r \in PlayerRec /\ TriesOnce(r)
    BY <1>0, <2>1, <2>3 DEF PlayerRec, TriesOnce
  <2>5. r.video <=> Media!Shown(r) = "video"
    BY <1>0, <2>3, <2>4, ShownIs
  <2> QED BY <2>2, <2>3, <2>4, <2>5 DEF PlayerFits
<1>2. CASE ~(p.status = "failed" \/ ~p.video)
  <2> DEFINE r == [p EXCEPT !.hls = TRUE, !.error = FALSE, !.ready = FALSE]
  <2>0. p.error = FALSE
    BY <1>0, <1>2 DEF PlayerRec
  <2>1. r \in [status : {p.status}, video : {p.video}, hls : {TRUE}, error : {FALSE}, ready : {FALSE},
        retries : {p.retries}, timer : {p.timer}, reason : {p.reason}]
    BY <1>0 DEF PlayerRec
  <2>2. Media!Loaded(p) = r
    BY <1>2 DEF Media!Loaded
  <2> HIDE DEF r
  <2>3. r.status = p.status /\ r.video = p.video /\ r.retries = p.retries /\ r.timer = p.timer /\ r.reason = p.reason /\ r.error = FALSE
    BY <2>1
  <2>4. r \in PlayerRec /\ TriesOnce(r)
    BY <1>0, <2>0, <2>1, <2>3 DEF PlayerRec, TriesOnce
  <2>5. r.video <=> Media!Shown(r) = "video"
    BY <1>0, <2>0, <2>3, <2>4, ShownIs
  <2> QED BY <1>2, <2>0, <2>2, <2>3, <2>4, <2>5 DEF PlayerFits
<1> QED BY <1>1, <1>2

(* The fields of a player.                                                 *)
LEMMA PlayerIs ==
  ASSUME NEW p, PlayerFits(p)
  PROVE  /\ p \in [status : {p.status}, video : {p.video}, hls : {p.hls}, error : {p.error}, ready : {p.ready},
              retries : {p.retries}, timer : {p.timer}, reason : {p.reason}]
         /\ p.status \in MediaGiven.Statuses /\ p.error \in BOOLEAN /\ p.ready \in BOOLEAN
         /\ p.retries \in {0, 1} /\ p.timer \in BOOLEAN /\ p.reason \in Reasons
         /\ (p.timer => p.error /\ p.retries = 0) /\ (p.retries = 1 => p.error)
         /\ p.video <=> (p.status # "failed" /\ ~p.error)
<1>1. p \in PlayerRec
  BY DEF PlayerFits
<1>2. p \in [status : {p.status}, video : {p.video}, hls : {p.hls}, error : {p.error}, ready : {p.ready},
              retries : {p.retries}, timer : {p.timer}, reason : {p.reason}]
      /\ p.status \in MediaGiven.Statuses /\ p.error \in BOOLEAN /\ p.ready \in BOOLEAN
      /\ p.retries \in {0, 1} /\ p.timer \in BOOLEAN /\ p.reason \in Reasons
  BY <1>1 DEF PlayerRec
<1> QED BY <1>1, <1>2, ShownIs DEF PlayerFits, TriesOnce

LEMMA PlayerHas ==
  ASSUME NEW p, PlayerFits(p)
  PROVE  /\ p.status \in MediaGiven.Statuses /\ p.error \in BOOLEAN /\ p.ready \in BOOLEAN
         /\ p.retries \in {0, 1} /\ p.timer \in BOOLEAN /\ p.reason \in Reasons
         /\ p.video \in BOOLEAN /\ p.hls \in BOOLEAN
         /\ (p.timer => p.error /\ p.retries = 0) /\ (p.retries = 1 => p.error)
<1>1. p \in PlayerRec
  BY DEF PlayerFits
<1> QED BY <1>1, PlayerIs DEF PlayerRec

LEMMA PlayerStep == ASSUME MediaInv, Media!Player PROVE PlayerFits(v2')
<1>0. PlayerFits(v2)
  BY DEF MediaInv
<1>1. ASSUME Media!ManifestParsed PROVE PlayerFits(v2')
  <2> DEFINE r == [v2 EXCEPT !.ready = TRUE]
  <2>1. r \in [status : {v2.status}, video : {v2.video}, hls : {v2.hls}, error : {v2.error}, ready : {TRUE},
              retries : {v2.retries}, timer : {v2.timer}, reason : {v2.reason}]
    BY <1>0, PlayerIs
  <2> HIDE DEF r
  <2>2. r \in PlayerRec /\ TriesOnce(r) /\ r.status = v2.status /\ r.video = v2.video /\ r.error = v2.error /\ r.retries = v2.retries /\ r.timer = v2.timer
    <3>1. r.status = v2.status /\ r.video = v2.video /\ r.error = v2.error /\ r.retries = v2.retries /\ r.timer = v2.timer
      BY <2>1
    <3>2. r \in PlayerRec
      BY <1>0, <2>1, PlayerHas DEF PlayerRec
    <3> QED BY <1>0, <2>1, <3>1, <3>2, PlayerHas DEF TriesOnce
  <2>3. PlayerFits(r)
    BY <1>0, <2>2, ShownIs, PlayerIs DEF PlayerFits
  <2> QED BY <1>1, <2>3 DEF Media!ManifestParsed, r
<1>2. ASSUME Media!FatalError PROVE PlayerFits(v2')
  <2> DEFINE t == Media!Transient(v2)
             r == [v2 EXCEPT !.error = TRUE, !.timer = t]
  <2>0. t \in BOOLEAN
    BY DEF Media!Transient
  <2>1. r \in [status : {v2.status}, video : {v2.video}, hls : {v2.hls}, error : {TRUE}, ready : {v2.ready},
              retries : {v2.retries}, timer : {t}, reason : {v2.reason}]
    BY <1>0, PlayerIs
  <2>2. v2.retries = 0 /\ v2' = Media!Rendered(r)
    BY <1>0, <1>2, PlayerIs DEF Media!FatalError
  <2> HIDE DEF r, t
  <2>3. r \in PlayerRec /\ TriesOnce(r) /\ r.error = TRUE /\ r.retries = v2.retries
    <3>1. r.error = TRUE /\ r.retries = v2.retries
      BY <2>0, <2>1, <2>2
    <3>2. r \in PlayerRec
      BY <1>0, <2>0, <2>1, <2>2, PlayerHas DEF PlayerRec
    <3> QED BY <1>0, <2>0, <2>1, <2>2, <3>1, <3>2, PlayerHas DEF TriesOnce
  <2> QED BY <2>2, <2>3, RenderedIs
<1>3. ASSUME Media!RetryDue PROVE PlayerFits(v2')
  <2> DEFINE r == [v2 EXCEPT !.retries = v2.retries + 1, !.timer = FALSE]
  <2>1. v2.timer /\ v2.error = TRUE /\ v2.retries = 0 /\ v2.retries + 1 = 1
    BY <1>0, <1>3, PlayerIs DEF Media!RetryDue
  <2>2. r \in [status : {v2.status}, video : {v2.video}, hls : {v2.hls}, error : {v2.error}, ready : {v2.ready},
              retries : {1}, timer : {FALSE}, reason : {v2.reason}]
    BY <1>0, <2>1, PlayerIs
  <2>3. v2' = Media!Rendered(Media!Loaded(Media!Rendered(r)))
    BY <1>3 DEF Media!RetryDue
  <2> HIDE DEF r
  <2>4. r \in PlayerRec /\ TriesOnce(r) /\ r.error = v2.error /\ r.timer = FALSE
    <3>1. r.error = v2.error /\ r.timer = FALSE
      BY <2>1, <2>2
    <3>2. r \in PlayerRec
      BY <1>0, <2>1, <2>2, PlayerHas DEF PlayerRec
    <3> QED BY <1>0, <2>1, <2>2, <3>1, <3>2, PlayerHas DEF TriesOnce
  <2> DEFINE a == Media!Rendered(r)
             b == Media!Loaded(a)
  <2>5. PlayerFits(a)
    BY <2>4, RenderedIs
  <2>6. PlayerFits(b)
    BY <2>5, LoadedIs
  <2> HIDE DEF a, b
  <2>7. PlayerFits(Media!Rendered(b))
    BY <2>6, RenderedIs DEF PlayerFits
  <2> QED BY <2>3, <2>7 DEF a, b
<1>4. ASSUME NEW code, Media!Explain(code) PROVE PlayerFits(v2')
  <2> DEFINE why == CASE code = "ok" -> "none" [] code = "404" -> "diagnosed" [] OTHER -> "unreachable"
             r == [v2 EXCEPT !.reason = why]
  <2>0. why \in Reasons
    BY DEF Reasons
  <2>1. v2' = r
    BY <1>4 DEF Media!Explain
  <2> HIDE DEF why
  <2>2. r \in [status : {v2.status}, video : {v2.video}, hls : {v2.hls}, error : {v2.error}, ready : {v2.ready},
              retries : {v2.retries}, timer : {v2.timer}, reason : {why}]
    BY <1>0, PlayerIs
  <2> HIDE DEF r
  <2>3. r \in PlayerRec /\ TriesOnce(r) /\ r.status = v2.status /\ r.video = v2.video /\ r.error = v2.error /\ r.retries = v2.retries /\ r.timer = v2.timer
    <3>1. r.status = v2.status /\ r.video = v2.video /\ r.error = v2.error /\ r.retries = v2.retries /\ r.timer = v2.timer
      BY <2>0, <2>2
    <3>2. r \in PlayerRec
      BY <1>0, <2>0, <2>2, PlayerHas DEF PlayerRec
    <3> QED BY <1>0, <2>0, <2>2, <3>1, <3>2, PlayerHas DEF TriesOnce
  <2>4. PlayerFits(r)
    BY <1>0, <2>3, ShownIs, PlayerIs DEF PlayerFits
  <2> QED BY <2>1, <2>4
<1>5. ASSUME NEW s \in MediaGiven.Statuses, Media!StatusComes(s) PROVE PlayerFits(v2')
  <2> DEFINE r == [v2 EXCEPT !.status = s, !.timer = FALSE]
             a == Media!Rendered(r)
  <2>1. r \in [status : {s}, video : {v2.video}, hls : {v2.hls}, error : {v2.error}, ready : {v2.ready},
              retries : {v2.retries}, timer : {FALSE}, reason : {v2.reason}]
    BY <1>0, PlayerIs
  <2>2. v2' = IF s = "failed" THEN Media!Loaded(a) ELSE a
    BY <1>5 DEF Media!StatusComes
  <2> HIDE DEF r
  <2>3. r \in PlayerRec /\ TriesOnce(r) /\ r.error = v2.error /\ r.retries = v2.retries /\ r.timer = FALSE
    <3>1. r.error = v2.error /\ r.retries = v2.retries /\ r.timer = FALSE
      BY <2>1
    <3>2. r \in PlayerRec
      BY <1>0, <2>1, PlayerHas DEF PlayerRec
    <3> QED BY <1>0, <2>1, <3>1, <3>2, PlayerHas DEF TriesOnce
  <2>4. PlayerFits(a)
    BY <2>3, RenderedIs
  <2> HIDE DEF a
  <2>5. PlayerFits(Media!Loaded(a))
    BY <2>4, LoadedIs
  <2> QED BY <2>2, <2>4, <2>5
<1> QED BY <1>1, <1>2, <1>3, <1>4, <1>5 DEF Media!Player

LEMMA RowStep == ASSUME MediaInv, Media!Row PROVE FrameFits(v3')
<1>0. v3 \in [eip : {v3.eip}, frame : {v3.frame}, asked : {v3.asked}] /\ v3.eip \in BOOLEAN
      /\ v3.frame \in {"none", "still", "failed"} /\ v3.asked \in BOOLEAN
  BY DEF MediaInv, FrameFits
<1>1. ASSUME Media!FrameTick PROVE FrameFits(v3')
  BY <1>0, <1>1 DEF Media!FrameTick, FrameFits
<1>2. ASSUME Media!HlsBreaks PROVE FrameFits(v3')
  BY <1>0, <1>2 DEF Media!HlsBreaks, FrameFits
<1>3. ASSUME NEW ok \in BOOLEAN, Media!FrameComes(ok) PROVE FrameFits(v3')
  <2> DEFINE f == IF ok THEN "still" ELSE "failed"
  <2>1. v3' = [v3 EXCEPT !.asked = FALSE, !.frame = f] /\ f \in {"still", "failed"}
    BY <1>3 DEF Media!FrameComes
  <2> HIDE DEF f
  <2> QED BY <1>0, <2>1 DEF FrameFits
<1> QED BY <1>1, <1>2, <1>3 DEF Media!Row

(* What media-guard lets through lies below the storage root.              *)
LEMMA PairAt ==
  ASSUME NEW S, NEW q \in Seq(S), NEW i \in Nat \ {0}, i < Len(q)
  PROVE  SubSeq(q, i, i + 1) = <<q[i], q[i + 1]>>
<1> DEFINE t == SubSeq(q, i, i + 1)
           n == Len(q)
<1>1. n \in Nat /\ \A k \in 1 .. n : q[k] \in S
  OBVIOUS
<1>2. \A k \in i .. i + 1 : q[k] \in S
  <2> HIDE DEF n
  <2>1. \A k \in i .. i + 1 : k \in 1 .. n
    BY <1>1 DEF n
  <2> QED BY <1>1, <2>1
<1>3. i \in Int /\ i + 1 \in Int /\ i <= i + 1 /\ i + 1 - i + 1 = 2 /\ i + 1 - 1 = i /\ i + 2 - 1 = i + 1
  OBVIOUS
<1>4. t \in Seq(S) /\ Len(t) = 2 /\ t[1] = q[i] /\ t[2] = q[i + 1]
  BY <1>2, <1>3, SubSeqProperties
<1> HIDE DEF t
<1>5. t = <<t[1], t[2]>>
  BY <1>4
<1> QED BY <1>4, <1>5 DEF t

LEMMA StoredAt ==
  ASSUME NEW s, s.form \in {"own", "path"}, NEW S, s.path \in Seq(S), NEW i \in 1 .. 3, NEW j, j = i + 1,
         Len(s.path) > j, s.path[i] = "vst", s.path[j] = "storage"
  PROVE  StoredClip(s)
<1> DEFINE q == s.path
<1>1. q \in Seq(S) /\ i \in Nat \ {0} /\ Len(q) \in Nat /\ q[i] = "vst" /\ q[i + 1] = "storage"
  OBVIOUS
<1>2. i < Len(q) /\ Len(q) > i + 1
  <2> DEFINE n == Len(q)
  <2>1. n \in Nat /\ n > j
    OBVIOUS
  <2> HIDE DEF n
  <2>2. i < n /\ n > i + 1
    BY <2>1
  <2> QED BY <2>2 DEF n
<1> HIDE DEF q
<1>3. SubSeq(q, i, i + 1) = <<q[i], q[i + 1]>>
  BY <1>1, <1>2, PairAt
<1>4. SubSeq(q, i, i + 1) = <<"vst", "storage">>
  BY <1>1, <1>3
<1> QED BY <1>2, <1>4 DEF StoredClip, q

LEMMA BehindTwo ==
  ASSUME NEW S, NEW q \in Seq(S), Len(SubSeq(q, 3, Len(q))) > 2
  PROVE  Len(q) > 4 /\ SubSeq(q, 3, Len(q))[1] = q[3] /\ SubSeq(q, 3, Len(q))[2] = q[4]
<1> DEFINE n == Len(q)
           t == SubSeq(q, 3, n)
<1>1. n \in Nat /\ \A k \in 1 .. n : q[k] \in S
  OBVIOUS
<1> HIDE DEF n
<1>2. 3 \in Int /\ n \in Int /\ \A k \in 3 .. n : q[k] \in S
  BY <1>1
<1>3. /\ Len(t) = IF 3 <= n THEN n - 3 + 1 ELSE 0
      /\ \A k \in 1 .. n - 3 + 1 : t[k] = q[3 + k - 1]
  BY <1>2, SubSeqProperties
<1> HIDE DEF t
<1>4. n > 4
  <2>1. Len(t) > 2
    BY DEF t, n
  <2> QED BY <1>1, <1>3, <2>1
<1>5. t[1] = q[3] /\ t[2] = q[4]
  BY <1>1, <1>3, <1>4
<1> QED BY <1>4, <1>5 DEF t, n

PassesGuard(s) == Media!ResolveVstMediaPath(Media!ParseMediaSrc(s))
ParsedTo(s, path) ==
  /\ Len(path) > 2 /\ path[1] = "vst" /\ path[2] = "storage"
  /\ path = s.path \/ path = SubSeq(s.path, 3, Len(s.path))
  /\ s.form \in {"own", "path"}

KnownForm(s) == s.form \in {"own", "path", "no scheme", "foreign"}

LEMMA ParsedFrom ==
  ASSUME NEW s, KnownForm(s), PassesGuard(s)
  PROVE  \E path : ParsedTo(s, path)
<1> DEFINE path == Media!ParseMediaSrc(s)
<1>1. path # <<>> /\ Len(path) > 2 /\ path[1] = "vst" /\ path[2] = "storage"
  BY DEF PassesGuard, Media!ResolveVstMediaPath
<1>2. s.form \in {"own", "path"} /\ (path = s.path \/ path = SubSeq(s.path, 3, Len(s.path)))
  BY <1>1 DEF KnownForm, Media!ParseMediaSrc
<1> QED BY <1>1, <1>2 DEF ParsedTo

LEMMA StoredFrom ==
  ASSUME NEW s, IsList(s.path), NEW path, ParsedTo(s, path)
  PROVE  StoredClip(s)
<1> DEFINE q == s.path
           S == {q[i] : i \in DOMAIN q}
<1>4. q \in Seq(S) /\ 1 \in 1 .. 3 /\ 2 = 1 + 1 /\ 3 \in 1 .. 3 /\ 4 = 3 + 1
  BY DEF IsList
<1> HIDE DEF S
<1>5. CASE path = q
  <2>1. Len(q) > 2 /\ q[1] = "vst" /\ q[2] = "storage" /\ s.form \in {"own", "path"}
    BY <1>5 DEF ParsedTo
  <2> QED BY <1>4, <2>1, StoredAt
<1>6. CASE path = SubSeq(q, 3, Len(q))
  <2>0. Len(path) > 2 /\ path[1] = "vst" /\ path[2] = "storage" /\ s.form \in {"own", "path"}
    BY DEF ParsedTo
  <2>1. Len(q) > 4 /\ q[3] = "vst" /\ q[4] = "storage"
    <3> HIDE DEF q
    <3> QED BY <1>4, <1>6, <2>0, BehindTwo
  <2> QED BY <1>4, <2>0, <2>1, StoredAt
<1> QED BY <1>5, <1>6 DEF ParsedTo

LEMMA ParsedIsStorage ==
  ASSUME NEW s \in MediaGiven.Sources, PassesGuard(s)
  PROVE  StoredClip(s)
<1>1. KnownForm(s) /\ IsList(s.path)
  BY MediaAssumption DEF KnownForm
<1>2. PICK path : ParsedTo(s, path)
  BY <1>1, ParsedFrom
<1> QED BY <1>1, <1>2, StoredFrom

LEMMA StillIs ==
  MediaInv => /\ v4 \in [src : {v4.src}, step : {v4.step}, file : {v4.file}, age : {v4.age}, answer : {v4.answer}]
              /\ v4.step \in {"idle", "fetch", "extract"} /\ v4.file \in BOOLEAN
              /\ v4.age \in 0 .. MediaGiven.Ttl /\ (v4.step # "idle" => StoredClip(v4.src))
BY DEF MediaInv, StillFits

LEMMA StillAgain ==
  ASSUME NEW s, NEW src, NEW step \in {"idle", "fetch", "extract"}, NEW file \in BOOLEAN,
         NEW age \in 0 .. MediaGiven.Ttl, NEW answer, step # "idle" => StoredClip(src),
         s = [src |-> src, step |-> step, file |-> file, age |-> age, answer |-> answer]
  PROVE  StillFits(s)
BY DEF StillFits

LEMMA NoAge == 0 \in 0 .. MediaGiven.Ttl
<1>1. MediaGiven.Ttl \in Nat
  BY MediaAssumption
<1> QED BY <1>1

LEMMA StillStep == ASSUME MediaInv, Media!Stills PROVE StillFits(v4')
<1> DEFINE x == v4.step
<1>0. v4 \in [src : {v4.src}, step : {v4.step}, file : {v4.file}, age : {v4.age}, answer : {v4.answer}]
      /\ v4.step \in {"idle", "fetch", "extract"} /\ v4.file \in BOOLEAN
      /\ v4.age \in 0 .. MediaGiven.Ttl /\ (v4.step # "idle" => StoredClip(v4.src))
  BY StillIs
<1>1. ASSUME NEW s \in MediaGiven.Sources, NEW up, Media!Media(s, up) PROVE StillFits(v4')
  <2> DEFINE a == Media!MediaAnswer(s.path, up)
  <2>1. v4.step = "idle" /\ v4' = [v4 EXCEPT !.src = s, !.file = FALSE, !.age = 0, !.answer = a]
    BY <1>1 DEF Media!Media
  <2> HIDE DEF a
  <2>2. v4' \in [src : {s}, step : {"idle"}, file : {FALSE}, age : {0}, answer : {a}]
    BY <1>0, <2>1
  <2>3. v4' = [src |-> s, step |-> "idle", file |-> FALSE, age |-> 0, answer |-> a]
    BY <2>2
  <2> QED BY <2>3, NoAge, StillAgain
<1>2. ASSUME NEW s \in MediaGiven.Sources, Media!Thumb(s) PROVE StillFits(v4')
  <2> DEFINE path == Media!ParseMediaSrc(s)
             mine == v4.src = s /\ v4.file
             age == IF mine THEN v4.age ELSE 0
             bad == ~Media!ResolveVstMediaPath(path)
                    \/ Media!Extension(path) \notin Media!Video \union Media!Image
  <2>0. mine \in BOOLEAN /\ age \in 0 .. MediaGiven.Ttl
    BY <1>0, NoAge
  <2>1. v4.step = "idle"
        /\ \/ v4' = [v4 EXCEPT !.src = s, !.file = mine, !.age = age, !.answer = "404"]
           \/ v4' = [v4 EXCEPT !.answer = "hit"]
           \/ /\ Media!ResolveVstMediaPath(path)
              /\ v4' = [v4 EXCEPT !.src = s, !.file = mine, !.age = age, !.step = "fetch", !.answer = "none"]
    BY <1>2 DEF Media!Thumb
  <2>2. ASSUME Media!ResolveVstMediaPath(path) PROVE StoredClip(s)
    <3> HIDE DEF path
    <3>1. PassesGuard(s)
      BY <2>2 DEF path, PassesGuard
    <3> QED BY <3>1, ParsedIsStorage
  <2> HIDE DEF path, mine, age
  <2>3. ASSUME v4' = [v4 EXCEPT !.src = s, !.file = mine, !.age = age, !.answer = "404"] PROVE StillFits(v4')
    <3>1. v4' \in [src : {s}, step : {"idle"}, file : {mine}, age : {age}, answer : {"404"}]
      BY <1>0, <2>1, <2>3
    <3>2. v4' = [src |-> s, step |-> "idle", file |-> mine, age |-> age, answer |-> "404"]
      BY <3>1
    <3> QED BY <3>2, <2>0, StillAgain
  <2>4. ASSUME v4' = [v4 EXCEPT !.answer = "hit"] PROVE StillFits(v4')
    <3>1. v4' \in [src : {v4.src}, step : {v4.step}, file : {v4.file}, age : {v4.age}, answer : {"hit"}]
      BY <1>0, <2>4
    <3>2. v4' = [src |-> v4.src, step |-> v4.step, file |-> v4.file, age |-> v4.age, answer |-> "hit"]
      BY <3>1
    <3> QED BY <3>2, <1>0, StillAgain
  <2>5. ASSUME Media!ResolveVstMediaPath(path),
               v4' = [v4 EXCEPT !.src = s, !.file = mine, !.age = age, !.step = "fetch", !.answer = "none"]
        PROVE  StillFits(v4')
    <3> DEFINE y == [v4 EXCEPT !.src = s, !.file = mine, !.age = age]
    <3>1. y \in [src : {s}, step : {v4.step}, file : {mine}, age : {age}, answer : {v4.answer}]
      BY <1>0
    <3>2. v4' = [y EXCEPT !.step = "fetch", !.answer = "none"]
      BY <2>5
    <3> HIDE DEF y
    <3>3. v4' \in [src : {s}, step : {"fetch"}, file : {mine}, age : {age}, answer : {"none"}]
      BY <3>1, <3>2
    <3>4. v4' = [src |-> s, step |-> "fetch", file |-> mine, age |-> age, answer |-> "none"]
      BY <3>3
    <3> QED BY <3>4, <2>0, <2>2, <2>5, StillAgain
  <2> QED BY <2>1, <2>3, <2>4, <2>5
<1>3. ASSUME NEW ok, Media!Fetched(ok) \/ Media!Extracted(ok) PROVE StillFits(v4')
  <2>1. v4.step # "idle"
        /\ \/ v4' = [v4 EXCEPT !.step = "idle", !.answer = "placeholder"]
           \/ v4' = [v4 EXCEPT !.step = "idle", !.file = TRUE, !.age = 0, !.answer = "miss"]
           \/ v4' = [v4 EXCEPT !.step = "extract"]
    BY <1>3 DEF Media!Fetched, Media!Extracted
  <2>2. ASSUME v4' = [v4 EXCEPT !.step = "idle", !.answer = "placeholder"] PROVE StillFits(v4')
    <3>1. v4' \in [src : {v4.src}, step : {"idle"}, file : {v4.file}, age : {v4.age}, answer : {"placeholder"}]
      BY <1>0, <2>2
    <3>2. v4' = [src |-> v4.src, step |-> "idle", file |-> v4.file, age |-> v4.age, answer |-> "placeholder"]
      BY <3>1
    <3> QED BY <3>2, <1>0, StillAgain
  <2>3. ASSUME v4' = [v4 EXCEPT !.step = "idle", !.file = TRUE, !.age = 0, !.answer = "miss"] PROVE StillFits(v4')
    <3>1. v4' \in [src : {v4.src}, step : {"idle"}, file : {TRUE}, age : {0}, answer : {"miss"}]
      BY <1>0, <2>3
    <3>2. v4' = [src |-> v4.src, step |-> "idle", file |-> TRUE, age |-> 0, answer |-> "miss"]
      BY <3>1
    <3> QED BY <3>2, NoAge, StillAgain
  <2>4. ASSUME v4' = [v4 EXCEPT !.step = "extract"] PROVE StillFits(v4')
    <3>1. v4' \in [src : {v4.src}, step : {"extract"}, file : {v4.file}, age : {v4.age}, answer : {v4.answer}]
      BY <1>0, <2>4
    <3>2. v4' = [src |-> v4.src, step |-> "extract", file |-> v4.file, age |-> v4.age, answer |-> v4.answer]
      BY <3>1
    <3> QED BY <3>2, <1>0, <2>1, StillAgain
  <2> QED BY <2>1, <2>2, <2>3, <2>4
<1>4. ASSUME Media!StillAges PROVE StillFits(v4')
  <2>1. v4.age < MediaGiven.Ttl /\ v4' = [v4 EXCEPT !.age = v4.age + 1, !.answer = "none"]
    BY <1>4 DEF Media!StillAges
  <2>2. v4.age + 1 \in 0 .. MediaGiven.Ttl
    <3>1. MediaGiven.Ttl \in Nat /\ v4.age \in 0 .. MediaGiven.Ttl
      BY <1>0, MediaAssumption
    <3> QED BY <2>1, <3>1
  <2> DEFINE n == v4.age + 1
  <2>3. n \in 0 .. MediaGiven.Ttl /\ v4' = [v4 EXCEPT !.age = n, !.answer = "none"]
    BY <2>1, <2>2
  <2> HIDE DEF n
  <2>4. v4' \in [src : {v4.src}, step : {v4.step}, file : {v4.file}, age : {n}, answer : {"none"}]
    BY <1>0, <2>3
  <2>5. v4' = [src |-> v4.src, step |-> v4.step, file |-> v4.file, age |-> n, answer |-> "none"]
    BY <2>4
  <2> QED BY <2>5, <2>3, <1>0, StillAgain
<1> QED BY <1>1, <1>2, <1>3, <1>4 DEF Media!Stills

LEMMA LastIn ==
  ASSUME NEW S, NEW q \in Seq(S), q # <<>>
  PROVE  Len(q) \in DOMAIN q /\ q[Len(q)] \in S
<1> DEFINE n == Len(q)
<1>1. n \in Nat /\ DOMAIN q = 1 .. n /\ n # 0 /\ \A k \in 1 .. n : q[k] \in S
  OBVIOUS
<1> HIDE DEF n
<1>2. n \in 1 .. n
  BY <1>1
<1> QED BY <1>1, <1>2 DEF n

(* The window that is read back.                                           *)
LEMMA ProbeStep == ASSUME Media!Probes PROVE ProbeFits'
<1>1. ASSUME Media!TimelinesRefused PROVE ProbeFits'
  BY <1>1 DEF Media!TimelinesRefused, ProbeFits, Media!ProbesALiveStream
<1>2. ASSUME NEW tl \in MediaGiven.Timelines, NEW reg \in SUBSET {"s1", "s2"}, NEW code, Media!Probe(tl, reg, code)
      PROVE  ProbeFits'
  <2>0. Media!ClassifyPlayback(code) \in {"ok", "warn", "error"}
    BY DEF Media!ClassifyPlayback
  <2>1. CASE v5' = [timelines |-> tl, registered |-> reg, window |-> Media!NoWindow, verdict |-> "warn"]
    BY <2>1 DEF ProbeFits, Media!ProbesALiveStream
  <2>2. ASSUME NEW w \in Media!PlaybackWindows(tl, reg),
               v5' = [timelines |-> tl, registered |-> reg, window |-> w,
                      verdict |-> Media!ClassifyPlayback(code)]
        PROVE  ProbeFits'
    <3>1. PICK c \in Media!RecentEnough(tl, reg) :
            w = [stream |-> c.stream, start |-> c.seg.stop - 2, stop |-> c.seg.stop - 1]
      BY DEF Media!PlaybackWindows
    <3>2. /\ c.stream \in DOMAIN tl /\ tl[c.stream] # <<>> /\ c.seg = tl[c.stream][Len(tl[c.stream])]
          /\ reg # {} => c.stream \in reg
          /\ MediaGiven.ProbedAt - c.seg.stop <= 10 /\ c.seg.stop - c.seg.start >= 2
      BY DEF Media!RecentEnough, Media!LastSegments
    <3> DEFINE s == tl[c.stream]
               n == Len(s)
    <3>3. s \in Seq([start : Int, stop : Int]) /\ MediaGiven.ProbedAt \in Int
      BY <3>2, MediaAssumption
    <3>4. n \in DOMAIN s /\ s[n] \in [start : Int, stop : Int]
      <4>1. s # <<>>
        BY <3>2
      <4> HIDE DEF s
      <4> QED BY <3>3, <4>1, LastIn
    <3>5. c.seg = s[n]
      BY <3>2
    <3> HIDE DEF s, n
    <3>6. c.seg.start \in Int /\ c.seg.stop \in Int
      BY <3>4, <3>5
    <3>7. /\ s[n].start <= c.seg.stop - 2 /\ c.seg.stop - 1 < s[n].stop
          /\ MediaGiven.ProbedAt - (c.seg.stop - 1) <= 11
      <4> DEFINE at == c.seg.stop
                 from == c.seg.start
                 now == MediaGiven.ProbedAt
      <4>1. at \in Int /\ from \in Int /\ now \in Int /\ now - at <= 10 /\ at - from >= 2
        BY <3>2, <3>3, <3>6
      <4>2. s[n].start = from /\ s[n].stop = at
        BY <3>5
      <4> HIDE DEF at, from, now
      <4>3. from <= at - 2 /\ at - 1 < at /\ now - (at - 1) <= 11
        BY <4>1
      <4> QED BY <4>2, <4>3 DEF at, now
    <3>8. w.stream = c.stream /\ w.start = c.seg.stop - 2 /\ w.stop = c.seg.stop - 1
      BY <3>1
    <3>9. v5'.window = w /\ v5'.timelines[w.stream] = s /\ v5'.registered = reg
      BY <2>2, <3>8 DEF s
    <3>a. (Media!ProbesALiveStream)'
      BY <3>2, <3>4, <3>7, <3>8, <3>9 DEF Media!ProbesALiveStream
    <3> QED BY <2>0, <2>2, <3>a DEF ProbeFits
  <2> QED BY <1>2, <2>1, <2>2 DEF Media!Probe
<1> QED BY <1>1, <1>2 DEF Media!Probes

LEMMA MediaStart == Media!Init => MediaInv
<1> SUFFICES ASSUME Media!Init PROVE MediaInv
  OBVIOUS
<1>1. PlayerFits(v2)
  <2>1. PICK s \in MediaGiven.Statuses : v2 = Media!NewPlayer(s)
    BY DEF Media!Init
  <2> DEFINE p == [status |-> s, video |-> FALSE, hls |-> FALSE, error |-> FALSE,
                   ready |-> FALSE, retries |-> 0, timer |-> FALSE, reason |-> "none"]
             a == Media!Rendered(p)
  <2>2. p \in PlayerRec /\ TriesOnce(p)
    BY DEF PlayerRec, Reasons, TriesOnce
  <2>3. v2 = Media!Loaded(a)
    BY <2>1 DEF Media!NewPlayer
  <2> HIDE DEF p
  <2>4. PlayerFits(a)
    BY <2>2, RenderedIs
  <2> HIDE DEF a
  <2> QED BY <2>3, <2>4, LoadedIs
<1>2. FrameFits(v3)
  BY DEF Media!Init, FrameFits
<1>3. StillFits(v4)
  BY NoAge, StillAgain DEF Media!Init
<1>4. ProbeFits
  BY DEF Media!Init, ProbeFits, Media!ProbesALiveStream
<1> QED BY <1>1, <1>2, <1>3, <1>4 DEF MediaInv

LEMMA MediaStep == ASSUME MediaInv, [Media!Next]_(Media!vars) PROVE MediaInv'
<1>1. CASE UNCHANGED Media!vars
  <2>1. v2' = v2 /\ v3' = v3 /\ v4' = v4 /\ v5' = v5
    BY <1>1 DEF Media!vars
  <2>2. ProbeFits'
    BY <2>1 DEF MediaInv, ProbeFits, Media!ProbesALiveStream
  <2> QED BY <2>1, <2>2 DEF MediaInv
<1>2. CASE Media!Next
  <2>0. PlayerFits(v2) /\ FrameFits(v3) /\ StillFits(v4) /\ ProbeFits
    BY DEF MediaInv
  <2>1. CASE Media!Player
    <3>1. v3' = v3 /\ v4' = v4 /\ v5' = v5
      BY <2>1 DEF Media!Player, Media!ManifestParsed, Media!FatalError, Media!RetryDue, Media!Explain,
                 Media!StatusComes
    <3>2. ProbeFits'
      BY <2>0, <3>1 DEF ProbeFits, Media!ProbesALiveStream
    <3> QED BY <2>0, <2>1, <3>1, <3>2, PlayerStep DEF MediaInv
  <2>2. CASE Media!Row
    <3>1. v2' = v2 /\ v4' = v4 /\ v5' = v5
      BY <2>2 DEF Media!Row, Media!FrameTick, Media!FrameComes, Media!HlsBreaks
    <3>2. ProbeFits'
      BY <2>0, <3>1 DEF ProbeFits, Media!ProbesALiveStream
    <3> QED BY <2>0, <2>2, <3>1, <3>2, RowStep DEF MediaInv
  <2>3. CASE Media!Stills
    <3>1. v2' = v2 /\ v3' = v3 /\ v5' = v5
      BY <2>3 DEF Media!Stills, Media!Thumb, Media!Media, Media!StillAges, Media!Fetched, Media!Extracted
    <3>2. ProbeFits'
      BY <2>0, <3>1 DEF ProbeFits, Media!ProbesALiveStream
    <3> QED BY <2>0, <2>3, <3>1, <3>2, StillStep DEF MediaInv
  <2>4. CASE Media!Probes
    <3>1. v2' = v2 /\ v3' = v3 /\ v4' = v4
      BY <2>4 DEF Media!Probes, Media!Probe, Media!TimelinesRefused
    <3> QED BY <2>0, <2>4, <3>1, ProbeStep DEF MediaInv
  <2> QED BY <1>2, <2>1, <2>2, <2>3, <2>4 DEF Media!Next
<1> QED BY <1>1, <1>2

--------------------------------------------------------------------------------
(* The cache of clips (clip-cache.ts, serve-clip.ts, vst-clip.ts and the   *)
(* routes): v1 what VST lists, v2 the directories, v3 the requests under   *)
(* way, v4 the answer, v5 the eviction and the counts.                     *)
ClipAges  == 0 .. FootageGiven.Ttl
ClipTodos == Seq(FootageGiven.Clips)
DirRec == [there : BOOLEAN, list : {"none", "part", "whole"}, age : ClipAges,
           thumb : BOOLEAN, thumbAge : ClipAges]
JobRec == [kind : {"none", "serve", "warm", "thumb"}, todo : ClipTodos,
           step : {"idle", "resolve", "transcode", "still"}, disturbed : BOOLEAN]
DirFits(e) == e \in DirRec /\ (e.list # "none" \/ e.thumb => e.there)
JobFits(q) == q \in JobRec /\ (q.step # "idle" => q.todo # <<>>)

DirsFit(cache) == cache = [c \in FootageGiven.Clips |-> cache[c]] /\ \A c \in FootageGiven.Clips : DirFits(cache[c])
JobsFit(jobs)  == jobs = [j \in FootageGiven.Jobs |-> jobs[j]] /\ \A j \in FootageGiven.Jobs : JobFits(jobs[j])
Mishaps == 0 .. FootageGiven.MaxMishaps + 1
RestFits(r) == r \in [due : BOOLEAN, mishaps : Mishaps, requests : {r.requests}]

(* What writes a playlist in part is there, or something went wrong.       *)
Writer(jobs, c) ==
  \E j \in FootageGiven.Jobs : jobs[j].step = "transcode" /\ Head(jobs[j].todo) = c
HalvesKept(cache, jobs, n) ==
  \A c \in FootageGiven.Clips : cache[c].list = "part" => Writer(jobs, c) \/ n > 0

FootageInv ==
  /\ v1 \in FootageGiven.VstLists /\ DirsFit(v2) /\ JobsFit(v3) /\ RestFits(v5)
  /\ Footage!ServedIsFresh
  /\ HalvesKept(v2, v3, v5.mishaps)

LEMMA ClipBounds ==
  /\ FootageGiven.Ttl \in Nat /\ FootageGiven.MaxMishaps \in Nat
  /\ 0 \in ClipAges /\ 0 \in Mishaps /\ FootageGiven.MaxMishaps + 1 \in Mishaps
  /\ FootageGiven.MaxMishaps + 1 > 0
  /\ \A a \in ClipAges : a < FootageGiven.Ttl => a + 1 \in ClipAges
  /\ \A m \in Mishaps : m < FootageGiven.MaxMishaps => m + 1 \in Mishaps /\ m + 1 > 0
<1>1. FootageGiven.Ttl \in Nat /\ FootageGiven.MaxMishaps \in Nat
  BY FootageAssumption
<1> QED BY <1>1 DEF ClipAges, Mishaps

LEMMA TodoHas ==
  ASSUME NEW t \in ClipTodos, t # <<>>
  PROVE  Head(t) \in FootageGiven.Clips /\ Tail(t) \in ClipTodos /\ (Len(t) > 1 => Tail(t) # <<>>)
<1> DEFINE C == FootageGiven.Clips
<1>0. t \in Seq(C) /\ t # <<>>
  BY DEF ClipTodos
<1> HIDE DEF C
<1>1. Head(t) \in C /\ Tail(t) \in Seq(C) /\ Len(Tail(t)) = Len(t) - 1 /\ Len(t) \in Nat
  BY <1>0, HeadTailProperties
<1>2. ASSUME Len(t) > 1 PROVE Tail(t) # <<>>
  <2>1. Len(<<>>) = 0
    BY EmptySeq
  <2>2. Len(Tail(t)) # 0
    BY <1>1, <1>2
  <2> QED BY <2>1, <2>2
<1> QED BY <1>1, <1>2 DEF C, ClipTodos

(* One clip, or an order of them, to fetch.                                *)
LEMMA TodoOfOne == ASSUME NEW c \in FootageGiven.Clips PROVE <<c>> \in ClipTodos /\ <<c>> # <<>>
<1>1. <<c>> \in Seq(FootageGiven.Clips)
  <2> DEFINE C == FootageGiven.Clips
  <2> HIDE DEF C
  <2>1. c \in C
    BY DEF C
  <2>2. <<c>> \in Seq(C)
    BY <2>1
  <2> QED BY <2>2 DEF C
<1>2. Len(<<c>>) = 1
  OBVIOUS
<1>3. Len(<<>>) = 0
  BY EmptySeq
<1>4. <<c>> # <<>>
  BY <1>2, <1>3
<1> QED BY <1>1, <1>4 DEF ClipTodos

LEMMA FootageCounts == \A S : Footage!Cardinality(S) = Cardinality(S)
BY DEF Footage!Cardinality, Cardinality

LEMMA TodoOfMany ==
  ASSUME NEW t \in Footage!SetToSeqs(FootageGiven.Clips)
  PROVE  t \in ClipTodos /\ t # <<>>
<1> DEFINE C == FootageGiven.Clips
           n == Cardinality(C)
<1>1. n \in Nat /\ n # 0
  BY FootageAssumption, FS_EmptySet, FS_CardinalityType
<1>2. t \in [1 .. n -> C]
  BY FootageCounts DEF Footage!SetToSeqs
<1> HIDE DEF n, C
<1>3. t \in Seq(C) /\ Len(t) = n
  BY <1>1, <1>2
<1> QED BY <1>1, <1>3 DEF C, ClipTodos

(* A directory that is written, a request that goes on.                    *)
LEMMA DirIs ==
  ASSUME NEW e, DirFits(e)
  PROVE  /\ e \in [there : {e.there}, list : {e.list}, age : {e.age}, thumb : {e.thumb}, thumbAge : {e.thumbAge}]
         /\ e.there \in BOOLEAN /\ e.list \in {"none", "part", "whole"} /\ e.age \in ClipAges
         /\ e.thumb \in BOOLEAN /\ e.thumbAge \in ClipAges /\ (e.list # "none" \/ e.thumb => e.there)
BY DEF DirFits, DirRec

LEMMA DirMade ==
  ASSUME NEW e, NEW there \in BOOLEAN, NEW list \in {"none", "part", "whole"}, NEW age \in ClipAges,
         NEW thumb \in BOOLEAN, NEW thumbAge \in ClipAges, list # "none" \/ thumb => there,
         e = [there |-> there, list |-> list, age |-> age, thumb |-> thumb, thumbAge |-> thumbAge]
  PROVE  DirFits(e)
BY DEF DirFits, DirRec

LEMMA JobIs ==
  ASSUME NEW q, JobFits(q)
  PROVE  /\ q \in [kind : {q.kind}, todo : {q.todo}, step : {q.step}, disturbed : {q.disturbed}]
         /\ q.kind \in {"none", "serve", "warm", "thumb"} /\ q.todo \in ClipTodos
         /\ q.step \in {"idle", "resolve", "transcode", "still"} /\ q.disturbed \in BOOLEAN
         /\ (q.step # "idle" => q.todo # <<>> /\ Head(q.todo) \in FootageGiven.Clips)
<1>1. /\ q \in [kind : {q.kind}, todo : {q.todo}, step : {q.step}, disturbed : {q.disturbed}]
      /\ q.kind \in {"none", "serve", "warm", "thumb"} /\ q.todo \in ClipTodos
      /\ q.step \in {"idle", "resolve", "transcode", "still"} /\ q.disturbed \in BOOLEAN
      /\ (q.step # "idle" => q.todo # <<>>)
  BY DEF JobFits, JobRec
<1>2. q.step # "idle" => Head(q.todo) \in FootageGiven.Clips
  BY <1>1, TodoHas
<1> QED BY <1>1, <1>2

LEMMA JobMade ==
  ASSUME NEW q, NEW kind \in {"none", "serve", "warm", "thumb"}, NEW todo \in ClipTodos,
         NEW step \in {"idle", "resolve", "transcode", "still"}, NEW disturbed \in BOOLEAN,
         step # "idle" => todo # <<>>,
         q = [kind |-> kind, todo |-> todo, step |-> step, disturbed |-> disturbed]
  PROVE  JobFits(q)
BY DEF JobFits, JobRec

LEMMA ClipAskedFits ==
  ASSUME NEW kind \in {"none", "serve", "warm", "thumb"}, NEW todo \in ClipTodos, todo # <<>>
  PROVE  JobFits(Footage!Asked(kind, todo)) /\ Footage!Asked(kind, todo).step = "resolve"
<1>1. Footage!Asked(kind, todo) = [kind |-> kind, todo |-> todo, step |-> "resolve", disturbed |-> FALSE]
  BY DEF Footage!Asked
<1> DEFINE q == Footage!Asked(kind, todo)
<1> HIDE DEF q
<1>2. q = [kind |-> kind, todo |-> todo, step |-> "resolve", disturbed |-> FALSE]
  BY <1>1 DEF q
<1>3. q.step = "resolve" /\ q.todo = todo
  BY <1>2
<1>4. q \in JobRec
  BY <1>2 DEF JobRec
<1> QED BY <1>3, <1>4 DEF q, JobFits

LEMMA IdleFits == JobFits(Footage!Idle)
<1>1. <<>> \in ClipTodos
  BY EmptySeq DEF ClipTodos
<1>2. Footage!Idle = [kind |-> "none", todo |-> <<>>, step |-> "idle", disturbed |-> FALSE]
  BY DEF Footage!Idle
<1> QED BY <1>1, <1>2, JobMade

LEMMA NoDirFits == DirFits(Footage!NoDir)
<1>1. Footage!NoDir = [there |-> FALSE, list |-> "none", age |-> 0, thumb |-> FALSE, thumbAge |-> 0]
  BY DEF Footage!NoDir
<1> QED BY <1>1, ClipBounds, DirMade

(* The request goes on to its next clip, or ends.                          *)
LEMMA NextFits ==
  ASSUME JobsFit(v3), NEW j \in FootageGiven.Jobs, v3[j].step # "idle"
  PROVE  /\ JobsFit(Footage!NextOf(j)) /\ Footage!NextOf(j)[j].step \in {"resolve", "idle"}
         /\ \A k \in FootageGiven.Jobs : k # j => Footage!NextOf(j)[k] = v3[k]
<1> DEFINE q == v3[j]
           w == Footage!NextOf(j)
<1>0. JobFits(q)
  BY DEF JobsFit
<1>1. CASE q.kind = "warm" /\ Len(q.todo) > 1
  <2> DEFINE t == Tail(q.todo)
             r == Footage!Asked("warm", t)
  <2>1. t \in ClipTodos /\ t # <<>>
    BY <1>0, <1>1, JobIs, TodoHas
  <2>2. w = [v3 EXCEPT ![j] = r]
    BY <1>1 DEF Footage!NextOf
  <2> HIDE DEF q, w
  <2>3. JobFits(r) /\ r.step = "resolve"
    BY <2>1, ClipAskedFits
  <2> HIDE DEF t, r
  <2>4. JobsFit(w) /\ w[j] = r /\ \A k \in FootageGiven.Jobs : k # j => w[k] = v3[k]
    BY <2>2, <2>3 DEF JobsFit
  <2> QED BY <2>3, <2>4 DEF w
<1>2. CASE ~(q.kind = "warm" /\ Len(q.todo) > 1)
  <2>1. w = [v3 EXCEPT ![j] = Footage!Idle]
    BY <1>2 DEF Footage!NextOf
  <2>2. Footage!Idle.step = "idle"
    BY DEF Footage!Idle
  <2> HIDE DEF w
  <2>3. JobsFit(w) /\ w[j] = Footage!Idle /\ \A k \in FootageGiven.Jobs : k # j => w[k] = v3[k]
    BY <2>1, IdleFits DEF JobsFit
  <2> QED BY <2>2, <2>3 DEF w
<1> QED BY <1>1, <1>2

(* A written playlist, a playlist or a thumbnail that grows older.         *)
LEMMA ListWritten ==
  ASSUME NEW e, DirFits(e), e.there, NEW l \in {"part", "whole"}, NEW w,
         w = [e EXCEPT !.list = l, !.age = 0]
  PROVE  DirFits(w) /\ w.list = l /\ w.there
<1>1. w \in [there : {e.there}, list : {l}, age : {0}, thumb : {e.thumb}, thumbAge : {e.thumbAge}]
  BY DirIs
<1>2. w = [there |-> e.there, list |-> l, age |-> 0, thumb |-> e.thumb, thumbAge |-> e.thumbAge]
  BY <1>1
<1>3. w.list = l /\ w.there = e.there /\ l \in {"none", "part", "whole"}
  BY <1>2
<1> QED BY <1>2, <1>3, DirIs, DirMade, ClipBounds

LEMMA ThumbMade ==
  ASSUME NEW e, DirFits(e), e.there, NEW w, w = [e EXCEPT !.thumb = TRUE, !.thumbAge = 0]
  PROVE  DirFits(w) /\ w.list = e.list
<1>1. w \in [there : {e.there}, list : {e.list}, age : {e.age}, thumb : {TRUE}, thumbAge : {0}]
  BY DirIs
<1>2. w = [there |-> e.there, list |-> e.list, age |-> e.age, thumb |-> TRUE, thumbAge |-> 0]
  BY <1>1
<1>3. w.list = e.list
  BY <1>2
<1> QED BY <1>2, <1>3, DirIs, DirMade, ClipBounds

LEMMA DirOpened ==
  ASSUME NEW e, DirFits(e), NEW w, w = [e EXCEPT !.there = TRUE]
  PROVE  DirFits(w) /\ w.list = e.list
<1>1. w \in [there : {TRUE}, list : {e.list}, age : {e.age}, thumb : {e.thumb}, thumbAge : {e.thumbAge}]
  BY DirIs
<1>2. w = [there |-> TRUE, list |-> e.list, age |-> e.age, thumb |-> e.thumb, thumbAge |-> e.thumbAge]
  BY <1>1
<1>3. w.list = e.list
  BY <1>2
<1> QED BY <1>2, <1>3, DirIs, DirMade

LEMMA OlderFits ==
  ASSUME NEW e, DirFits(e)
  PROVE  DirFits(Footage!Older(e)) /\ Footage!Older(e).list = e.list
<1> DEFINE a == IF e.list # "none" /\ e.age < FootageGiven.Ttl THEN e.age + 1 ELSE e.age
           b == IF e.thumb /\ e.thumbAge < FootageGiven.Ttl THEN e.thumbAge + 1 ELSE e.thumbAge
           w == [e EXCEPT !.age = a, !.thumbAge = b]
<1>1. Footage!Older(e) = w
  BY DEF Footage!Older
<1>2. a \in ClipAges /\ b \in ClipAges
  BY ClipBounds, DirIs
<1> HIDE DEF a, b
<1>a. e \in [there : {e.there}, list : {e.list}, age : {e.age}, thumb : {e.thumb}, thumbAge : {e.thumbAge}]
  BY DirIs
<1>3. w \in [there : {e.there}, list : {e.list}, age : {a}, thumb : {e.thumb}, thumbAge : {b}]
  BY <1>a
<1> HIDE DEF w
<1>4. w = [there |-> e.there, list |-> e.list, age |-> a, thumb |-> e.thumb, thumbAge |-> b]
  BY <1>3
<1>5. w.list = e.list
  BY <1>4
<1> QED BY <1>1, <1>2, <1>4, <1>5, DirIs, DirMade

(* How the eviction and the mishaps are noted.                             *)
LEMMA RestNoted ==
  ASSUME NEW w, NEW due \in BOOLEAN, NEW n \in Mishaps,
         w \in [due : {due}, mishaps : {n}, requests : {w.requests}]
  PROVE  RestFits(w) /\ w.mishaps = n /\ w.due = due
BY DEF RestFits

LEMMA RestIs ==
  ASSUME NEW r, RestFits(r)
  PROVE  /\ r \in [due : {r.due}, mishaps : {r.mishaps}, requests : {r.requests}]
         /\ r.due \in BOOLEAN /\ r.mishaps \in Mishaps
BY DEF RestFits

LEMMA WritersStay ==
  ASSUME NEW jobs, NEW more,
         \A j \in FootageGiven.Jobs : jobs[j].step = "transcode" =>
           more[j].step = "transcode" /\ more[j].todo = jobs[j].todo
  PROVE  \A c : Writer(jobs, c) => Writer(more, c)
BY DEF Writer

LEMMA HalvesStay ==
  ASSUME NEW cache, NEW jobs, NEW n, HalvesKept(cache, jobs, n), NEW later, NEW more, NEW m,
         \A c \in FootageGiven.Clips : later[c].list = "part" => cache[c].list = "part",
         \A c : Writer(jobs, c) => Writer(more, c),
         n > 0 => m > 0
  PROVE  HalvesKept(later, more, m)
BY DEF HalvesKept

(* Whatever answers, time goes by and a request begins.                    *)
LEMMA HitStep ==
  ASSUME FootageInv, NEW c \in FootageGiven.Clips,
         Footage!PlaylistHit(c) \/ Footage!Segment(c) \/ Footage!ThumbHit(c)
  PROVE  FootageInv'
<1>1. v1' = v1 /\ v2' = v2 /\ v3' = v3 /\ v5' = v5
  BY DEF Footage!PlaylistHit, Footage!Segment, Footage!ThumbHit
<1>2. v4'.age < FootageGiven.Ttl
  BY DEF Footage!PlaylistHit, Footage!Segment, Footage!ThumbHit, Footage!ListFresh, Footage!ThumbFresh,
         Footage!Answers
<1> QED BY <1>1, <1>2 DEF FootageInv, Footage!ServedIsFresh

LEMMA NothingServed ==
  ASSUME v4' = Footage!NoAnswer PROVE (Footage!ServedIsFresh)'
BY DEF Footage!NoAnswer, Footage!ServedIsFresh

LEMMA ClipsAge == ASSUME FootageInv, Footage!Tick PROVE FootageInv'
<1>1. v1' = v1 /\ v3' = v3 /\ v5' = v5 /\ v4' = Footage!NoAnswer
      /\ v2' = [c \in FootageGiven.Clips |-> Footage!Older(v2[c])]
  BY DEF Footage!Tick
<1>2. \A c \in FootageGiven.Clips : DirFits(v2'[c]) /\ v2'[c].list = v2[c].list
  BY <1>1, OlderFits DEF FootageInv, DirsFit
<1>3. DirsFit(v2')
  BY <1>1, <1>2 DEF DirsFit
<1>4. HalvesKept(v2', v3, v5.mishaps)
  BY <1>2 DEF FootageInv, HalvesKept
<1> QED BY <1>1, <1>3, <1>4, NothingServed DEF FootageInv

LEMMA ClipAskedStep ==
  ASSUME FootageInv, NEW j \in FootageGiven.Jobs, NEW kind \in {"serve", "warm", "thumb"},
         NEW clips \in ClipTodos, clips # <<>>, Footage!Begin(j, kind, clips)
  PROVE  FootageInv'
<1> DEFINE q == Footage!Asked(kind, clips)
<1>1. v1' = v1 /\ v2' = v2 /\ v4' = Footage!NoAnswer /\ v3[j].step = "idle"
      /\ v3' = [v3 EXCEPT ![j] = q] /\ v5' = [v5 EXCEPT !.requests = v5.requests + 1]
  BY DEF Footage!Begin
<1>2. JobFits(q)
  BY ClipAskedFits
<1> HIDE DEF q
<1>3. JobsFit(v3') /\ \A k \in FootageGiven.Jobs : k # j => v3'[k] = v3[k]
  BY <1>1, <1>2 DEF FootageInv, JobsFit
<1>4. RestFits(v5') /\ v5'.mishaps = v5.mishaps
  <2>1. RestFits(v5)
    BY DEF FootageInv
  <2> DEFINE n == v5.requests + 1
  <2> HIDE DEF n
  <2>2. v5' \in [due : {v5.due}, mishaps : {v5.mishaps}, requests : {n}]
    BY <1>1, <2>1, RestIs DEF n
  <2>3. v5'.requests = n
    BY <2>2
  <2> QED BY <2>1, <2>2, <2>3, RestIs, RestNoted
<1>5. \A c : Writer(v3, c) => Writer(v3', c)
  <2> DEFINE more == v3'
  <2>1. \A k \in FootageGiven.Jobs : v3[k].step = "transcode" =>
           more[k].step = "transcode" /\ more[k].todo = v3[k].todo
    BY <1>1, <1>3
  <2> HIDE DEF more
  <2>2. \A c : Writer(v3, c) => Writer(more, c)
    BY <2>1, WritersStay
  <2> QED BY <2>2 DEF more
<1>6. HalvesKept(v2, v3', v5.mishaps)
  BY <1>5 DEF FootageInv, HalvesKept
<1> QED BY <1>1, <1>3, <1>4, <1>6, NothingServed DEF FootageInv

(* A request of which the present clip is known.                           *)
LEMMA ClipKnown ==
  ASSUME FootageInv, NEW j \in FootageGiven.Jobs, v3[j].step # "idle"
  PROVE  /\ Footage!Clip(j) \in FootageGiven.Clips /\ Footage!Clip(j) = Head(v3[j].todo)
         /\ JobFits(v3[j]) /\ DirFits(v2[Footage!Clip(j)])
<1>1. JobFits(v3[j])
  BY DEF FootageInv, JobsFit
<1>2. Head(v3[j].todo) \in FootageGiven.Clips
  BY <1>1, JobIs
<1> QED BY <1>1, <1>2 DEF Footage!Clip, FootageInv, DirsFit

(* The step of a request alone.                                            *)
StepTo(q, step, disturbed) == [kind |-> q.kind, todo |-> q.todo, step |-> step, disturbed |-> disturbed]
LEMMA StepFits ==
  ASSUME NEW q, JobFits(q), q.step # "idle", NEW step \in {"resolve", "transcode", "still"},
         NEW b \in BOOLEAN
  PROVE  /\ JobFits(StepTo(q, step, b)) /\ StepTo(q, step, b).step = step
         /\ StepTo(q, step, b).todo = q.todo
<1> DEFINE w == StepTo(q, step, b)
<1>1. w = [kind |-> q.kind, todo |-> q.todo, step |-> step, disturbed |-> b]
  BY DEF StepTo
<1>2. q.kind \in {"none", "serve", "warm", "thumb"} /\ q.todo \in ClipTodos /\ q.todo # <<>>
      /\ step \in {"idle", "resolve", "transcode", "still"}
  BY JobIs
<1> HIDE DEF w
<1>3. w \in JobRec /\ w.step = step /\ w.todo = q.todo
  BY <1>1, <1>2 DEF JobRec
<1> QED BY <1>2, <1>3 DEF JobFits, w

LEMMA JobsSet ==
  ASSUME FootageInv, NEW j \in FootageGiven.Jobs, v3[j].step # "idle",
         v3' = [v3 EXCEPT ![j].step = "still"]
  PROVE  /\ JobsFit(v3') /\ \A k \in FootageGiven.Jobs : k # j => v3'[k] = v3[k]
         /\ v3'[j].step = "still"
<1> DEFINE q == v3[j]
           r == [q EXCEPT !.step = "still"]
           w == v3'
           x == q.disturbed
<1>0. JobFits(q) /\ JobsFit(v3)
  BY DEF FootageInv, JobsFit
<1>1. w = [v3 EXCEPT ![j] = r]
  OBVIOUS
<1>2. q \in [kind : {q.kind}, todo : {q.todo}, step : {q.step}, disturbed : {q.disturbed}]
      /\ x \in BOOLEAN /\ q.step # "idle"
  BY <1>0, JobIs
<1>3. r \in [kind : {q.kind}, todo : {q.todo}, step : {"still"}, disturbed : {x}]
  BY <1>2
<1> HIDE DEF q, r, w, x
<1>4. r = [kind |-> q.kind, todo |-> q.todo, step |-> "still", disturbed |-> x]
  BY <1>3
<1>5. JobFits(r) /\ r.step = "still"
  <2>1. r = StepTo(q, "still", x)
    BY <1>4 DEF StepTo
  <2>2. "still" \in {"resolve", "transcode", "still"}
    OBVIOUS
  <2>3. JobFits(StepTo(q, "still", x)) /\ StepTo(q, "still", x).step = "still"
    BY <1>0, <1>2, <2>2, StepFits
  <2> QED BY <2>1, <2>3
<1>6. JobsFit(w) /\ (\A k \in FootageGiven.Jobs : k # j => w[k] = v3[k]) /\ w[j] = r
  BY <1>0, <1>1, <1>5 DEF JobsFit
<1> QED BY <1>5, <1>6 DEF w

LEMMA FromSegmentStep ==
  ASSUME FootageInv, NEW j \in FootageGiven.Jobs, Footage!ThumbFromSegment(j)
  PROVE  FootageInv'
<1>1. v1' = v1 /\ v2' = v2 /\ v5' = v5 /\ v4' = Footage!NoAnswer /\ v3[j].step = "resolve"
      /\ v3' = [v3 EXCEPT ![j].step = "still"]
  BY DEF Footage!ThumbFromSegment
<1> DEFINE more == v3'
<1>2. JobsFit(more) /\ \A k \in FootageGiven.Jobs : k # j => more[k] = v3[k]
  BY <1>1, JobsSet
<1>3. \A k \in FootageGiven.Jobs : v3[k].step = "transcode" =>
        more[k].step = "transcode" /\ more[k].todo = v3[k].todo
  BY <1>1, <1>2
<1> HIDE DEF more
<1>4. \A c : Writer(v3, c) => Writer(more, c)
  BY <1>3, WritersStay
<1>5. HalvesKept(v2, more, v5.mishaps)
  BY <1>4 DEF FootageInv, HalvesKept
<1> QED BY <1>1, <1>2, <1>5, NothingServed DEF FootageInv, more

(* The rest after a request left its clip.                                 *)
LEMMA LeavesFit ==
  ASSUME FootageInv, NEW j \in FootageGiven.Jobs, v3[j].step # "idle", v3' = Footage!NextOf(j)
  PROVE  /\ JobsFit(v3') /\ \A k \in FootageGiven.Jobs : k # j => v3'[k] = v3[k]
         /\ v3'[j].step \in {"resolve", "idle"}
BY NextFits DEF FootageInv

LEMMA DueNoted ==
  ASSUME RestFits(v5), NEW b \in BOOLEAN, v5' = [v5 EXCEPT !.due = v5.due \/ b]
  PROVE  RestFits(v5') /\ v5'.mishaps = v5.mishaps /\ (v5.due => v5'.due)
<1> DEFINE x == v5.due \/ b
           w == v5'
           n == v5.mishaps
<1>1. v5 \in [due : {v5.due}, mishaps : {v5.mishaps}, requests : {v5.requests}]
      /\ x \in BOOLEAN /\ n \in Mishaps /\ (v5.due => x = TRUE)
  BY RestIs
<1> HIDE DEF x
<1>2. w \in [due : {x}, mishaps : {n}, requests : {v5.requests}]
  BY <1>1 DEF x
<1> HIDE DEF w, n
<1>3. w.requests = v5.requests
  BY <1>2
<1>4. RestFits(w) /\ w.mishaps = n /\ w.due = x
  BY <1>1, <1>2, <1>3, RestNoted
<1> QED BY <1>1, <1>4 DEF w, n

LEMMA FindsNothingStep ==
  ASSUME FootageInv, NEW j \in FootageGiven.Jobs, Footage!FindsNothing(j)
  PROVE  FootageInv'
<1>1. v1' = v1 /\ v2' = v2 /\ v4' = Footage!NoAnswer /\ v3[j].step = "resolve"
      /\ v3' = Footage!NextOf(j) /\ v5' = [v5 EXCEPT !.due = v5.due \/ Footage!WarmDone(j)]
  BY DEF Footage!FindsNothing, Footage!Leaves
<1> DEFINE more == v3'
<1>2. JobsFit(more) /\ \A k \in FootageGiven.Jobs : k # j => more[k] = v3[k]
  BY <1>1, LeavesFit
<1>3. \A k \in FootageGiven.Jobs : v3[k].step = "transcode" =>
        more[k].step = "transcode" /\ more[k].todo = v3[k].todo
  BY <1>1, <1>2
<1> HIDE DEF more
<1>4. \A c : Writer(v3, c) => Writer(more, c)
  BY <1>3, WritersStay
<1>5. HalvesKept(v2, more, v5.mishaps)
  BY <1>4 DEF FootageInv, HalvesKept
<1>6. RestFits(v5') /\ v5'.mishaps = v5.mishaps
  <2>1. RestFits(v5) /\ Footage!WarmDone(j) \in BOOLEAN
    BY DEF FootageInv, Footage!WarmDone
  <2> QED BY <1>1, <2>1, DueNoted
<1> QED BY <1>1, <1>2, <1>5, <1>6, NothingServed DEF FootageInv, more

LEMMA ResolveStep ==
  ASSUME FootageInv, NEW j \in FootageGiven.Jobs, Footage!Resolve(j)
  PROVE  FootageInv'
<1> DEFINE c == Footage!Clip(j)
           others == {k \in FootageGiven.Jobs : Footage!Transcodes(k, c)}
           starts == v3[j].kind # "thumb"
           to == IF starts THEN "transcode" ELSE "still"
           b == others # {}
           q == [v3[j] EXCEPT !.step = to, !.disturbed = b]
           more == v3'
           e == [v2[c] EXCEPT !.there = TRUE]
           later == v2'
<1>1. v1' = v1 /\ v5' = v5 /\ v4' = Footage!NoAnswer /\ v3[j].step = "resolve"
      /\ later = [v2 EXCEPT ![c] = e]
  BY DEF Footage!Resolve
<1>2. more = [k \in FootageGiven.Jobs |-> CASE k = j -> q
               [] k \in others /\ starts -> [v3[k] EXCEPT !.disturbed = TRUE]
               [] OTHER -> v3[k]]
  BY DEF Footage!Resolve
<1>3. \A k \in others : v3[k].step = "transcode" /\ k # j
  BY <1>1 DEF Footage!Transcodes
<1>4. c \in FootageGiven.Clips /\ JobFits(v3[j]) /\ DirFits(v2[c]) /\ v3[j].step # "idle"
  BY <1>1, ClipKnown
<1>5. JobFits(q) /\ q.step \in {"transcode", "still"}
  <2>1. to \in {"transcode", "still"} /\ b \in BOOLEAN
    OBVIOUS
  <2> HIDE DEF c, others, starts, to, b
  <2>2. v3[j] \in [kind : {v3[j].kind}, todo : {v3[j].todo}, step : {v3[j].step}, disturbed : {v3[j].disturbed}]
    BY <1>4, JobIs
  <2>3. q = StepTo(v3[j], to, b)
    <3>1. q \in [kind : {v3[j].kind}, todo : {v3[j].todo}, step : {to}, disturbed : {b}]
      BY <2>2
    <3> HIDE DEF q
    <3>2. q = [kind |-> v3[j].kind, todo |-> v3[j].todo, step |-> to, disturbed |-> b]
      BY <3>1
    <3> QED BY <3>2 DEF StepTo
  <2> HIDE DEF q
  <2> QED BY <1>4, <2>1, <2>3, StepFits
<1>6. \A k \in FootageGiven.Jobs : k # j =>
        JobFits(more[k]) /\ more[k].step = v3[k].step /\ more[k].todo = v3[k].todo
  <2> SUFFICES ASSUME NEW k \in FootageGiven.Jobs, k # j
               PROVE  JobFits(more[k]) /\ more[k].step = v3[k].step /\ more[k].todo = v3[k].todo
    OBVIOUS
  <2>1. JobFits(v3[k])
    BY DEF FootageInv, JobsFit
  <2>2. CASE k \in others /\ starts
    <3> DEFINE r == [v3[k] EXCEPT !.disturbed = TRUE]
    <3>1. more[k] = r
      <4> HIDE DEF q, others, starts, more, r
      <4> QED BY <1>2, <2>2 DEF r
    <3>2. v3[k] \in [kind : {v3[k].kind}, todo : {v3[k].todo}, step : {v3[k].step},
                     disturbed : {v3[k].disturbed}]
      BY <2>1, JobIs
    <3>3. r \in [kind : {v3[k].kind}, todo : {v3[k].todo}, step : {v3[k].step}, disturbed : {TRUE}]
      BY <3>2
    <3> HIDE DEF r
    <3>4. r = [kind |-> v3[k].kind, todo |-> v3[k].todo, step |-> v3[k].step, disturbed |-> TRUE]
      BY <3>3
    <3>5. r.step = v3[k].step /\ r.todo = v3[k].todo
      BY <3>4
    <3>6. r \in JobRec
      BY <2>1, <3>4, JobIs DEF JobRec
    <3> QED BY <2>1, <3>1, <3>5, <3>6 DEF JobFits
  <2>3. CASE ~(k \in others /\ starts)
    <3>1. more[k] = v3[k]
      <4> HIDE DEF q, others, starts, more
      <4> QED BY <1>2, <2>3
    <3> QED BY <2>1, <3>1
  <2> QED BY <2>2, <2>3
<1>7. more[j] = q /\ more = [k \in FootageGiven.Jobs |-> more[k]]
  <2>1. j \notin others
    BY <1>3
  <2> HIDE DEF q, others, starts, more
  <2>2. more[j] = CASE j = j -> q [] j \in others /\ starts -> [v3[j] EXCEPT !.disturbed = TRUE]
                    [] OTHER -> v3[j]
    BY <1>2
  <2> QED BY <1>2, <2>1, <2>2
<1>8. DirsFit(later) /\ \A d \in FootageGiven.Clips : later[d].list = v2[d].list
  <2>1. DirFits(e) /\ e.list = v2[c].list
    BY <1>4, DirOpened
  <2> HIDE DEF c, e, later
  <2> QED BY <1>1, <1>4, <2>1 DEF FootageInv, DirsFit
<1> HIDE DEF c, others, starts, to, b, q, more, e, later
<1>9. JobsFit(more)
  BY <1>5, <1>6, <1>7 DEF JobsFit
<1>10. \A k \in FootageGiven.Jobs : v3[k].step = "transcode" =>
         more[k].step = "transcode" /\ more[k].todo = v3[k].todo
  BY <1>1, <1>6
<1>11. \A d : Writer(v3, d) => Writer(more, d)
  BY <1>10, WritersStay
<1>12. HalvesKept(later, more, v5.mishaps)
  BY <1>8, <1>11 DEF FootageInv, HalvesKept
<1> QED BY <1>1, <1>8, <1>9, <1>12, NothingServed DEF FootageInv, more, later

(* ffmpeg writes the playlist of a clip.                                   *)
LEMMA PlaylistWritten ==
  ASSUME FootageInv, NEW c \in FootageGiven.Clips, v2[c].there, NEW l \in {"part", "whole"},
         Footage!Writes(c, l)
  PROVE  /\ DirsFit(v2') /\ v2'[c].list = l
         /\ \A d \in FootageGiven.Clips : d # c => v2'[d] = v2[d]
<1> DEFINE e == v2[c]
           y == [e EXCEPT !.list = l]
           w == [e EXCEPT !.list = l, !.age = 0]
           later == v2'
<1>0. DirFits(e) /\ e.there /\ DirsFit(v2)
  BY DEF FootageInv, DirsFit
<1>1. later = [v2 EXCEPT ![c].list = l, ![c].age = 0]
  BY DEF Footage!Writes
<1>2. later = [[v2 EXCEPT ![c] = y] EXCEPT ![c].age = 0]
  BY <1>1
<1>3. [v2 EXCEPT ![c] = y][c] = y
  BY <1>0 DEF DirsFit
<1>4. later = [v2 EXCEPT ![c] = w]
  BY <1>0, <1>2, <1>3 DEF DirsFit
<1>5. DirFits(w) /\ w.list = l
  BY <1>0, ListWritten
<1> HIDE DEF w, later, e
<1> QED BY <1>0, <1>4, <1>5 DEF DirsFit, later

LEMMA SegmentStep ==
  ASSUME FootageInv, NEW j \in FootageGiven.Jobs, Footage!WritesSegment(j)
  PROVE  FootageInv'
<1> DEFINE c == Footage!Clip(j)
           later == v2'
<1>1. v1' = v1 /\ v3' = v3 /\ v5' = v5 /\ v4' = Footage!NoAnswer /\ v3[j].step = "transcode"
      /\ v2[c].there /\ Footage!Writes(c, "part")
  BY DEF Footage!WritesSegment
<1>2. c \in FootageGiven.Clips /\ c = Head(v3[j].todo)
  BY <1>1, ClipKnown
<1>3. DirsFit(later) /\ \A d \in FootageGiven.Clips : d # c => later[d] = v2[d]
  <2> HIDE DEF c
  <2> QED BY <1>1, <1>2, PlaylistWritten
<1>4. Writer(v3, c)
  BY <1>1, <1>2 DEF Writer
<1> HIDE DEF c, later
<1>5. HalvesKept(later, v3, v5.mishaps)
  BY <1>3, <1>4 DEF FootageInv, HalvesKept
<1> QED BY <1>1, <1>3, <1>5, NothingServed DEF FootageInv, later

LEMMA EndsStep ==
  ASSUME FootageInv, NEW j \in FootageGiven.Jobs, Footage!TranscodeEnds(j)
  PROVE  FootageInv'
<1> DEFINE c == Footage!Clip(j)
           later == v2'
           more == v3'
           n == IF v3[j].disturbed THEN FootageGiven.MaxMishaps + 1 ELSE v5.mishaps
           rest == v5'
<1>1. v1' = v1 /\ v4' = Footage!NoAnswer /\ v3[j].step = "transcode" /\ v2[c].there
      /\ v3' = [v3 EXCEPT ![j].step = "still"] /\ rest = [v5 EXCEPT !.mishaps = n]
  BY DEF Footage!TranscodeEnds
<1>2. PICK l \in IF v3[j].disturbed THEN {"part", "whole"} ELSE {"whole"} : Footage!Writes(c, l)
  BY DEF Footage!TranscodeEnds
<1>3. c \in FootageGiven.Clips /\ c = Head(v3[j].todo)
  BY <1>1, ClipKnown
<1>4. DirsFit(later) /\ later[c].list = l /\ \A d \in FootageGiven.Clips : d # c => later[d] = v2[d]
  <2>1. l \in {"part", "whole"}
    OBVIOUS
  <2> HIDE DEF c
  <2> QED BY <1>1, <1>2, <1>3, <2>1, PlaylistWritten
<1>5. JobsFit(more) /\ \A k \in FootageGiven.Jobs : k # j => more[k] = v3[k]
  BY <1>1, JobsSet
<1>6. n \in Mishaps /\ (v3[j].disturbed => n > 0) /\ (~v3[j].disturbed => n = v5.mishaps)
      /\ (v5.mishaps > 0 => n > 0)
  BY ClipBounds, RestIs DEF FootageInv
<1> HIDE DEF n, rest, more, later, c
<1>7. RestFits(rest) /\ rest.mishaps = n
  <2>1. v5 \in [due : {v5.due}, mishaps : {v5.mishaps}, requests : {v5.requests}] /\ v5.due \in BOOLEAN
    BY RestIs DEF FootageInv
  <2>2. rest \in [due : {v5.due}, mishaps : {n}, requests : {v5.requests}]
    BY <1>1, <2>1
  <2>3. rest.requests = v5.requests
    BY <2>2
  <2> QED BY <1>6, <2>1, <2>2, <2>3, RestNoted
<1>8. HalvesKept(later, more, n)
  <2> SUFFICES ASSUME NEW d \in FootageGiven.Clips, later[d].list = "part", ~(n > 0)
               PROVE  Writer(more, d)
    BY DEF HalvesKept
  <2>1. ~v3[j].disturbed /\ l = "whole" /\ ~(v5.mishaps > 0)
    BY <1>2, <1>6
  <2>2. d # c /\ v2[d].list = "part"
    BY <1>4, <2>1
  <2>3. PICK k \in FootageGiven.Jobs : v3[k].step = "transcode" /\ Head(v3[k].todo) = d
    BY <2>1, <2>2 DEF FootageInv, HalvesKept, Writer
  <2>4. k # j
    BY <1>3, <2>2, <2>3
  <2> QED BY <1>5, <2>3, <2>4 DEF Writer
<1> QED BY <1>1, <1>4, <1>5, <1>7, <1>8, NothingServed DEF FootageInv, rest, more, later

LEMMA FailsStep ==
  ASSUME FootageInv, NEW j \in FootageGiven.Jobs, Footage!Fails(j)
  PROVE  FootageInv'
<1> DEFINE c == Footage!Clip(j)
           more == v3'
           b == v5.due \/ Footage!WarmDone(j)
           ends == v2[c].there /\ v3[j].step = "transcode"
           rest == v5'
<1>1. v1' = v1 /\ v2' = v2 /\ v4' = Footage!NoAnswer /\ v3[j].step \in {"transcode", "still"}
      /\ more = Footage!NextOf(j)
  BY DEF Footage!Fails
<1>2. c \in FootageGiven.Clips /\ c = Head(v3[j].todo) /\ DirFits(v2[c])
  BY <1>1, ClipKnown
<1>3. JobsFit(more) /\ \A k \in FootageGiven.Jobs : k # j => more[k] = v3[k]
  BY <1>1, LeavesFit
<1>4. RestFits(v5) /\ b \in BOOLEAN
  BY DEF FootageInv, Footage!WarmDone
<1>a. \/ /\ ends /\ v5.mishaps < FootageGiven.MaxMishaps
         /\ rest = [v5 EXCEPT !.mishaps = v5.mishaps + 1, !.due = b]
      \/ ~ends /\ rest = [v5 EXCEPT !.due = b]
  BY DEF Footage!Fails
<1>5. CASE ends
  <2> DEFINE n == v5.mishaps + 1
  <2>1. v5.mishaps < FootageGiven.MaxMishaps /\ rest = [v5 EXCEPT !.mishaps = n, !.due = b]
    BY <1>5, <1>a
  <2>2. n \in Mishaps /\ n > 0
    BY <1>4, <2>1, ClipBounds, RestIs
  <2> HIDE DEF c, more, b, rest, n
  <2>3. v5 \in [due : {v5.due}, mishaps : {v5.mishaps}, requests : {v5.requests}]
    BY <1>4, RestIs
  <2>4. rest \in [due : {b}, mishaps : {n}, requests : {v5.requests}]
    BY <2>1, <2>3
  <2>5. rest.requests = v5.requests
    BY <2>4
  <2>6. RestFits(rest) /\ rest.mishaps = n
    BY <1>4, <2>2, <2>4, <2>5, RestNoted
  <2>7. HalvesKept(v2, more, n)
    BY <2>2 DEF HalvesKept
  <2> QED BY <1>1, <1>3, <2>6, <2>7, NothingServed DEF FootageInv, rest, more
<1>6. CASE ~ends
  <2>1. rest = [v5 EXCEPT !.due = v5.due \/ Footage!WarmDone(j)] /\ Footage!WarmDone(j) \in BOOLEAN
    BY <1>6, <1>a DEF Footage!WarmDone
  <2>2. RestFits(rest) /\ rest.mishaps = v5.mishaps
    BY <1>4, <2>1, DueNoted
  <2> HIDE DEF more, rest
  <2>3. HalvesKept(v2, more, v5.mishaps)
    <3> SUFFICES ASSUME NEW d \in FootageGiven.Clips, v2[d].list = "part", ~(v5.mishaps > 0)
                 PROVE  Writer(more, d)
      BY DEF HalvesKept
    <3>1. PICK k \in FootageGiven.Jobs : v3[k].step = "transcode" /\ Head(v3[k].todo) = d
      BY DEF FootageInv, HalvesKept, Writer
    <3>2. k # j
      <4>1. v2[d].there
        BY DirIs DEF FootageInv, DirsFit
      <4> QED BY <1>2, <1>6, <3>1, <4>1
    <3> QED BY <1>3, <3>1, <3>2 DEF Writer
  <2> QED BY <1>1, <1>3, <2>2, <2>3, NothingServed DEF FootageInv, rest, more
<1> QED BY <1>5, <1>6

LEMMA StillAnswers ==
  ASSUME FootageInv, NEW j \in FootageGiven.Jobs, Footage!Still(j)
  PROVE  FootageInv'
<1> DEFINE c == Footage!Clip(j)
           later == v2'
           more == v3'
           b == v3[j].kind = "serve" \/ Footage!WarmDone(j)
           rest == v5'
           e == [v2[c] EXCEPT !.thumb = TRUE, !.thumbAge = 0]
<1>1. v1' = v1 /\ v3[j].step = "still" /\ more = Footage!NextOf(j) /\ v2[c].there
  BY DEF Footage!Still
<1>2. c \in FootageGiven.Clips /\ DirFits(v2[c])
  BY <1>1, ClipKnown
<1>3. JobsFit(more) /\ \A k \in FootageGiven.Jobs : k # j => more[k] = v3[k]
  BY <1>1, LeavesFit
<1>4. RestFits(rest) /\ rest.mishaps = v5.mishaps
  <2>1. b \in BOOLEAN /\ RestFits(v5)
    BY DEF FootageInv, Footage!WarmDone
  <2>2. rest = [v5 EXCEPT !.due = v5.due \/ b]
    BY DEF Footage!Still
  <2> HIDE DEF b
  <2> QED BY <2>1, <2>2, DueNoted
<1>5. (Footage!ServedIsFresh)'
  <2>1. v4' = [clip |-> c, file |-> "list", cached |-> FALSE, age |-> 0] \/ v4' = Footage!NoAnswer
    BY DEF Footage!Still, Footage!Answers
  <2> QED BY <2>1 DEF Footage!NoAnswer, Footage!ServedIsFresh
<1>6. DirsFit(later) /\ \A d \in FootageGiven.Clips : later[d].list = v2[d].list
  <2>1. CASE later = v2
    BY <2>1 DEF FootageInv
  <2>2. CASE later = [v2 EXCEPT ![c].thumb = TRUE, ![c].thumbAge = 0]
    <3> DEFINE y == [v2[c] EXCEPT !.thumb = TRUE]
    <3>0. DirsFit(v2)
      BY DEF FootageInv
    <3>1. later = [[v2 EXCEPT ![c] = y] EXCEPT ![c].thumbAge = 0]
      BY <2>2
    <3>2. [v2 EXCEPT ![c] = y][c] = y
      BY <1>2, <3>0 DEF DirsFit
    <3>3. later = [v2 EXCEPT ![c] = e]
      BY <1>2, <3>0, <3>1, <3>2 DEF DirsFit
    <3>4. DirFits(e) /\ e.list = v2[c].list
      BY <1>1, <1>2, ThumbMade
    <3> HIDE DEF e, later, c
    <3> QED BY <1>2, <3>0, <3>3, <3>4 DEF DirsFit
  <2> QED BY <2>1, <2>2 DEF Footage!Still
<1> HIDE DEF c, later, more, b, rest, e
<1>7. \A k \in FootageGiven.Jobs : v3[k].step = "transcode" =>
        more[k].step = "transcode" /\ more[k].todo = v3[k].todo
  BY <1>1, <1>3
<1>8. \A d : Writer(v3, d) => Writer(more, d)
  BY <1>7, WritersStay
<1>9. HalvesKept(later, more, v5.mishaps)
  BY <1>6, <1>8 DEF FootageInv, HalvesKept
<1> QED BY <1>1, <1>3, <1>4, <1>5, <1>6, <1>9 DEF FootageInv, rest, more, later

LEMMA EvictKeeps == ASSUME FootageInv, Footage!Evict PROVE FootageInv'
<1>1. v1' = v1 /\ v4' = Footage!NoAnswer /\ v5' = [v5 EXCEPT !.due = FALSE]
  BY DEF Footage!Evict
<1>2. PICK gone : /\ v2' = [c \in FootageGiven.Clips |-> IF c \in gone THEN Footage!NoDir ELSE v2[c]]
                  /\ v3' = [j \in FootageGiven.Jobs |->
                              IF v3[j].step = "transcode" /\ Footage!Clip(j) \in gone
                              THEN [v3[j] EXCEPT !.disturbed = TRUE] ELSE v3[j]]
  BY DEF Footage!Evict
<1> DEFINE later == v2'
           more == v3'
           rest == v5'
<1>3. \A c \in FootageGiven.Clips : DirFits(later[c]) /\ (later[c].list = "part" => v2[c].list = "part")
  <2>1. Footage!NoDir.list = "none"
    BY DEF Footage!NoDir
  <2>2. \A c \in FootageGiven.Clips : DirFits(v2[c])
    BY DEF FootageInv, DirsFit
  <2> QED BY <1>2, <2>1, <2>2, NoDirFits
<1>4. DirsFit(later)
  BY <1>2, <1>3 DEF DirsFit
<1>5. \A j \in FootageGiven.Jobs :
        JobFits(more[j]) /\ more[j].step = v3[j].step /\ more[j].todo = v3[j].todo
  <2> SUFFICES ASSUME NEW j \in FootageGiven.Jobs
               PROVE  JobFits(more[j]) /\ more[j].step = v3[j].step /\ more[j].todo = v3[j].todo
    OBVIOUS
  <2> DEFINE q == v3[j]
             r == [q EXCEPT !.disturbed = TRUE]
  <2>1. JobFits(q)
    BY DEF FootageInv, JobsFit
  <2>2. more[j] = r \/ more[j] = q
    BY <1>2
  <2>3. q \in [kind : {q.kind}, todo : {q.todo}, step : {q.step}, disturbed : {q.disturbed}]
    BY <2>1, JobIs
  <2>4. r \in [kind : {q.kind}, todo : {q.todo}, step : {q.step}, disturbed : {TRUE}]
    BY <2>3
  <2> HIDE DEF r
  <2>5. r = [kind |-> q.kind, todo |-> q.todo, step |-> q.step, disturbed |-> TRUE]
    BY <2>4
  <2>6. r.step = q.step /\ r.todo = q.todo
    BY <2>5
  <2>7. r \in JobRec
    BY <2>1, <2>5, JobIs DEF JobRec
  <2> QED BY <2>1, <2>2, <2>6, <2>7 DEF JobFits
<1>6. JobsFit(more)
  BY <1>2, <1>5 DEF JobsFit
<1> HIDE DEF later, more, rest
<1>7. \A c : Writer(v3, c) => Writer(more, c)
  <2>1. \A k \in FootageGiven.Jobs : v3[k].step = "transcode" =>
          more[k].step = "transcode" /\ more[k].todo = v3[k].todo
    BY <1>5
  <2> QED BY <2>1, WritersStay
<1>8. HalvesKept(later, more, v5.mishaps)
  BY <1>3, <1>7 DEF FootageInv, HalvesKept
<1>9. RestFits(rest) /\ rest.mishaps = v5.mishaps
  <2>1. v5 \in [due : {v5.due}, mishaps : {v5.mishaps}, requests : {v5.requests}] /\ v5.mishaps \in Mishaps
    BY RestIs DEF FootageInv
  <2>2. rest \in [due : {FALSE}, mishaps : {v5.mishaps}, requests : {v5.requests}]
    BY <1>1, <2>1 DEF rest
  <2>3. rest.requests = v5.requests
    BY <2>2
  <2> QED BY <2>1, <2>2, <2>3, RestNoted
<1> QED BY <1>1, <1>4, <1>6, <1>8, <1>9, NothingServed DEF FootageInv, later, more, rest

LEMMA FootageStart == Footage!Init => FootageInv
<1> SUFFICES ASSUME Footage!Init PROVE FootageInv
  OBVIOUS
<1>1. v1 \in FootageGiven.VstLists /\ v4 = Footage!NoAnswer
      /\ v2 = [c \in FootageGiven.Clips |-> Footage!NoDir]
      /\ v3 = [j \in FootageGiven.Jobs |-> Footage!Idle]
      /\ v5 = [due |-> FALSE, mishaps |-> 0, requests |-> 0]
  BY DEF Footage!Init
<1>2. DirsFit(v2)
  BY <1>1, NoDirFits DEF DirsFit
<1>3. JobsFit(v3)
  BY <1>1, IdleFits DEF JobsFit
<1>4. RestFits(v5)
  BY <1>1, ClipBounds DEF RestFits
<1>5. HalvesKept(v2, v3, v5.mishaps)
  BY <1>1 DEF HalvesKept, Footage!NoDir
<1>6. Footage!ServedIsFresh
  BY <1>1 DEF Footage!NoAnswer, Footage!ServedIsFresh
<1> QED BY <1>1, <1>2, <1>3, <1>4, <1>5, <1>6 DEF FootageInv

LEMMA FootageStep == ASSUME FootageInv, [Footage!Next]_(Footage!vars) PROVE FootageInv'
<1>1. CASE UNCHANGED Footage!vars
  <2>1. v1' = v1 /\ v2' = v2 /\ v3' = v3 /\ v4' = v4 /\ v5' = v5
    BY <1>1 DEF Footage!vars
  <2> QED BY <2>1 DEF FootageInv, Footage!ServedIsFresh
<1>2. CASE Footage!Next
  <2>1. CASE Footage!Tick
    BY <2>1, ClipsAge
  <2>2. CASE \E c \in FootageGiven.Clips :
               Footage!PlaylistHit(c) \/ Footage!Segment(c) \/ Footage!ThumbHit(c)
    BY <2>2, HitStep
  <2>3. CASE \E j \in FootageGiven.Jobs, c \in FootageGiven.Clips, kind \in {"serve", "warm", "thumb"} :
               Footage!Begin(j, kind, <<c>>)
    BY <2>3, TodoOfOne, ClipAskedStep
  <2>4. CASE \E j \in FootageGiven.Jobs, clips \in Footage!SetToSeqs(FootageGiven.Clips) :
               Footage!Begin(j, "warm", clips)
    <3>1. PICK j \in FootageGiven.Jobs, clips \in Footage!SetToSeqs(FootageGiven.Clips) :
            Footage!Begin(j, "warm", clips)
      BY <2>4
    <3>2. clips \in ClipTodos /\ clips # <<>> /\ "warm" \in {"serve", "warm", "thumb"}
      BY TodoOfMany
    <3> QED BY <3>1, <3>2, ClipAskedStep
  <2>5. ASSUME NEW j \in FootageGiven.Jobs,
               \/ Footage!Resolve(j) \/ Footage!FindsNothing(j) \/ Footage!ThumbFromSegment(j)
               \/ Footage!WritesSegment(j) \/ Footage!TranscodeEnds(j) \/ Footage!Fails(j) \/ Footage!Still(j)
        PROVE  FootageInv'
    BY <2>5, ResolveStep, FindsNothingStep, FromSegmentStep, SegmentStep, EndsStep, FailsStep, StillAnswers
  <2>6. CASE Footage!Evict
    BY <2>6, EvictKeeps
  <2> QED BY <1>2, <2>1, <2>2, <2>3, <2>4, <2>5, <2>6 DEF Footage!Next
<1> QED BY <1>1, <1>2

(* The window of a clip, its middle, and the sensor that is asked.         *)
LEMMA WindowIsShort ==
  ASSUME NEW c \in FootageGiven.Clips
  PROVE  /\ Footage!ClipWindow(c).start + Footage!ThumbAt(c)
              \in Footage!ClipWindow(c).start .. Footage!ClipWindow(c).stop
         /\ Footage!ClipWindow(c).stop - Footage!ClipWindow(c).start <= 60
<1> DEFINE w == Footage!ClipWindow(c)
<1>1. c.ts \in Int /\ c.end \in Int
  BY FootageAssumption
<1>2. CASE c.end > c.ts
  <2> DEFINE a == c.ts
             z == IF c.end + 2 < a + 58 THEN c.end + 2 ELSE a + 58
  <2>1. w = [start |-> a - 2, stop |-> z] /\ Footage!ThumbAt(c) = (w.stop - w.start) \div 2
    BY <1>2 DEF Footage!ClipWindow, Footage!ThumbAt, Footage!IsSpan, Footage!SmallerOf
  <2>2. a \in Int /\ z \in Int /\ a <= z /\ z <= a + 58
    BY <1>1, <1>2
  <2> HIDE DEF w, a, z
  <2>3. w.start = a - 2 /\ w.stop = z
    BY <2>1
  <2>4. ASSUME NEW d \in Nat PROVE d \div 2 \in 0 .. d
    BY <2>4
  <2>5. z - (a - 2) \in Nat /\ z - (a - 2) <= 60
    BY <2>2
  <2>6. (z - (a - 2)) \div 2 \in 0 .. z - (a - 2)
    BY <2>4, <2>5
  <2> DEFINE h == (z - (a - 2)) \div 2
  <2>7. Footage!ThumbAt(c) = h /\ h \in 0 .. z - (a - 2)
    BY <2>1, <2>3, <2>6
  <2> HIDE DEF h
  <2>8. a - 2 + h \in a - 2 .. z
    BY <2>2, <2>7
  <2>9. Footage!ClipWindow(c).start = a - 2 /\ Footage!ClipWindow(c).stop = z /\ Footage!ThumbAt(c) = h
    BY <2>3, <2>7 DEF w
  <2>10. Footage!ClipWindow(c).start + Footage!ThumbAt(c)
           \in Footage!ClipWindow(c).start .. Footage!ClipWindow(c).stop
    BY <2>8, <2>9
  <2>11. Footage!ClipWindow(c).stop - Footage!ClipWindow(c).start <= 60
    BY <2>5, <2>9
  <2> QED BY <2>10, <2>11
<1>3. CASE ~(c.end > c.ts)
  <2>1. w = [start |-> c.ts - 5, stop |-> c.ts + 5] /\ Footage!ThumbAt(c) = 0
    BY <1>3 DEF Footage!ClipWindow, Footage!ThumbAt, Footage!IsSpan
  <2> DEFINE a == c.ts
  <2>2. a \in Int
    BY <1>1
  <2> HIDE DEF w, a
  <2>3. w.start = a - 5 /\ w.stop = a + 5
    BY <2>1 DEF a
  <2>4. a - 5 + 0 \in a - 5 .. a + 5
    BY <2>2
  <2>5. Footage!ClipWindow(c).start = a - 5 /\ Footage!ClipWindow(c).stop = a + 5
        /\ Footage!ThumbAt(c) = 0
    BY <2>1, <2>3 DEF w
  <2>6. Footage!ClipWindow(c).start + Footage!ThumbAt(c)
           \in Footage!ClipWindow(c).start .. Footage!ClipWindow(c).stop
    BY <2>4, <2>5
  <2>7. Footage!ClipWindow(c).stop - Footage!ClipWindow(c).start <= 60
    BY <2>2, <2>5
  <2> QED BY <2>6, <2>7
<1> QED BY <1>2, <1>3

LEMMA EarliestIn ==
  ASSUME NEW T \in SUBSET Nat, T # {}
  PROVE  \E m \in T : \A k \in T : m <= k
<1> DEFINE less == OpToRel(<, Nat)
<1>1. IsWellFoundedOn(less, Nat)
  BY NatLessThanWellFounded
<1>2. \A x, y \in Nat : <<y, x>> \in less <=> y < x
  BY DEF OpToRel
<1> HIDE DEF less
<1>3. PICK x \in T : \A y \in T : ~ (<<y, x>> \in less)
  BY <1>1, WFMin
<1>4. \A y \in T : y \in Nat /\ x \in Nat /\ ~(y < x)
  BY <1>2, <1>3
<1>5. \A y \in T : x <= y
  BY <1>4
<1> QED  BY <1>3, <1>5

LEMMA FirstStandsIn ==
  ASSUME NEW T \in SUBSET Nat, T # {}
  PROVE  Footage!FirstIn(T) \in T
<1>1. \E i \in T : \A k \in T : i <= k
  BY EarliestIn
<1> QED BY <1>1 DEF Footage!FirstIn

LEMMA EntryIsRight ==
  ASSUME NEW l, IsList(l), NEW n, NEW i \in Footage!Named(l, n)
  PROVE  LET found == Footage!EntryOf(l, n)
         IN /\ found \in Footage!Named(l, n)
            /\ l[i].state = "online" /\ l[i].timeline => l[found].state = "online" /\ l[found].timeline
<1> DEFINE A == Footage!Named(l, n)
           B == Footage!Serving(l, n)
           found == Footage!EntryOf(l, n)
<1>1. A \in SUBSET Nat /\ B \subseteq A /\ A # {}
  <2> DEFINE S == {l[k] : k \in DOMAIN l}
  <2>1. l \in Seq(S)
    BY DEF IsList
  <2> HIDE DEF S
  <2>2. DOMAIN l \subseteq Nat
    BY <2>1
  <2> QED BY <2>2 DEF Footage!Named, Footage!Serving
<1>2. l[i].state = "online" /\ l[i].timeline => i \in B
  BY DEF Footage!Serving
<1>3. \A k \in B : l[k].state = "online" /\ l[k].timeline
  BY DEF Footage!Serving
<1>4. found = IF B # {} THEN Footage!FirstIn(B) ELSE Footage!FirstIn(A)
  BY <1>1 DEF Footage!EntryOf
<1> HIDE DEF A, B, found
<1>5. CASE B # {}
  <2>1. Footage!FirstIn(B) \in B
    BY <1>1, <1>5, FirstStandsIn
  <2>2. found \in B
    BY <1>4, <1>5, <2>1
  <2> QED BY <1>1, <1>3, <2>2 DEF A, found
<1>6. CASE B = {}
  <2>1. Footage!FirstIn(A) \in A
    BY <1>1, FirstStandsIn
  <2>2. found \in A
    BY <1>4, <1>6, <2>1
  <2> QED BY <1>2, <1>6, <2>2 DEF A, found
<1> QED BY <1>5, <1>6

LEMMA FootagePromise ==
  FootageInv => /\ Footage!TypeOK /\ Footage!ServedIsFresh
                /\ Footage!HalvesComeOfMishaps /\ Footage!AsksTheRightStream
<1> SUFFICES ASSUME FootageInv
             PROVE  /\ Footage!TypeOK /\ Footage!ServedIsFresh
                    /\ Footage!HalvesComeOfMishaps /\ Footage!AsksTheRightStream
  OBVIOUS
<1>1. Footage!TypeOK
  <2>1. \A c \in FootageGiven.Clips : DirFits(v2[c])
    BY DEF FootageInv, DirsFit
  <2>2. \A c \in FootageGiven.Clips :
          /\ v2[c].list \in {"none", "part", "whole"}
          /\ v2[c].list # "none" \/ v2[c].thumb => v2[c].there
          /\ v2[c].age \in 0 .. FootageGiven.Ttl /\ v2[c].thumbAge \in 0 .. FootageGiven.Ttl
    BY <2>1, DirIs DEF ClipAges
  <2>3. \A j \in FootageGiven.Jobs : v3[j].step \in {"idle", "resolve", "transcode", "still"}
    BY JobIs DEF FootageInv, JobsFit
  <2>4. v5.due \in BOOLEAN /\ v5.mishaps \in 0 .. FootageGiven.MaxMishaps + 1
    BY RestIs DEF FootageInv, Mishaps
  <2> QED BY <2>2, <2>3, <2>4 DEF FootageInv, Footage!TypeOK
<1>2. Footage!HalvesComeOfMishaps
  BY DEF FootageInv, HalvesKept, Writer, Footage!HalvesComeOfMishaps, Footage!Transcodes, Footage!Clip
<1>3. Footage!AsksTheRightStream
  <2>1. IsList(v1)
    BY FootageAssumption DEF FootageInv
  <2> QED BY <2>1, WindowIsShort, EntryIsRight DEF Footage!AsksTheRightStream
<1> QED BY <1>1, <1>2, <1>3 DEF FootageInv

(* An eviction frees no more than it must, from the oldest on.             *)
LEMMA NothingIsLight == Footage!Total({}) = 0
<1>1. UNION {{c} \X (1 .. Footage!Size(v2[c])) : c \in {}} = {}
  OBVIOUS
<1> QED BY <1>1, FootageCounts, FS_EmptySet DEF Footage!Total

LEMMA EvictedIs ==
  ASSUME FootageInv, NEW o \in Footage!Orders
  PROVE  \E n \in 0 .. Cardinality(Footage!Dirs) :
           /\ Footage!Evicted(o) = Footage!FirstOf(o, n)
           /\ Footage!Total(Footage!Dirs \ Footage!Evicted(o)) <= FootageGiven.MaxBytes
<1> DEFINE D == Footage!Dirs
           k == Cardinality(D)
           Enough == {n \in 0 .. k : Footage!Suffices(o, n)}
           P(n) == Footage!Suffices(o, n) /\ \A m \in 0 .. n - 1 : ~Footage!Suffices(o, m)
           least == CHOOSE n \in 0 .. k : P(n)
<1>1. k \in Nat
  <2>1. D \subseteq FootageGiven.Clips
    BY DEF Footage!Dirs
  <2> HIDE DEF D
  <2> QED BY <2>1, FootageAssumption, FS_Subset, FS_CardinalityType
<1>2. DOMAIN o = 1 .. k /\ \A c \in D : \E i \in DOMAIN o : o[i] = c
  BY FootageCounts DEF Footage!Orders
<1>3. Footage!Suffices(o, k)
  <2>1. D \ Footage!FirstOf(o, k) = {}
    <3> HIDE DEF D, k
    <3> QED BY <1>2 DEF Footage!FirstOf
  <2>2. FootageGiven.MaxBytes \in Nat
    BY FootageAssumption
  <2>3. 0 <= FootageGiven.MaxBytes
    BY <2>2
  <2> QED BY <2>1, <2>3, NothingIsLight DEF Footage!Suffices
<1>4. \E n \in 0 .. k : P(n)
  <2>1. Enough \in SUBSET Nat /\ k \in Enough
    <3> HIDE DEF k
    <3> QED BY <1>1, <1>3
  <2> HIDE DEF Enough
  <2>2. PICK n \in Enough : \A m \in Enough : n <= m
    BY <2>1, EarliestIn
  <2>3. n \in 0 .. k /\ Footage!Suffices(o, n)
    BY <2>2 DEF Enough
  <2>4. ASSUME NEW m \in 0 .. n - 1 PROVE ~Footage!Suffices(o, m)
    <3> HIDE DEF k
    <3>1. m \in 0 .. k /\ m < n /\ ~(n <= m)
      BY <1>1, <2>3
    <3>2. m \notin Enough
      BY <2>2, <3>1
    <3> QED BY <3>1, <3>2 DEF Enough
  <2> QED BY <2>3, <2>4
<1>5. least \in 0 .. k /\ P(least)
  <2> HIDE DEF P, k
  <2> QED BY <1>4
<1>6. Footage!Evicted(o) = Footage!FirstOf(o, least)
  BY FootageCounts DEF Footage!Evicted
<1> HIDE DEF least
<1>7. Footage!Total(D \ Footage!FirstOf(o, least)) <= FootageGiven.MaxBytes
  BY <1>5 DEF Footage!Suffices
<1> QED BY <1>5, <1>6, <1>7

LEMMA EvictStepKept ==
  ASSUME FootageInv, [Footage!Next]_(Footage!vars)
  PROVE  Footage!EvictStep
<1> SUFFICES ASSUME v5.due, ~v5'.due PROVE Footage!EvictStep
  BY DEF Footage!EvictStep
<1>1. Footage!Evict
  <2>0. RestFits(v5) /\ v5.due = TRUE
    BY RestIs DEF FootageInv
  <2>1. CASE UNCHANGED Footage!vars
    BY <2>1 DEF Footage!vars
  <2>2. ASSUME NEW c, Footage!PlaylistHit(c) \/ Footage!Segment(c) \/ Footage!ThumbHit(c) PROVE FALSE
    BY <2>2 DEF Footage!PlaylistHit, Footage!Segment, Footage!ThumbHit
  <2>3. CASE Footage!Tick
    BY <2>3 DEF Footage!Tick
  <2>4. ASSUME NEW j, NEW kind, NEW clips, Footage!Begin(j, kind, clips) PROVE FALSE
    <3>1. v5' = [v5 EXCEPT !.requests = v5.requests + 1]
      BY <2>4 DEF Footage!Begin
    <3>2. v5'.due = v5.due
      BY <2>0, <3>1, RestIs
    <3> QED BY <3>2
  <2>5. ASSUME NEW j, \/ Footage!Resolve(j) \/ Footage!ThumbFromSegment(j) \/ Footage!WritesSegment(j)
        PROVE  FALSE
    BY <2>5 DEF Footage!Resolve, Footage!ThumbFromSegment, Footage!WritesSegment
  <2>6. ASSUME NEW x, NEW n,
               \/ v5' = [v5 EXCEPT !.due = v5.due \/ x] \/ v5' = [v5 EXCEPT !.mishaps = n]
               \/ v5' = [v5 EXCEPT !.mishaps = n, !.due = v5.due \/ x]
        PROVE  FALSE
    <3>1. v5 \in [due : {v5.due}, mishaps : {v5.mishaps}, requests : {v5.requests}]
      BY <2>0, RestIs
    <3>2. v5'.due = v5.due \/ v5'.due = (v5.due \/ x)
      BY <2>6, <3>1
    <3> QED BY <3>2
  <2>7. ASSUME NEW j, \/ Footage!FindsNothing(j) \/ Footage!TranscodeEnds(j) \/ Footage!Fails(j) \/ Footage!Still(j)
        PROVE  FALSE
    <3> DEFINE x == Footage!WarmDone(j)
               y == v3[j].kind = "serve" \/ Footage!WarmDone(j)
               m == v5.mishaps + 1
               n == IF v3[j].disturbed THEN FootageGiven.MaxMishaps + 1 ELSE v5.mishaps
    <3>1. CASE Footage!FindsNothing(j)
      <4>1. v5' = [v5 EXCEPT !.due = v5.due \/ x]
        BY <3>1 DEF Footage!FindsNothing, Footage!Leaves
      <4> QED BY <2>6, <4>1
    <3>2. CASE Footage!TranscodeEnds(j)
      <4>1. v5' = [v5 EXCEPT !.mishaps = n]
        BY <3>2 DEF Footage!TranscodeEnds
      <4> QED BY <2>6, <4>1
    <3>3. CASE Footage!Fails(j)
      <4>1. v5' = [v5 EXCEPT !.mishaps = m, !.due = v5.due \/ x] \/ v5' = [v5 EXCEPT !.due = v5.due \/ x]
        BY <3>3 DEF Footage!Fails
      <4> QED BY <2>6, <4>1
    <3>4. CASE Footage!Still(j)
      <4>1. v5' = [v5 EXCEPT !.due = v5.due \/ y]
        BY <3>4 DEF Footage!Still
      <4> QED BY <2>6, <4>1
    <3> QED BY <2>7, <3>1, <3>2, <3>3, <3>4
  <2> QED BY <2>1, <2>2, <2>3, <2>4, <2>5, <2>7 DEF Footage!Next
<1>2. PICK o \in Footage!Orders :
        v2' = [c \in FootageGiven.Clips |-> IF c \in Footage!Evicted(o) THEN Footage!NoDir ELSE v2[c]]
  BY <1>1 DEF Footage!Evict
<1>3. PICK n \in 0 .. Cardinality(Footage!Dirs) :
        /\ Footage!Evicted(o) = Footage!FirstOf(o, n)
        /\ Footage!Total(Footage!Dirs \ Footage!Evicted(o)) <= FootageGiven.MaxBytes
  BY EvictedIs
<1> DEFINE D == Footage!Dirs
           k == Cardinality(D)
           gone == {c \in D : ~v2'[c].there}
<1>4. o \in [1 .. k -> D] /\ (\A c \in D : \E i \in 1 .. k : o[i] = c)
      /\ \A i, m \in 1 .. k : i < m => Footage!Newest(v2[o[i]]) >= Footage!Newest(v2[o[m]])
  BY FootageCounts DEF Footage!Orders
<1>5. k \in Nat
  <2>1. D \subseteq FootageGiven.Clips
    BY DEF Footage!Dirs
  <2> HIDE DEF D
  <2> QED BY <2>1, FootageAssumption, FS_Subset, FS_CardinalityType
<1>6. gone = Footage!FirstOf(o, n)
  <2>1. \A c \in D : c \in FootageGiven.Clips /\ v2[c].there
    BY DEF Footage!Dirs
  <2>2. ~Footage!NoDir.there
    BY DEF Footage!NoDir
  <2>3. Footage!FirstOf(o, n) \subseteq D
    <3> HIDE DEF D, k
    <3>1. 1 .. n \subseteq 1 .. k
      BY <1>3, <1>5 DEF k, D
    <3> QED BY <1>4, <3>1 DEF Footage!FirstOf
  <2>4. \A c \in D : ~v2'[c].there <=> c \in Footage!Evicted(o)
    BY <1>2, <2>1, <2>2
  <2> HIDE DEF D
  <2> QED BY <1>3, <2>3, <2>4
<1>7. ASSUME NEW c \in gone, NEW d \in D \ gone
      PROVE  Footage!Newest(v2[c]) >= Footage!Newest(v2[d])
  <2> HIDE DEF D, k, gone
  <2>1. PICK i \in 1 .. n : c = o[i]
    BY <1>6 DEF Footage!FirstOf
  <2>2. PICK m \in 1 .. k : d = o[m]
    BY <1>4
  <2>3. m \notin 1 .. n
    BY <1>6, <2>2 DEF Footage!FirstOf
  <2>4. n \in Nat /\ n <= k
    BY <1>3, <1>5 DEF k, D
  <2>5. i < m /\ i \in 1 .. k
    BY <1>5, <2>3, <2>4
  <2> QED BY <1>4, <2>1, <2>2, <2>5
<1>8. Footage!Total(D \ gone) <= FootageGiven.MaxBytes
  BY <1>3, <1>6
<1> QED BY <1>7, <1>8 DEF Footage!EvictStep
================================================================================
