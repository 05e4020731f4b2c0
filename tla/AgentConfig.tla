----------------------------- MODULE AgentConfig -----------------------------
(***************************************************************************)
(* The agent page: the prompt is in a ConfigMap, the endpoint and its type *)
(* in the environment of the agent's Deployment (lib/agent-config.ts,      *)
(* lib/agent-config-write.ts, app/api/agent-config, app/agent/page.tsx).   *)
(* A save sends what differs from the answer the page knows, and the route *)
(* writes the document, the environment and a restart, in that order.      *)
(*                                                                         *)
(* An entry of the environment is [name, kind, value]: a plain value, a    *)
(* reference to a Secret, or neither ("empty").  "alone" is no state of    *)
(* the code: nothing else wrote since the request began.                   *)
(***************************************************************************)
EXTENDS Integers, FiniteSets

CONSTANTS
  Users,    \* browsers with the page open
  MaxTurns  \* bound: edits, saves and redeployments

VARIABLES
  cluster, \* [prompt, temperature, version, env]
  runs,    \* what the agent's pod was started with: [prompt, temperature, env]
  form,    \* user -> [there, data, draft, key]
  req,     \* user -> [step, body, version, env, alone]
  turns

vars == <<cluster, runs, form, req, turns>>

--------------------------------------------------------------------------------
Types   == {"nim", "openai"}
Urls    == {"nvidia", "claude"}
Draft   == [prompt : {"stock", "edited"}, url : Urls, type : Types]
Presets == {[url |-> "nvidia", type |-> "nim"], [url |-> "claude", type |-> "openai"]}
Same    == "same"
NoBody  == [prompt |-> Same, url |-> Same, type |-> Same]

Plain(n, v) == [name |-> n, kind |-> "plain", value |-> v]
Ref(n)      == [name |-> n, kind |-> "ref", value |-> "secret"]
Empty(n)    == [name |-> n, kind |-> "empty", value |-> "none"]
Named(env, n) == {e \in env : e.name = n}
ValueOf(env, n, default) ==
  IF \E e \in env : e.name = n /\ e.kind = "plain"
  THEN (CHOOSE e \in env : e.name = n /\ e.kind = "plain").value ELSE default

(* isHostedClaudeBaseUrl, of the url in the request.                       *)
HostedClaude(url) == url = "claude"
Strips(body) == body.type = "openai" /\ HostedClaude(body.url)

(* collectAgentBehavior.                                                   *)
Behavior == [prompt |-> cluster.prompt, url |-> ValueOf(cluster.env, "LLM_BASE_URL", "nvidia"),
             type |-> ValueOf(cluster.env, "LLM_MODEL_TYPE", "nim")]

(* readAgentApiKey: the key of the endpoint first, then the other.         *)
Has(env, n) == \E e \in env : e.name = n /\ e.kind \in {"plain", "ref"}
NvidiaFirst(env, url) == \* (variant) one order for both endpoints
  IF Has(env, "NVIDIA_API_KEY") THEN "NVIDIA_API_KEY"
  ELSE IF Has(env, "OPENAI_API_KEY") THEN "OPENAI_API_KEY" ELSE "none"
ProbeKey(env, url) ==
  LET first  == IF HostedClaude(url) THEN "OPENAI_API_KEY" ELSE "NVIDIA_API_KEY"
      second == IF HostedClaude(url) THEN "NVIDIA_API_KEY" ELSE "OPENAI_API_KEY"
  IN IF Has(env, first) THEN first ELSE IF Has(env, second) THEN second ELSE "none"

(* patchAgentDeploymentEnv: plain values by name, references as they are,  *)
(* and the key for an OpenAI endpoint only as a reference.                 *)
PlainOnly(env, body) == \* (variant) what is no plain value is left out
  {e \in env : e.kind = "plain" /\ e.name \notin {"LLM_BASE_URL", "LLM_MODEL_TYPE"}}
KeyStays(env, body) == \* (variant) the plain copy of the key is kept beside the reference
  {e \in env : e.kind # "empty" /\ ~(e.name = "LLM_BASE_URL" /\ body.url # Same)
                                /\ ~(e.name = "LLM_MODEL_TYPE" /\ body.type # Same)}
Others(env, body) ==
  {e \in env : e.kind # "empty" /\ ~(e.name = "LLM_BASE_URL" /\ body.url # Same)
                                /\ ~(e.name = "LLM_MODEL_TYPE" /\ body.type # Same)
                                /\ ~(e.name = "OPENAI_API_KEY" /\ body.type = "openai")}
PatchedEnv(env, body) ==
  Others(env, body)
    \union (IF body.url = Same THEN {} ELSE {Plain("LLM_BASE_URL", body.url)})
    \union (IF body.type = Same THEN {} ELSE {Plain("LLM_MODEL_TYPE", body.type)})
    \union (IF body.type = "openai" THEN {Ref("OPENAI_API_KEY")} ELSE {})

--------------------------------------------------------------------------------
Started == [prompt |-> cluster.prompt, temperature |-> cluster.temperature, env |-> cluster.env]
NoForm  == [there |-> FALSE, data |-> [prompt |-> "stock", url |-> "nvidia", type |-> "nim"],
            draft |-> [prompt |-> "stock", url |-> "nvidia", type |-> "nim"], key |-> "none"]
NoReq   == [step |-> "none", body |-> NoBody, version |-> 0, env |-> {}, alone |-> FALSE]
Turn    == turns < MaxTurns /\ turns' = turns + 1
Dirty(u) == form[u].there /\ form[u].draft # form[u].data

Envs == {{Plain("LLM_BASE_URL", "nvidia"), Ref("NVIDIA_API_KEY"), Plain("OPENAI_API_KEY", "typed"), Empty("OTHER")},
         {Plain("NVIDIA_API_KEY", "typed"), Plain("OTHER", "set")}}

Init ==
  /\ \E env \in Envs :
       cluster = [prompt |-> "stock", temperature |-> TRUE, version |-> 0, env |-> env]
  /\ runs = Started
  /\ form = [u \in Users |-> NoForm]
  /\ req = [u \in Users |-> NoReq]
  /\ turns = 0

(* GET, with the probe of the endpoint; the first answer is copied.        *)
Load(u) ==
  /\ form' = [form EXCEPT ![u] =
       [there |-> TRUE, data |-> Behavior, key |-> ProbeKey(cluster.env, Behavior.url),
        draft |-> IF form[u].there THEN form[u].draft ELSE Behavior]]
  /\ UNCHANGED <<cluster, runs, req, turns>>

Edit(u, prompt) ==
  /\ form[u].there /\ form[u].draft.prompt # prompt /\ Turn
  /\ form' = [form EXCEPT ![u].draft.prompt = prompt]
  /\ UNCHANGED <<cluster, runs, req>>
(* A preset sets endpoint and type together, "custom" opens them one by    *)
(* one.                                                                    *)
Pick(u, p) ==
  /\ form[u].there /\ Turn
  /\ form' = [form EXCEPT ![u].draft.url = p.url, ![u].draft.type = p.type]
  /\ UNCHANGED <<cluster, runs, req>>
Custom(u) ==
  /\ form[u].there /\ Turn
  /\ \/ \E url \in Urls : form' = [form EXCEPT ![u].draft.url = url]
     \/ \E type \in Types : form' = [form EXCEPT ![u].draft.type = type]
  /\ UNCHANGED <<cluster, runs, req>>

(* doSave: only the fields that differ from the known answer are sent.     *)
Differ(u) ==
  LET d == form[u].draft
      k == form[u].data
  IN [prompt |-> IF d.prompt = k.prompt THEN Same ELSE d.prompt,
      url |-> IF d.url = k.url THEN Same ELSE d.url, type |-> IF d.type = k.type THEN Same ELSE d.type]
Crowded == [v \in Users |-> [req[v] EXCEPT !.alone = FALSE]]
Save(u) ==
  /\ Dirty(u) /\ req[u].step = "none" /\ Turn
  /\ req' = [Crowded EXCEPT ![u] = [step |-> "read document", body |-> Differ(u), version |-> 0,
                                    env |-> {}, alone |-> \A v \in Users : req[v].step = "none"]]
  /\ UNCHANGED <<cluster, runs, form>>

(* patchAgentWorkflowConfig: nothing to do, or a read and a write under    *)
(* the version read.                                                       *)
Stripless(u) == \* (variant) the temperature is not taken out
  [prompt |-> IF req[u].body.prompt = Same THEN cluster.prompt ELSE req[u].body.prompt,
   temperature |-> cluster.temperature]
Document(u) ==
  [prompt |-> IF req[u].body.prompt = Same THEN cluster.prompt ELSE req[u].body.prompt,
   temperature |-> cluster.temperature /\ ~Strips(req[u].body)]
ReadDocument(u) ==
  /\ req[u].step = "read document"
  /\ req' = [req EXCEPT ![u].version = cluster.version,
       ![u].step = IF req[u].body.prompt = Same /\ ~Strips(req[u].body) THEN "read env" ELSE "write document"]
  /\ UNCHANGED <<cluster, runs, form, turns>>
Unversioned(u) == \* (variant) the version is not sent
  TRUE
Matches(u) == req[u].version = cluster.version
WriteDocument(u) ==
  /\ req[u].step = "write document" /\ Matches(u)
  /\ cluster' = [cluster EXCEPT !.prompt = Document(u).prompt, !.temperature = Document(u).temperature,
                                !.version = @ + 1]
  /\ req' = [req EXCEPT ![u].step = "read env"]
  /\ UNCHANGED <<runs, form, turns>>

ReadEnv(u) ==
  /\ req[u].step = "read env"
  /\ req' = [req EXCEPT ![u].env = cluster.env,
       ![u].step = IF req[u].body.url = Same /\ req[u].body.type = Same THEN "restart" ELSE "write env"]
  /\ UNCHANGED <<cluster, runs, form, turns>>
(* The whole list is replaced, and a changed template starts the pods anew. *)
WriteEnv(u) ==
  /\ req[u].step = "write env"
  /\ cluster' = [cluster EXCEPT !.env = PatchedEnv(req[u].env, req[u].body)]
  /\ runs' = IF cluster'.env = cluster.env THEN runs ELSE [Started EXCEPT !.env = cluster'.env]
  /\ req' = [req EXCEPT ![u].step = "restart"]
  /\ UNCHANGED <<form, turns>>

EnvOnly(u) == \* (variant) pods start anew only with their environment
  IF req[u].body.url = Same /\ req[u].body.type = Same THEN runs ELSE Started
Restarted(u) == Started
Restart(u) ==
  /\ req[u].step = "restart"
  /\ runs' = Restarted(u)
  /\ req' = [req EXCEPT ![u] = NoReq]
  /\ form' = [form EXCEPT ![u].data = Behavior]
  /\ UNCHANGED <<cluster, turns>>
(* Any call fails: what was written stays, the draft too.                  *)
Fail(u) ==
  /\ req[u].step # "none"
  /\ req' = [req EXCEPT ![u] = NoReq]
  /\ UNCHANGED <<cluster, runs, form, turns>>

(* A Helm upgrade re-asserts the prompt and the endpoint.                  *)
Redeploy ==
  /\ Turn
  /\ cluster' = [cluster EXCEPT !.prompt = "stock", !.temperature = TRUE, !.version = @ + 1,
                                !.env = {e \in @ : e.name # "LLM_BASE_URL"} \union {Plain("LLM_BASE_URL", "nvidia")}]
  /\ runs' = [prompt |-> "stock", temperature |-> TRUE, env |-> cluster'.env]
  /\ req' = Crowded
  /\ UNCHANGED form

Next ==
  \/ \E u \in Users :
       \/ Load(u) \/ Custom(u) \/ Save(u) \/ ReadDocument(u) \/ WriteDocument(u) \/ ReadEnv(u)
       \/ WriteEnv(u) \/ Restart(u) \/ Fail(u)
       \/ \E prompt \in {"stock", "edited"} : Edit(u, prompt)
       \/ \E p \in Presets : Pick(u, p)
  \/ Redeploy

Spec == Init /\ [][Next]_vars

--------------------------------------------------------------------------------
TypeOK ==
  /\ turns \in 0 .. MaxTurns /\ cluster.prompt \in {"stock", "edited"}
  /\ \A u \in Users : form[u].draft \in Draft /\ form[u].data \in Draft
  /\ \A e \in cluster.env : e.kind \in {"plain", "ref", "empty"}

(* agent-config-write.ts: no name is twice in the environment, whatever    *)
(* was written before, by whom and in which order.                         *)
EnvNamedOnce == \A e \in cluster.env : Cardinality(Named(cluster.env, e.name)) = 1

(* agent-config-write.ts: a save that ran alone takes nothing else out of  *)
(* the environment; and no save writes a document it has not read.         *)
WriteStep ==
  \A u \in Users :
    /\ req[u].step = "write env" /\ req'[u].step = "restart" /\ req[u].alone =>
         \A e \in cluster.env : e.kind # "empty" /\ e.name \in {"NVIDIA_API_KEY", "OTHER"} => e \in cluster'.env
    /\ req[u].step = "write document" /\ req'[u].step = "read env" => req[u].version = cluster.version
OthersStay == [][WriteStep]_vars

(* api/agent-config: after a save that ran alone and is answered, the pod  *)
(* runs what is stored, and what was sent is stored; for Claude that means *)
(* no temperature, and the key as a reference.                             *)
Answered(u) == req[u].step = "restart" /\ req'[u].step = "none" /\ form'[u] = [form[u] EXCEPT !.data = Behavior]
AnswerStep ==
  \A u \in Users : Answered(u) /\ req[u].alone /\ form'[u] # form[u] =>
    /\ runs' = Started
    /\ req[u].body.prompt \in {Same, cluster.prompt}
    /\ req[u].body.url \in {Same, Behavior.url} /\ req[u].body.type \in {Same, Behavior.type}
    /\ Strips(req[u].body) => ~runs'.temperature /\ Ref("OPENAI_API_KEY") \in runs'.env
SaveArrives == [][AnswerStep]_vars

(* api/agent-config: the probe uses the endpoint's own key where there is  *)
(* one.                                                                    *)
ProbeStep ==
  \A u \in Users : form'[u].key # form[u].key =>
    (HostedClaude(Behavior.url) /\ Has(cluster.env, "OPENAI_API_KEY") => form'[u].key = "OPENAI_API_KEY")
ProbesAsTheAgent == [][ProbeStep]_vars
================================================================================
