--------------------------- MODULE SecretsProfiles ---------------------------
(***************************************************************************)
(* Two routes that carry one request over several objects.  A rotation     *)
(* writes a Secret, restarts its readers one by one and then notes that it *)
(* happened (api/secrets/[key]); a profile is applied part by part, and a  *)
(* part that fails becomes a warning (api/profiles/[name]).  What happened *)
(* is noted in the console's SQLite file (lib/db.ts), which a crash of the *)
(* console leaves as it is; requests are lost.  The console restarts       *)
(* itself when its own password is rotated.                                *)
(*                                                                         *)
(* A value is the number of the request that brought it, 0 at the start.   *)
(***************************************************************************)
EXTENDS Integers, Sequences, FiniteSets

CONSTANTS
  Users,    \* requests that can run at a time
  MaxTurns  \* bound: requests, outages and switches of the box

VARIABLES
  view,   \* what is in use: "secrets" or "profiles"
  store,  \* field of a Secret -> value
  pods,   \* workload -> value of its field when it started
  db,     \* [rotated, audit, profiles]
  live,   \* part of a profile -> profile in force
  req,    \* user -> [step, key, value, todo, warned, alone]
  world   \* [paused, turns, deaths]

vars == <<view, store, pods, db, live, req, world>>

--------------------------------------------------------------------------------
(* SECRET_REGISTRY, in the Helm layout: two keys of the page are one field. *)
Keys   == {"ngc", "nvidia", "password"}
Fields == {"ngc-api", "console-auth"}
FieldOf(key) == IF key = "password" THEN "console-auth" ELSE "ngc-api"
Targets(key) == CASE key = "ngc" -> {"llm", "vlm"} [] key = "nvidia" -> {"vlm"} [] OTHER -> {"console"}
Workloads == {"llm", "vlm", "console"}
Reads(w)  == IF w = "console" THEN "console-auth" ELSE "ngc-api"

(* The parts a profile sets, in the order they are applied; model follows  *)
(* prompt within one attempt.                                              *)
Parts    == <<"scenarios", "prompt", "model", "tuning", "alerts">>
PartSet  == {Parts[i] : i \in DOMAIN Parts}
Index(p) == CHOOSE i \in DOMAIN Parts : Parts[i] = p
Names    == {"scene", "scene-copy"}

NoReq == [step |-> "none", key |-> "none", value |-> 0, todo |-> {}, warned |-> {}, alone |-> FALSE]
Idle(u) == req[u].step = "none"
Crowded == [v \in Users |-> [req[v] EXCEPT !.alone = FALSE]]
May  == world.turns < MaxTurns
Turn == May /\ world' = [world EXCEPT !.turns = @ + 1]
Number == world.turns + 1

Init ==
  /\ view \in {"secrets", "profiles"}
  /\ store = [f \in Fields |-> 0]
  /\ pods = [w \in Workloads |-> 0]
  /\ db = [rotated |-> [k \in Keys |-> 0], audit |-> {}, profiles |-> [n \in Names |-> IF n = "scene" THEN 1 ELSE 0]]
  /\ live = [p \in PartSet |-> 0]
  /\ req = [u \in Users |-> NoReq]
  /\ world = [paused |-> FALSE, turns |-> 1, deaths |-> 0]

--------------------------------------------------------------------------------
(* PATCH api/secrets/[key].                                                *)
Rotate(u, key) ==
  /\ view = "secrets" /\ Idle(u) /\ Turn
  /\ req' = [Crowded EXCEPT ![u] = [step |-> "write", key |-> key, value |-> Number, todo |-> Targets(key),
                                    warned |-> {}, alone |-> \A v \in Users : Idle(v)]]
  /\ UNCHANGED <<view, store, pods, db, live>>
WriteSecret(u) ==
  /\ req[u].step = "write"
  /\ \/ /\ store' = [store EXCEPT ![FieldOf(req[u].key)] = req[u].value]
        /\ req' = [req EXCEPT ![u].step = "restart"]
     \/ req' = [req EXCEPT ![u] = NoReq] /\ UNCHANGED store
  /\ UNCHANGED <<view, pods, db, live, world>>

(* Every target is tried; the box may hold it back, or the call may fail.  *)
NoWarning(u, w) == \* (variant) a target that is held back is not named
  req[u].warned
Warning(u, w) == req[u].warned \union {w}
RestartReader(u, w) ==
  /\ req[u].step = "restart" /\ w \in req[u].todo
  /\ \/ /\ ~(world.paused /\ w # "console")
        /\ pods' = [pods EXCEPT ![w] = store[Reads(w)]]
        /\ req' = [req EXCEPT ![u].todo = @ \ {w}]
     \/ /\ req' = [req EXCEPT ![u].todo = @ \ {w}, ![u].warned = Warning(u, w)]
        /\ UNCHANGED pods
  /\ UNCHANGED <<view, store, db, live, world>>
CleanOnly(u) == \* (variant) a rotation with a warning is not noted
  IF req[u].warned # {} THEN db
  ELSE [db EXCEPT !.rotated[req[u].key] = req[u].value, !.audit = @ \union {req[u].value}]
Noted(u) == [db EXCEPT !.rotated[req[u].key] = req[u].value, !.audit = @ \union {req[u].value}]
Note(u) ==
  /\ req[u].step = "restart" /\ req[u].todo = {}
  /\ db' = Noted(u)
  /\ req' = [req EXCEPT ![u].step = "answer"]
  /\ UNCHANGED <<view, store, pods, live, world>>
Answer(u) ==
  /\ req[u].step = "answer"
  /\ req' = [req EXCEPT ![u] = NoReq]
  /\ UNCHANGED <<view, store, pods, db, live, world>>

(* The console goes down, the requests with it; its pods start with what   *)
(* the Secret holds.                                                       *)
Die ==
  /\ May
  /\ world' = [world EXCEPT !.turns = @ + 1, !.deaths = @ + 1]
  /\ req' = [u \in Users |-> NoReq]
  /\ pods' = [pods EXCEPT !["console"] = store["console-auth"]]
  /\ UNCHANGED <<view, store, db, live>>
(* The switch scales the model servers away and brings them back.          *)
Switch ==
  /\ May
  /\ world' = [world EXCEPT !.turns = @ + 1, !.paused = ~@]
  /\ pods' = IF world.paused THEN [w \in Workloads |-> IF w = "console" THEN pods[w] ELSE store[Reads(w)]] ELSE pods
  /\ UNCHANGED <<view, store, db, live, req>>

--------------------------------------------------------------------------------
(* Profiles: saving replaces what has the name, a copy too.                *)
SaveProfile(n) ==
  /\ view = "profiles" /\ Turn
  /\ db' = [db EXCEPT !.profiles[n] = Number]
  /\ UNCHANGED <<view, store, pods, live, req>>
Duplicate ==
  /\ view = "profiles" /\ db.profiles["scene"] # 0 /\ Turn
  /\ db' = [db EXCEPT !.profiles["scene-copy"] = db.profiles["scene"]]
  /\ UNCHANGED <<view, store, pods, live, req>>
Delete(n) ==
  /\ view = "profiles" /\ db.profiles[n] # 0 /\ Turn
  /\ db' = [db EXCEPT !.profiles[n] = 0]
  /\ UNCHANGED <<view, store, pods, live, req>>

(* The dialog shows the profile as it was fetched; PUT api/profiles/[name] *)
(* loads it again by its name, refuses the whole while the box is away,    *)
(* and goes on part after part.                                            *)
Open(u, n) ==
  /\ view = "profiles" /\ Idle(u) /\ db.profiles[n] # 0 /\ Turn
  /\ req' = [req EXCEPT ![u] = [NoReq EXCEPT !.step = "dialog", !.key = n, !.value = db.profiles[n]]]
  /\ UNCHANGED <<view, store, pods, db, live>>
Unasked == \* (variant) the box is not asked up front
  TRUE
BoxIsHere == ~world.paused
Confirm(u) ==
  /\ req[u].step = "dialog"
  /\ LET n == req[u].key IN
       \/ /\ db.profiles[n] # 0 /\ BoxIsHere
          /\ req' = [Crowded EXCEPT ![u] = [step |-> "apply", key |-> n, value |-> db.profiles[n], todo |-> PartSet, warned |-> {},
                                            alone |-> \A v \in Users \ {u} : req[v].step \in {"none", "dialog"}]]
       \/ req' = [req EXCEPT ![u] = NoReq]
  /\ UNCHANGED <<view, store, pods, db, live, world>>
NextPart(u) == CHOOSE p \in req[u].todo : \A q \in req[u].todo : Index(p) <= Index(q)
Attempt(p)  == IF p = "prompt" THEN {"prompt", "model"} ELSE {p}
FailsQuietly(u, p) == \* (variant) a part that fails is left out of the answer
  req[u].warned
Failed(u, p) == req[u].warned \union Attempt(p)
ApplyPart(u) ==
  /\ req[u].step = "apply" /\ req[u].todo # {}
  /\ LET p == NextPart(u) IN
       \/ /\ ~(world.paused /\ p \in {"prompt", "model"})
          /\ live' = [live EXCEPT ![p] = req[u].value]
          /\ req' = [req EXCEPT ![u].todo = @ \ {p}]
       \/ /\ req' = [req EXCEPT ![u].todo = @ \ Attempt(p), ![u].warned = Failed(u, p)]
          /\ UNCHANGED live
  /\ UNCHANGED <<view, store, pods, db, world>>
Applied(u) ==
  /\ req[u].step = "apply" /\ req[u].todo = {}
  /\ db' = [db EXCEPT !.audit = @ \union {req[u].value}]
  /\ req' = [req EXCEPT ![u].step = "answer"]
  /\ UNCHANGED <<view, store, pods, live, world>>

Next ==
  \/ \E u \in Users :
       \/ WriteSecret(u) \/ Note(u) \/ Answer(u) \/ Confirm(u) \/ ApplyPart(u) \/ Applied(u)
       \/ \E key \in Keys : Rotate(u, key)
       \/ \E w \in Workloads : RestartReader(u, w)
       \/ \E n \in Names : Open(u, n)
  \/ Die \/ Switch \/ Duplicate
  \/ \E n \in Names : SaveProfile(n) \/ Delete(n)

Spec == Init /\ [][Next]_vars

--------------------------------------------------------------------------------
TypeOK ==
  /\ view \in {"secrets", "profiles"} /\ world.turns \in 1 .. MaxTurns
  /\ \A f \in Fields : store[f] \in 0 .. MaxTurns
  /\ \A u \in Users : req[u].step \in {"none", "dialog", "write", "restart", "apply", "answer"}

(* api/secrets/[key]: when a rotation that ran alone is answered, each of  *)
(* its targets runs with the new value or is named in the warnings.        *)
ReadersFollow ==
  \A u \in Users : req[u].step = "answer" /\ req[u].alone /\ req[u].key \in Keys =>
    \A w \in Targets(req[u].key) : pods[w] = store[Reads(w)] \/ w \in req[u].warned

(* A value that is in the Secret was noted, is about to be, or was cut off *)
(* by a death of the console.                                              *)
Unnoted == {f \in Fields : store[f] # 0 /\ store[f] \notin db.audit
                           /\ \A u \in Users : req[u].value # store[f]}
RotationsAreNoted == Unnoted # {} => world.deaths > 0

(* api/profiles/[name]: a profile that was applied alone is in force part  *)
(* by part, or the answer names the part.                                  *)
HalvesAreNamed ==
  \A u \in Users : req[u].step = "answer" /\ req[u].alone /\ req[u].key \in Names =>
    \A p \in PartSet : live[p] = req[u].value \/ p \in req[u].warned

(* Applying begins only while the box is here.                             *)
BeginStep == \A u \in Users : req[u].step = "dialog" /\ req'[u].step = "apply" => ~world.paused
NothingWhileAway == [][BeginStep]_vars
================================================================================
