--------------------------- MODULE ScenarioReconcile ---------------------------
(***************************************************************************)
(* Alert scenarios: the list in the config store, the ConfigMap key it is  *)
(* serialised into, and the alert worker, which reads the key when it      *)
(* starts.  The reconcile loop, the scenarios route and the cooldown route *)
(* each patch the key and then restart the worker.                         *)
(*                                                                         *)
(* The store stamps every entry it writes with who wrote it and when, and  *)
(* reads the stamps back; the routes serialise what the client sent, or    *)
(* what they had read before.  A payload is therefore a list and a stamp,  *)
(* 0 for none.                                                             *)
(***************************************************************************)
EXTENDS Naturals

CONSTANTS
  Rules,       \* what a list says apart from its cooldown
  Cooldowns,   \* the cooldown_seconds of its entries
  Requests,    \* requests that may be served at a time
  Loops,       \* reconcile loops: the console's, the agent pod's
  NoPayload,   \* a key that is not there, or could not be read
  MaxSaves,    \* bound: saves, each with a stamp of its own
  MaxFaults    \* bound: failed calls and lost processes

VARIABLES
  stored,   \* the store's list and its stamp
  live,     \* the ConfigMap's key
  worker,   \* the payload the alert worker runs
  task,     \* what each request and each loop is doing
  saves, faults

vars == <<stored, live, worker, task, saves, faults>>

Actors   == Requests \union Loops
Payloads == [rules : Rules, cooldown : Cooldowns, stamp : 0 .. MaxSaves]
Keys     == Payloads \union {NoPayload}

(* A task: its next step, the payload it wants and the one it has seen.    *)
Idle  == [step |-> "idle", want |-> NoPayload, seen |-> NoPayload]
Tasks == [step : {"idle", "cooldown", "read", "compare", "restart"}, want : Keys, seen : Keys]

(* Every variable keeps the type of what it models, and what is to be      *)
(* patched is a payload.                                                   *)
TypeOK ==
  /\ stored \in Payloads /\ live \in Keys /\ worker \in Keys
  /\ task \in [Actors -> Tasks]
  /\ \A a \in Actors : task[a].step # "idle" => task[a].want \in Payloads
  /\ saves \in 0 .. MaxSaves /\ faults \in 0 .. MaxFaults

Init == /\ stored \in [rules : Rules, cooldown : Cooldowns, stamp : {0}]
        /\ live = NoPayload /\ worker = NoPayload
        /\ task = [a \in Actors |-> Idle]
        /\ saves = 0 /\ faults = 0

--------------------------------------------------------------------------------

At(a, step)     == task[a].step = step
Goes(a, t)      == task' = [task EXCEPT ![a] = t]
Wants(p)        == [step |-> "read", want |-> p, seen |-> NoPayload]
Saved(p)        == /\ saves < MaxSaves /\ saves' = saves + 1
                   /\ stored' = [p EXCEPT !.stamp = saves + 1]

(* The scenarios route: the client's list, without stamps.                 *)
Save(r, p) ==
  /\ At(r, "idle") /\ Saved(p) /\ Goes(r, Wants(p))
  /\ UNCHANGED <<live, worker, faults>>

(* The cooldown route: read, change, write, two calls of the store.        *)
ReadForCooldown(r) ==
  /\ At(r, "idle") /\ saves < MaxSaves
  /\ Goes(r, [Idle EXCEPT !.step = "cooldown", !.want = stored])
  /\ UNCHANGED <<stored, live, worker, saves, faults>>

WriteCooldown(r, c) ==
  /\ At(r, "cooldown")
  /\ LET p == [task[r].want EXCEPT !.cooldown = c]
     IN  Saved(p) /\ Goes(r, Wants(p))
  /\ UNCHANGED <<live, worker, faults>>

BeginPassFrom(l, p) == /\ At(l, "idle") /\ Goes(l, Wants(p))
                       /\ UNCHANGED <<stored, live, worker, saves, faults>>
BeginPassLive(l) == \* (variant) what is live already is left as it is
  BeginPassFrom(l, IF live = NoPayload THEN stored ELSE live)

(* A pass of a loop: the stored list, with its stamps.                     *)
BeginPass(l) == BeginPassFrom(l, stored)

(* A key that cannot be read counts as one that is not there.              *)
ReadKey(a) ==
  /\ At(a, "read")
  /\ \/ Goes(a, [task[a] EXCEPT !.step = "compare", !.seen = live]) /\ UNCHANGED faults
     \/ /\ faults < MaxFaults /\ faults' = faults + 1
        /\ Goes(a, [task[a] EXCEPT !.step = "compare", !.seen = NoPayload])
  /\ UNCHANGED <<stored, live, worker, saves>>

Patch(a, p) ==
  /\ At(a, "compare")
  /\ IF task[a].seen = task[a].want
     THEN Goes(a, Idle) /\ UNCHANGED live
     ELSE Goes(a, [task[a] EXCEPT !.step = "restart"]) /\ live' = p
  /\ UNCHANGED <<stored, worker, saves, faults>>
PatchBare(a) == \* (variant) the stamps are compared and not written
  Patch(a, [task[a].want EXCEPT !.stamp = 0])

(* Nothing is patched when the key is what it should be.                   *)
PatchIfDifferent(a) == Patch(a, task[a].want)

(* The worker starts and reads the key as it is by then.                   *)
RestartWorker(a) ==
  /\ At(a, "restart") /\ Goes(a, Idle)
  /\ worker' = live
  /\ UNCHANGED <<stored, live, saves, faults>>

(* A call fails, or the process is lost between two calls.                 *)
Fail(a) ==
  /\ ~At(a, "idle") /\ faults < MaxFaults /\ faults' = faults + 1
  /\ Goes(a, Idle)
  /\ UNCHANGED <<stored, live, worker, saves>>

(* A cooldown save beyond the bound of saves is not followed further.      *)
Abandon(r) ==
  /\ At(r, "cooldown") /\ saves = MaxSaves /\ Goes(r, Idle)
  /\ UNCHANGED <<stored, live, worker, saves, faults>>

Proceed(a) == ReadKey(a) \/ PatchIfDifferent(a) \/ RestartWorker(a)
Serve(r)   == \/ \E p \in [rules : Rules, cooldown : Cooldowns, stamp : {0}] : Save(r, p)
              \/ ReadForCooldown(r) \/ Abandon(r)
              \/ \E c \in Cooldowns : WriteCooldown(r, c)

Next == \/ \E r \in Requests : Serve(r)
        \/ \E l \in Loops : BeginPass(l)
        \/ \E a \in Actors : Proceed(a) \/ Fail(a)

Spec == Init /\ [][Next]_vars

(* A call returns or fails, and the interval fires again and again.        *)
Fairness == /\ \A a \in Actors : WF_vars(Proceed(a))
            /\ \A l \in Loops : WF_vars(BeginPass(l))
FairSpec == Spec /\ Fairness

--------------------------------------------------------------------------------
(* Whichever of the overlapping requests and passes patched last, the      *)
(* ConfigMap ends up with the list the store holds.                        *)
StoredGoesLive == <>[](live = stored)

(* The alert worker is not restarted for ever: once the ConfigMap holds    *)
(* the stored list a pass finds nothing to do, although the loop and the   *)
(* routes serialise the same list differently.                             *)
RestartsSettle == <>[](\A a \in Actors : ~At(a, "restart"))

(* The worker ends up running the list that is live, stamps aside.         *)
ListOf(k) == IF k = NoPayload THEN k ELSE [rules |-> k.rules, cooldown |-> k.cooldown]
WorkerRunsLive == <>[](ListOf(worker) = ListOf(live))
================================================================================
