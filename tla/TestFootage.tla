------------------------------ MODULE TestFootage ------------------------------
(***************************************************************************)
(* A test-footage run may pause the analysis of the live cameras: it marks *)
(* them in the rules ConfigMap, takes the stream reconciler (a controller  *)
(* of its own, which seeds a rule for every camera its copy of that        *)
(* document does not mark) down, deletes their rules, brings the           *)
(* reconciler back and looks again.  Stopping a run clears the mark and    *)
(* leaves the rest to the reconciler.                                      *)
(*                                                                         *)
(* The ConfigMap is patched under the resource version it was read at, so  *)
(* reading and patching it is one step or fails.  The test camera itself   *)
(* touches nothing the live ones share and is left out.                    *)
(***************************************************************************)
EXTENDS Naturals, FiniteSets

CONSTANTS
  Cams,       \* the live cameras, each with a spec in the ConfigMap
  Runs,       \* requests that start or stop a run, each served once (a bound)
  MaxFaults   \* bound: failed or hanging calls and lost processes

VARIABLES
  paused,     \* paused_sensors of the ConfigMap
  rules,      \* cameras with a live rule, that is, being analysed
  replicas,   \* of the reconciler's Deployment: 0 or 1
  rolling,    \* whether a restart of it has been asked for
  pods,       \* its pods: what each holds for paused, and if it is to end
  run,        \* what each request is doing
  stranded,   \* history: a request ended before it brought the reconciler back
  mishaps     \* faults so far

vars == <<paused, rules, replicas, rolling, pods, run, stranded, mishaps>>
cluster == <<rules, replicas, rolling, pods>>

(* A run: its next step, the cameras it is to pause and those it has yet   *)
(* to suspend, the replicas it found (2 stands for a read that failed),    *)
(* whether it warned; and, a history, whether another request has since    *)
(* changed the mark under it.                                              *)
Steps == {"idle", "mark", "restart", "rollout", "quiesce", "gone", "suspend", "restore", "verify",
          "register", "running", "clear", "reload", "over"}
RunStates == [step : Steps, list : SUBSET Cams, todo : SUBSET Cams, found : 0 .. 2,
              warned : BOOLEAN, cut : BOOLEAN]
NoRun == [step |-> "idle", list |-> {}, todo |-> {}, found |-> 2, warned |-> FALSE, cut |-> FALSE]
Over  == [NoRun EXCEPT !.step = "over"]

(* Every variable keeps the type of what it models, and a run has still to *)
(* suspend only what it is to pause.                                       *)
TypeOK ==
  /\ paused \subseteq Cams /\ rules \subseteq Cams
  /\ replicas \in {0, 1} /\ rolling \in BOOLEAN
  /\ pods \subseteq [view : SUBSET Cams, ending : BOOLEAN]
  /\ run \in [Runs -> RunStates]
  /\ \A r \in Runs : run[r].todo \subseteq run[r].list
  /\ stranded \in BOOLEAN /\ mishaps \in 0 .. MaxFaults

Init == /\ paused = {} /\ rules = Cams
        /\ replicas = 1 /\ rolling = FALSE
        /\ pods = {[view |-> {}, ending |-> FALSE]}
        /\ run = [r \in Runs |-> NoRun]
        /\ stranded = FALSE /\ mishaps = 0

--------------------------------------------------------------------------------
(* Kubernetes and the reconciler.                                          *)

Rest == <<paused, run, stranded, mishaps>>
Current == {p \in pods : ~p.ending}
Ended(ps) == {[p EXCEPT !.ending = TRUE] : p \in ps}

(* A pod that starts reads the document as it is; the pod it replaces, and *)
(* every pod when there are to be none, goes on until its grace is over.   *)
StartPod ==
  /\ replicas = 1 /\ (rolling \/ Current = {})
  /\ pods' = Ended(pods) \union {[view |-> paused, ending |-> FALSE]}
  /\ rolling' = FALSE
  /\ UNCHANGED <<rules, replicas, Rest>>

ScaleDown ==
  /\ replicas = 0 /\ Current # {}
  /\ pods' = Ended(pods)
  /\ UNCHANGED <<rules, replicas, rolling, Rest>>

PodEnds(p) ==
  /\ p.ending /\ pods' = pods \ {p}
  /\ UNCHANGED <<rules, replicas, rolling, Rest>>

(* The mount follows the ConfigMap a minute later.                         *)
Refresh(p) ==
  /\ p.view # paused
  /\ pods' = (pods \ {p}) \union {[p EXCEPT !.view = paused]}
  /\ UNCHANGED <<rules, replicas, rolling, Rest>>

SeedRules(p) ==
  /\ rules' = rules \union (Cams \ p.view)
  /\ UNCHANGED <<replicas, rolling, pods, Rest>>

--------------------------------------------------------------------------------
(* startRun with pauseLive.                                                *)

At(r, step)  == run[r].step = step
Goes(r, j)   == run' = [run EXCEPT ![r] = j]
Step(r, s)   == Goes(r, [run[r] EXCEPT !.step = s])
Warns(r, s)  == Goes(r, [run[r] EXCEPT !.step = s, !.warned = TRUE])
Fault        == mishaps < MaxFaults /\ mishaps' = mishaps + 1
Sound        == UNCHANGED mishaps

(* desiredLiveCameras: those analysed now and those specified.  When the   *)
(* ConfigMap cannot be read the latter are silently none.                  *)
Start(r) ==
  /\ At(r, "idle")
  /\ \/ Sound /\ Goes(r, [NoRun EXCEPT !.step = "mark", !.list = Cams])
     \/ Fault /\ Goes(r, [NoRun EXCEPT !.step = "mark", !.list = rules])
  /\ UNCHANGED <<paused, cluster, stranded>>

(* setPausedSensors replaces the whole mark.                               *)
Marks(r, marked, next) ==
  /\ paused' = marked
  /\ run' = [q \in Runs |->
       IF q = r THEN [run[q] EXCEPT !.step = next]
       ELSE [run[q] EXCEPT !.cut = @ \/ ~(run[q].list \subseteq marked)]]
MarkFails(r, next) == Fault /\ Warns(r, next) /\ UNCHANGED paused

Mark(r) ==
  /\ At(r, "mark")
  /\ \/ Sound /\ Marks(r, run[r].list, "restart")
     \/ MarkFails(r, "quiesce")
  /\ UNCHANGED <<cluster, stranded>>

Restart(r) ==
  /\ At(r, "restart")
  /\ \/ Sound /\ rolling' = TRUE /\ Step(r, "rollout")
     \/ Fault /\ rolling' \in {rolling, TRUE} /\ Warns(r, "quiesce")
  /\ UNCHANGED <<paused, rules, replicas, pods, stranded>>

(* waitForRollout counts the pods that are not to end, for 90 s.           *)
Rolled == IF replicas = 0 THEN Current = {} ELSE ~rolling /\ Current # {}
Rollout(r) ==
  /\ At(r, "rollout")
  /\ IF Rolled THEN Sound /\ Step(r, "quiesce") ELSE Fault /\ Warns(r, "quiesce")
  /\ UNCHANGED <<paused, cluster, stranded>>

Quiesce(r) ==
  /\ At(r, "quiesce")
  /\ \/ /\ Sound /\ replicas' = 0 /\ UNCHANGED stranded
        /\ Goes(r, [run[r] EXCEPT !.step = "gone", !.found = replicas])
     \/ /\ Fault /\ replicas' \in {replicas, 0}
        /\ stranded' = (stranded \/ replicas' = 0)
        /\ Goes(r, [run[r] EXCEPT !.step = "suspend", !.todo = run[r].list, !.warned = TRUE])
  /\ UNCHANGED <<paused, rules, rolling, pods>>

GoneUnseen(r) == \* (variant) a restart's word for it instead of the pods' end
  /\ At(r, "gone") /\ Sound /\ Current = {}
  /\ Goes(r, [run[r] EXCEPT !.step = "suspend", !.todo = run[r].list])
  /\ UNCHANGED <<paused, cluster, stranded>>

(* Until no pod exists, or, with a warning, for 90 s: that long only if a  *)
(* pod hangs, or another request has brought the reconciler back.          *)
Gone(r) ==
  /\ At(r, "gone")
  /\ IF pods = {} \/ replicas = 1 THEN Sound ELSE Fault
  /\ Goes(r, [run[r] EXCEPT !.step = "suspend", !.todo = run[r].list,
                            !.warned = @ \/ pods # {}])
  /\ UNCHANGED <<paused, cluster, stranded>>

Suspended(r, c) == /\ At(r, "suspend") /\ c \in run[r].todo
                   /\ UNCHANGED <<paused, replicas, rolling, pods, stranded>>
SuspendAgain(r, c) == \* (variant) one that failed is no longer counted, but tried again
  /\ Suspended(r, c)
  /\ \/ /\ Sound /\ rules' = rules \ {c}
        /\ Goes(r, [run[r] EXCEPT !.todo = @ \ {c}])
     \/ /\ Fault /\ UNCHANGED rules
        /\ Goes(r, [run[r] EXCEPT !.list = @ \ {c}, !.warned = TRUE])
Suspend(r, c) ==
  /\ Suspended(r, c)
  /\ \/ /\ Sound /\ rules' = rules \ {c}
        /\ Goes(r, [run[r] EXCEPT !.todo = @ \ {c}])
     \/ /\ Fault /\ UNCHANGED rules
        /\ Goes(r, [run[r] EXCEPT !.todo = @ \ {c}, !.list = @ \ {c}, !.warned = TRUE])
SuspendAll(r) ==
  /\ At(r, "suspend") /\ run[r].todo = {} /\ Sound
  /\ Step(r, IF run[r].found = 2 THEN "verify" ELSE "restore")
  /\ UNCHANGED <<paused, cluster, stranded>>

RestoreFound(r) == \* (variant) the replicas found, none included
  /\ At(r, "restore") /\ Sound
  /\ replicas' = run[r].found /\ Step(r, "verify")
  /\ UNCHANGED <<paused, rules, rolling, pods, stranded>>

(* previousReplicas || 1: what was found, and one for none.                *)
Restore(r) ==
  /\ At(r, "restore")
  /\ \/ Sound /\ replicas' = 1 /\ Step(r, "verify") /\ UNCHANGED stranded
     \/ Fault /\ Warns(r, "verify") /\ stranded' = TRUE /\ replicas' \in {replicas, 1}
  /\ UNCHANGED <<paused, rules, rolling, pods>>

Verify(r) ==
  /\ At(r, "verify") /\ Sound
  /\ rules' = rules \ run[r].list
  /\ IF rules \intersect run[r].list = {} THEN Step(r, "register") ELSE Warns(r, "register")
  /\ UNCHANGED <<paused, replicas, rolling, pods, stranded>>

(* The test camera is registered and analysed, or the live ones come back. *)
Register(r) ==
  /\ At(r, "register")
  /\ \/ Sound /\ Step(r, "running")
     \/ Fault /\ Step(r, "clear")
  /\ UNCHANGED <<paused, cluster, stranded>>

--------------------------------------------------------------------------------
(* stopRun, of one run or of all there are: their cameras go, the mark is  *)
(* cleared, the reconciler restarted (and waited for, to no end).          *)
StopOne(r) ==
  /\ At(r, "running") /\ Sound /\ Step(r, "clear")
  /\ UNCHANGED <<paused, cluster, stranded>>

StopAll(r) ==
  /\ At(r, "idle")
  /\ \/ Sound /\ run' = [q \in Runs |-> IF q = r THEN [NoRun EXCEPT !.step = "clear"]
                                    ELSE IF At(q, "running") THEN Over ELSE run[q]]
     \/ Fault /\ Step(r, "clear")
  /\ UNCHANGED <<paused, cluster, stranded>>

Clear(r) ==
  /\ At(r, "clear")
  /\ \/ Sound /\ Marks(r, {}, "reload")
     \/ MarkFails(r, "over")
  /\ UNCHANGED <<cluster, stranded>>

Reload(r) ==
  /\ At(r, "reload")
  /\ \/ Sound /\ rolling' = TRUE
     \/ Fault /\ rolling' \in {rolling, TRUE}
  /\ Goes(r, Over)
  /\ UNCHANGED <<paused, rules, replicas, pods, stranded>>

(* The console's process is lost, and every request with it.  What runs is *)
(* a registered camera and goes on.                                        *)
Crash ==
  /\ Fault
  /\ run' = [r \in Runs |-> IF run[r].step \in {"idle", "running"} THEN run[r] ELSE Over]
  /\ stranded' = (stranded \/ \E r \in Runs : run[r].step \in {"gone", "suspend", "restore"})
  /\ UNCHANGED <<paused, cluster>>

(* With the reconciler down and no request at work nothing happens.        *)
Down == pods = {} /\ replicas = 0 /\ UNCHANGED vars

Proceed(r) == \/ Mark(r) \/ Restart(r) \/ Rollout(r) \/ Quiesce(r) \/ Gone(r) \/ SuspendAll(r)
              \/ (\E c \in Cams : Suspend(r, c)) \/ Restore(r) \/ Verify(r) \/ Register(r)
              \/ Clear(r) \/ Reload(r)
Cluster    == \/ StartPod \/ ScaleDown
              \/ \E p \in pods : PodEnds(p) \/ Refresh(p) \/ SeedRules(p)

Next == \/ \E r \in Runs : Start(r) \/ Proceed(r) \/ StopOne(r) \/ StopAll(r)
        \/ Cluster \/ Crash \/ Down

Spec == Init /\ [][Next]_vars

(* Calls return, Kubernetes does what the Deployment says, and a pod that  *)
(* is there ticks.  Nobody has to start or to stop a run.                  *)
Fairness == /\ \A r \in Runs : WF_vars(Proceed(r))
            /\ WF_vars(StartPod) /\ WF_vars(ScaleDown)
            /\ WF_vars(\E p \in pods : PodEnds(p))
            /\ WF_vars(\E p \in Current : Refresh(p))
            /\ WF_vars(\E p \in Current : SeedRules(p))
FairSpec == Spec /\ Fairness

--------------------------------------------------------------------------------
(* While a run is on that reported no warning and whose mark nobody has    *)
(* changed, none of the cameras it paused is analysed.                     *)
QuietRun ==
  \A r \in Runs : At(r, "running") /\ ~run[r].warned /\ ~run[r].cut
                    => rules \intersect run[r].list = {}

(* All is stopped: nobody is at work, and nothing is marked.               *)
AllStopped == paused = {} /\ \A r \in Runs : run[r].step \in {"idle", "over"}
Analysed   == rules = Cams

(* When all is stopped every live camera is analysed again, however the    *)
(* runs overlapped, unless one of them ended with the reconciler down.     *)
StopResumes == <>[](AllStopped /\ ~stranded) => <>[]Analysed

(* And even then: stopping everything is a repair.                         *)
StopAllRepairs == <>[]AllStopped => <>[]Analysed
================================================================================
