---------------------------- MODULE CameraReconcile ----------------------------
(***************************************************************************)
(* The cameras an instance has configured and the sensors its video store  *)
(* (VST) has registered, and everything that moves one towards the other:  *)
(* the reconcile loops (reconcile-agent.ts, reconcile/run.ts, cameras.ts), *)
(* the camera routes of the console (app/api/cameras) that change the      *)
(* store and apply the change at once, and the restart of a camera         *)
(* (rearm-recording.ts).                                                   *)
(*                                                                         *)
(* The store is taken as atomic, which is what AtomicStore promises.  VST  *)
(* is external: each HTTP call to it is one step here, so that another     *)
(* actor's call, an edit of the store or an outage can come between any    *)
(* two calls of a pass.                                                    *)
(***************************************************************************)
EXTENDS Naturals, FiniteSets

CONSTANTS
  Cams,         \* camera ids; a sensor is registered under its camera's id
  Loops,        \* the reconcile loops: the agent pod's, the console pod's
  Operators,    \* the requests the console can be serving at the same time
  MaxUuid,      \* bound: registrations VST can mint in a behaviour
  MaxRequests,  \* bound: requests operators make
  MaxFaults,    \* bound: times VST stops answering or a pod dies
  Tombstones,   \* TRUE: VST lists deleted sensors as "removed" for ever
  NewestLast    \* TRUE: VST lists registrations in the order it minted them

ASSUME ConstantsAssumption ==
  /\ Cams # {}
  /\ Loops \intersect Operators = {}
  /\ MaxUuid \in Nat /\ MaxRequests \in Nat /\ MaxFaults \in Nat
  /\ Tombstones \in BOOLEAN /\ NewestLast \in BOOLEAN

Actors == Loops \union Operators
Uuids  == 1 .. MaxUuid
None   == 0                     \* no uuid

(* How the store has a camera: not at all, or with its recording field     *)
(* unset, on, or off.  Off is the only one cameras.ts parks.               *)
EntryStates == {"absent", "unset", "on", "off"}
ParkedOnlyOn(e) == e \in {"unset", "off"}   \* (variant) enabled !== true
IsParked(e) == e = "off"
IsWanted(e) == e # "absent" /\ ~IsParked(e)

VARIABLES
  store,     \* the configured cameras
  sensors,   \* VST's registrations by uuid: [name, state, armed]
  minted,    \* the last uuid VST has minted
  vstUp,     \* whether VST answers
  faults,    \* outages and crashes so far
  requests,  \* requests so far
  pc,        \* the call each actor is about to make
  job,       \* the local variables of the handler or pass each actor runs
  everOff    \* history: cameras that have been stored with recording off

vstVars == <<sensors, minted>>
vars == <<store, vstVars, vstUp, faults, requests, pc, job, everOff>>

States == {"free", "online", "removed"}
Points == {"idle", "list", "each", "resolve", "arm", "find", "drop", "write",
           "toggle", "unregister", "erase"}
Kinds  == {"none", "pass", "add", "edit", "recording", "delete", "restart"}

(* desired: the entries read, or the one given; live: the uuid listed under  *)
(* each name; todo: the cameras still to act on; cam, uuid: the camera and   *)
(* registration being acted on; clean: nothing is in the list of failures.   *)
Jobs == [kind : Kinds, desired : [Cams -> EntryStates],
         live : [Cams -> Uuids \union {None}], todo : SUBSET Cams,
         cam : Cams, uuid : Uuids \union {None}, clean : BOOLEAN]

(* Every variable keeps the type of what it models.                        *)
TypeOK ==
  /\ store \in [Cams -> EntryStates]
  /\ sensors \in [Uuids -> [name : Cams, state : States, armed : BOOLEAN]]
  /\ minted \in 0 .. MaxUuid
  /\ vstUp \in BOOLEAN
  /\ faults \in 0 .. MaxFaults
  /\ requests \in 0 .. MaxRequests
  /\ pc \in [Actors -> Points]
  /\ job \in [Actors -> Jobs]
  /\ everOff \subseteq Cams

Only(c, e) == [d \in Cams |-> IF d = c THEN e ELSE "absent"]
Nobody  == [c \in Cams |-> None]
SomeCam == CHOOSE c \in Cams : TRUE
NoJob   == [kind |-> "none", desired |-> [c \in Cams |-> "absent"], live |-> Nobody,
            todo |-> {}, cam |-> SomeCam, uuid |-> None, clean |-> TRUE]

Init ==
  /\ store = [c \in Cams |-> "absent"]
  /\ sensors = [u \in Uuids |-> [name |-> SomeCam, state |-> "free", armed |-> FALSE]]
  /\ minted = 0
  /\ vstUp = TRUE /\ faults = 0 /\ requests = 0
  /\ pc = [a \in Actors |-> "idle"]
  /\ job = [a \in Actors |-> NoJob]
  /\ everOff = {}

--------------------------------------------------------------------------------
(* VST, as vst.ts and its callers describe it.                             *)

(* What /sensor/list shows under a name, and the entry a reader that wants *)
(* one of them gets: the last one listed, or the first.                    *)
Listed(c) == {u \in 1 .. minted : sensors[u].name = c /\ sensors[u].state # "free"}
Online(c) == \E u \in Listed(c) : sensors[u].state = "online"
Newest(S) == {u \in S : \A v \in S : v <= u}
Oldest(S) == {u \in S : \A v \in S : u <= v}
Last(S)   == IF S = {} \/ ~vstUp THEN {None} ELSE IF NewestLast THEN Newest(S) ELSE S
First(S)  == IF S = {} \/ ~vstUp THEN {None} ELSE IF NewestLast THEN Oldest(S) ELSE S

(* DELETE of a uuid turns the sensor into a tombstone and ends its         *)
(* recording pipeline; a uuid that is not live is answered with an error.  *)
Deletable(u) == vstUp /\ u # None /\ sensors[u].state = "online"
Delete(u) ==
  sensors' = IF Deletable(u)
             THEN [sensors EXCEPT ![u].state = IF Tombstones THEN "removed" ELSE "free",
                                  ![u].armed = FALSE]
             ELSE sensors

(* POST /sensor/add mints a uuid, unless a live sensor has the name: 409.  *)
Mint(c) == /\ minted < MaxUuid
           /\ minted' = minted + 1
           /\ sensors' = [sensors EXCEPT ![minted + 1] =
                            [name |-> c, state |-> "online", armed |-> FALSE]]

(* proxy/stream/add records only under the uuid of a live sensor; a stale  *)
(* uuid is accepted and records nothing.                                   *)
StartStream(u) ==
  sensors' = IF vstUp /\ sensors[u].state = "online"
             THEN [sensors EXCEPT ![u].armed = TRUE] ELSE sensors

VstDown == /\ vstUp /\ faults < MaxFaults
           /\ vstUp' = FALSE
           /\ faults' = faults + 1
           /\ UNCHANGED <<store, vstVars, requests, pc, job, everOff>>

VstBack == /\ ~vstUp
           /\ vstUp' = TRUE
           /\ UNCHANGED <<store, vstVars, faults, requests, pc, job, everOff>>

--------------------------------------------------------------------------------
(* The steps of an actor: from one call to the next, with its locals.      *)

Goto(a, from, to) == pc[a] = from /\ pc' = [pc EXCEPT ![a] = to]
Keep(a, j)        == job' = [job EXCEPT ![a] = j]
World             == <<vstUp, faults, requests>>

(* The pod of an actor dies: what it was doing is lost.                    *)
Crash(a) == /\ pc[a] # "idle" /\ faults < MaxFaults
            /\ faults' = faults + 1
            /\ pc' = [pc EXCEPT ![a] = "idle"]
            /\ Keep(a, NoJob)
            /\ UNCHANGED <<store, vstVars, vstUp, requests, everOff>>

(* A tick of a loop: a pass begins only when the last one has ended.       *)
BeginPass(a) ==
  /\ a \in Loops
  /\ Goto(a, "idle", "list")
  /\ Keep(a, [NoJob EXCEPT !.kind = "pass", !.desired = store])
  /\ UNCHANGED <<store, vstVars, World, everOff>>

(* listSensors: a listing that fails reads as a VST with no sensor.  The   *)
(* map by name keeps the last of a name's entries, tombstones included.    *)
ListSensors(a) ==
  \E seen \in [Cams -> Uuids \union {None}] :
    LET want == job[a].desired
    IN /\ \A c \in Cams : seen[c] \in Last(Listed(c))
       /\ Goto(a, "list", "each")
       /\ Keep(a, [job[a] EXCEPT !.live = seen,
            !.todo = {c \in Cams : \/ IsParked(want[c]) /\ seen[c] # None
                                   \/ IsWanted(want[c]) /\ seen[c] = None}])
       /\ UNCHANGED <<store, vstVars, World, everOff>>

Handled(a, c) == [job[a] EXCEPT !.todo = @ \ {c}]
Failed(a, c)  == [Handled(a, c) EXCEPT !.clean = FALSE]

ParkByName(a, c) ==      \* (variant) deletes by name, which VST refuses
  /\ Goto(a, "each", "each")
  /\ c \in job[a].todo /\ IsParked(job[a].desired[c])
  /\ Keep(a, Failed(a, c))
  /\ UNCHANGED <<store, vstVars, World, everOff>>

(* A disabled camera with a listed sensor: deregister it.                  *)
Park(a, c) ==
  /\ Goto(a, "each", "each")
  /\ c \in job[a].todo /\ IsParked(job[a].desired[c])
  /\ Delete(job[a].live[c])
  /\ Keep(a, IF Deletable(job[a].live[c]) THEN Handled(a, c) ELSE Failed(a, c))
  /\ UNCHANGED <<store, minted, World, everOff>>

(* sensor/add of a camera that is wanted and not listed: no answer, already *)
(* registered, or minted.                                                   *)
ToAdd(a, c) == c \in job[a].todo /\ IsWanted(job[a].desired[c])

AddFails(a, c) ==
  /\ ~vstUp /\ ToAdd(a, c)
  /\ Goto(a, "each", "each")
  /\ Keep(a, Failed(a, c))
  /\ UNCHANGED <<store, vstVars, World, everOff>>

AddConflicts(a, c) ==
  /\ vstUp /\ Online(c) /\ ToAdd(a, c)
  /\ Goto(a, "each", "resolve")
  /\ Keep(a, [job[a] EXCEPT !.cam = c])
  /\ UNCHANGED <<store, vstVars, World, everOff>>

AddSensor(a, c) ==
  /\ vstUp /\ ~Online(c) /\ ToAdd(a, c)
  /\ Mint(c)
  /\ Goto(a, "each", "arm")
  /\ Keep(a, [job[a] EXCEPT !.cam = c, !.uuid = minted + 1])
  /\ UNCHANGED <<store, World, everOff>>

(* resolveSensorUuid: the first entry listed under the name, or nothing to *)
(* arm when the listing fails.  Neither that nor a failure to arm is kept: *)
(* reconcileCameras looks at the warning only when ok is false.            *)
Resolve(a) ==
  \E u \in First(Listed(job[a].cam)) :
    /\ Goto(a, "resolve", IF u = None THEN "each" ELSE "arm")
    /\ Keep(a, IF u = None THEN Handled(a, job[a].cam) ELSE [job[a] EXCEPT !.uuid = u])
    /\ UNCHANGED <<store, vstVars, World, everOff>>

ArmByName(a) ==          \* (variant) arms under the name: accepted, never records
  /\ Goto(a, "arm", "each")
  /\ Keep(a, Handled(a, job[a].cam))
  /\ UNCHANGED <<store, vstVars, World, everOff>>

Arm(a) ==
  /\ Goto(a, "arm", "each")
  /\ StartStream(job[a].uuid)
  /\ Keep(a, Handled(a, job[a].cam))
  /\ UNCHANGED <<store, minted, World, everOff>>

FinishClean(a) ==        \* (variant) a pass with a failure never ends
  /\ Goto(a, "each", "idle")
  /\ job[a].todo = {} /\ job[a].clean
  /\ Keep(a, NoJob)
  /\ UNCHANGED <<store, vstVars, World, everOff>>

(* Every camera handled: the pass, or the request that ran it, is done.    *)
Finish(a) ==
  /\ Goto(a, "each", "idle")
  /\ job[a].todo = {}
  /\ Keep(a, NoJob)
  /\ UNCHANGED <<store, vstVars, World, everOff>>

--------------------------------------------------------------------------------
(* The camera routes.                                                      *)

Request(a, c, k, d, to) ==
  /\ a \in Operators /\ requests < MaxRequests
  /\ requests' = requests + 1
  /\ Goto(a, "idle", to)
  /\ Keep(a, [NoJob EXCEPT !.kind = k, !.cam = c, !.desired = d])
  /\ UNCHANGED <<vstVars, vstUp, faults>>

StoredNull(c, e) ==      \* (variant) a removed field is stored as null
  /\ store' = [store EXCEPT ![c] = IF e = "unset" THEN "null" ELSE e]
  /\ everOff' = IF e = "off" THEN everOff \union {c} ELSE everOff

Stored(c, e) == /\ store' = [store EXCEPT ![c] = e]
                /\ everOff' = IF e = "off" THEN everOff \union {c} ELSE everOff

(* POST: the entry has no recording field, whatever was stored before, and *)
(* is then reconciled alone.                                               *)
PostCamera(a, c) == /\ Request(a, c, "add", Only(c, "unset"), "list")
                    /\ Stored(c, "unset")

(* PATCH reads the entry for its recording field; PUT reads it to replace  *)
(* that field.                                                             *)
PatchCamera(a, c) == /\ store[c] # "absent"
                     /\ Request(a, c, "edit", Only(c, store[c]), "write")
                     /\ UNCHANGED <<store, everOff>>

PutRecording(a, c, e) == /\ store[c] # "absent"
                         /\ Request(a, c, "recording", Only(c, e), "write")
                         /\ UNCHANGED <<store, everOff>>

(* upsertCamera of the whole entry.  PATCH then reconciles it; PUT applies *)
(* the field to VST's proxy, unless the field was removed.                 *)
Upsert(a) ==
  LET c == job[a].cam   e == job[a].desired[c]
      next == IF job[a].kind = "edit" THEN "list" ELSE IF e = "unset" THEN "idle" ELSE "toggle"
  IN /\ Goto(a, "write", next)
     /\ Stored(c, e)
     /\ Keep(a, IF next = "idle" THEN NoJob ELSE job[a])
     /\ UNCHANGED <<vstVars, World>>

(* setRecording by name: no recording pipeline has a name for its key.     *)
ToggleByName(a) ==
  /\ Goto(a, "toggle", "idle")
  /\ Keep(a, NoJob)
  /\ UNCHANGED <<store, vstVars, World, everOff>>

(* DELETE: VST first, by name, which it refuses; then the store.           *)
DeleteCamera(a, c) == /\ Request(a, c, "delete", NoJob.desired, "unregister")
                      /\ UNCHANGED <<store, everOff>>

UnregisterByName(a) ==
  /\ Goto(a, "unregister", "erase")
  /\ UNCHANGED <<store, vstVars, World, job, everOff>>

EraseCamera(a) ==
  /\ Goto(a, "erase", "idle")
  /\ Stored(job[a].cam, "absent")
  /\ Keep(a, NoJob)
  /\ UNCHANGED <<vstVars, World>>

(* POST restart: pick the live registration, delete it by uuid, register   *)
(* and arm anew.  A camera neither stored nor listed has no URL: 400.      *)
RestartCamera(a, c) ==
  /\ Request(a, c, "restart", Only(c, IF store[c] = "absent" THEN "absent" ELSE "on"), "find")
  /\ UNCHANGED <<store, everOff>>

FindActive(a) ==
  LET c == job[a].cam
      online == {u \in Listed(c) : sensors[u].state = "online"}
  IN \E u \in First(IF online = {} THEN Listed(c) ELSE online) :
       LET known == u # None \/ job[a].desired[c] # "absent"
       IN /\ Goto(a, "find", IF known THEN "drop" ELSE "idle")
          /\ Keep(a, IF known THEN [job[a] EXCEPT !.uuid = u, !.desired = Only(c, "on")]
                     ELSE NoJob)
          /\ UNCHANGED <<store, vstVars, World, everOff>>

AddThenDrop(a) ==        \* (variant) the add meets the old registration: 409; then the delete
  /\ Goto(a, "drop", IF Deletable(job[a].uuid) THEN "idle" ELSE "each")
  /\ Delete(job[a].uuid)
  /\ Keep(a, IF Deletable(job[a].uuid) THEN NoJob ELSE [job[a] EXCEPT !.todo = {job[a].cam}])
  /\ UNCHANGED <<store, minted, World, everOff>>

DropActive(a) ==
  /\ Goto(a, "drop", "each")
  /\ Delete(job[a].uuid)
  /\ Keep(a, [job[a] EXCEPT !.todo = {job[a].cam}])
  /\ UNCHANGED <<store, minted, World, everOff>>

--------------------------------------------------------------------------------

Reconcile(a) == \/ ListSensors(a) \/ Resolve(a) \/ Arm(a) \/ Finish(a)
                \/ \E c \in Cams : Park(a, c) \/ AddFails(a, c)
                                   \/ AddConflicts(a, c) \/ AddSensor(a, c)

Handle(a) == \/ Upsert(a)     \/ ToggleByName(a) \/ UnregisterByName(a)
             \/ EraseCamera(a) \/ FindActive(a)   \/ DropActive(a)

Ask(a) == \E c \in Cams :
            \/ PostCamera(a, c) \/ PatchCamera(a, c) \/ DeleteCamera(a, c)
            \/ RestartCamera(a, c)
            \/ \E e \in {"unset", "on", "off"} : PutRecording(a, c, e)

Next == \/ \E a \in Actors : BeginPass(a) \/ Reconcile(a) \/ Handle(a) \/ Ask(a) \/ Crash(a)
        \/ VstDown \/ VstBack

Spec == Init /\ [][Next]_vars

(* The loops tick and every handler runs to its end; VST comes back.  No   *)
(* request has to be made.                                                 *)
Fairness == /\ \A a \in Actors : WF_vars(BeginPass(a) \/ Reconcile(a) \/ Handle(a))
            /\ WF_vars(VstBack)

FairSpec == Spec /\ Fairness

--------------------------------------------------------------------------------
(* Safety.                                                                 *)

(* Whatever fails or interleaves, a sensor is deregistered only for a      *)
(* camera some operator turned off at some time, or by a restart of that   *)
(* camera (cameras.ts: additive by default).                               *)
NoForeignRemoval ==
  [][\A u \in Uuids :
       sensors[u].state = "online" /\ sensors'[u].state # "online"
         => \/ sensors[u].name \in everOff
            \/ \E a \in Actors : job[a].kind = "restart" /\ job[a].cam = sensors[u].name]_vars

--------------------------------------------------------------------------------
(* Liveness, under FairSpec.                                               *)

(* Once the requests and outages are over, a camera stored as wanted ends  *)
(* up online for good, whatever stale pass or request came last.           *)
WantedStaysOnline == \A c \in Cams : <>[](IsWanted(store[c]) => Online(c))

(* Once they are over, a camera stored as off ends up offline for good,    *)
(* also when a stale pass registered it after it was turned off.           *)
OffStaysOffline == \A c \in Cams : <>[](IsParked(store[c]) => ~Online(c))

(* With no outage and no crash, a camera that stays wanted ends up         *)
(* recording: some arming of its last registration came after it.          *)
Recording(c) == \E u \in Listed(c) : sensors[u].armed
WantedRecords ==
  [](faults = 0) => \A c \in Cams : <>[](IsWanted(store[c]) => Recording(c))

(* With no outage and no crash, restarts that overlap each other, passes   *)
(* and edits leave a camera that was never turned off online, although a   *)
(* camera with nothing but a tombstone is registered by nobody else.       *)
RestartsReturn ==
  [](faults = 0) => \A c \in Cams : <>[](IsWanted(store[c]) /\ c \notin everOff => Online(c))

(* A camera that VST has never listed is registered, or stops being wanted. *)
RegistersNew ==
  \A c \in Cams : IsWanted(store[c]) /\ Listed(c) = {} ~> Online(c) \/ ~IsWanted(store[c])
================================================================================
