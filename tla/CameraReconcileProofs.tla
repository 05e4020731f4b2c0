------------------------- MODULE CameraReconcileProofs -------------------------
(***************************************************************************)
(* Proofs about CameraReconcile: its types, and that a sensor is only ever *)
(* deregistered for a camera that was turned off or is being restarted.    *)
(***************************************************************************)
EXTENDS CameraReconcile, TLAPS

--------------------------------------------------------------------------------
(* Types.  A step gives an actor a call and a job, and may change VST.     *)

SensorType == sensors \in [Uuids -> [name : Cams, state : States, armed : BOOLEAN]]

LEMMA GotoTyped ==
  ASSUME TypeOK, NEW a, NEW from, NEW to \in Points, Goto(a, from, to)
  PROVE  pc' \in [Actors -> Points]
BY DEF TypeOK, Goto

LEMMA KeepTyped ==
  ASSUME TypeOK, NEW a, NEW j \in Jobs, Keep(a, j)
  PROVE  job' \in [Actors -> Jobs]
BY DEF TypeOK, Keep

LEMMA SomeCamTyped == SomeCam \in Cams
BY ConstantsAssumption DEF SomeCam

LEMMA OnlyTyped ==
  ASSUME NEW c \in Cams, NEW e \in EntryStates
  PROVE  Only(c, e) \in [Cams -> EntryStates]
BY DEF Only, EntryStates

LEMMA NoJobTyped == NoJob \in Jobs
BY SomeCamTyped DEF NoJob, Jobs, Kinds, EntryStates, Nobody, Uuids, None

(* Deleting and arming change no name, and only deleting takes a sensor    *)
(* offline, the one it is asked to.                                        *)
LEMMA DeleteTyped ==
  ASSUME TypeOK, NEW u, Delete(u)
  PROVE  /\ SensorType'
         /\ \A v \in Uuids : sensors'[v].name = sensors[v].name
         /\ \A v \in Uuids : sensors[v].state = "online" /\ sensors'[v].state # "online"
              => v = u /\ u # None
<1>1. CASE ~Deletable(u)
  BY <1>1 DEF Delete, TypeOK, SensorType
<1>2. CASE Deletable(u)
  <2> DEFINE to == IF Tombstones THEN "removed" ELSE "free"
  <2>1. sensors' = [sensors EXCEPT ![u].state = to, ![u].armed = FALSE]
    BY <1>2 DEF Delete
  <2>2. to \in States /\ u # None
    BY <1>2 DEF States, Deletable
  <2> QED  BY <2>1, <2>2 DEF TypeOK, SensorType
<1> QED  BY <1>1, <1>2

LEMMA StartTyped ==
  ASSUME TypeOK, NEW u, StartStream(u)
  PROVE  /\ SensorType'
         /\ \A v \in Uuids : sensors'[v].name = sensors[v].name
         /\ \A v \in Uuids : sensors'[v].state = sensors[v].state
BY DEF StartStream, TypeOK, SensorType

LEMMA MintTyped ==
  ASSUME TypeOK, NEW c \in Cams, Mint(c)
  PROVE  /\ SensorType'
         /\ minted + 1 \in Uuids /\ minted' = minted + 1 /\ minted' \in 0 .. MaxUuid
         /\ \A v \in Uuids : v # minted + 1 => sensors'[v] = sensors[v]
         /\ sensors'[minted + 1].state = "online"
<1>1. minted + 1 \in Uuids /\ minted + 1 \in 0 .. MaxUuid
  BY ConstantsAssumption DEF Mint, TypeOK, Uuids
<1> QED  BY <1>1 DEF Mint, TypeOK, SensorType, States

(* What a listing finds under a name is listed there.                      *)
LEMMA LastListed ==
  ASSUME NEW S, NEW u \in Last(S), u # None
  PROVE  u \in S
BY DEF Last, Newest

LEMMA FirstListed ==
  ASSUME NEW S, NEW u \in First(S), u # None
  PROVE  u \in S
BY DEF First, Oldest

LEMMA ListedIsMinted ==
  ASSUME TypeOK, NEW c, NEW u \in Listed(c)
  PROVE  u \in Uuids /\ u <= minted /\ u # None /\ sensors[u].name = c
BY ConstantsAssumption DEF Listed, TypeOK, Uuids, None

(* What every step but a change of VST's availability comes to.            *)
LEMMA StepTyped ==
  ASSUME TypeOK, NEW a \in Actors, NEW from, NEW to \in Points, NEW j \in Jobs,
         Goto(a, from, to), Keep(a, j),
         store' \in [Cams -> EntryStates], SensorType', minted' \in 0 .. MaxUuid,
         everOff' \subseteq Cams, vstUp' \in BOOLEAN,
         faults' \in 0 .. MaxFaults, requests' \in 0 .. MaxRequests
  PROVE  TypeOK'
BY GotoTyped, KeepTyped DEF TypeOK, SensorType

LEMMA JobFields ==
  ASSUME TypeOK, NEW a \in Actors
  PROVE  /\ job[a] \in Jobs
         /\ job[a].cam \in Cams /\ job[a].desired \in [Cams -> EntryStates]
         /\ job[a].uuid \in Uuids \union {None}
         /\ job[a].live \in [Cams -> Uuids \union {None}]
         /\ job[a].todo \subseteq Cams
BY DEF TypeOK, Jobs

LEMMA HandledTyped ==
  ASSUME TypeOK, NEW a \in Actors, NEW c
  PROVE  Handled(a, c) \in Jobs /\ Failed(a, c) \in Jobs
BY JobFields DEF Handled, Failed, Jobs

LEMMA StoredTyped ==
  ASSUME TypeOK, NEW c \in Cams, NEW e \in EntryStates, Stored(c, e)
  PROVE  store' \in [Cams -> EntryStates] /\ everOff' \subseteq Cams
BY DEF Stored, TypeOK

LEMMA RequestTyped ==
  ASSUME TypeOK, NEW a \in Actors, NEW c \in Cams, NEW k \in Kinds,
         NEW d \in [Cams -> EntryStates], NEW to \in Points, Request(a, c, k, d, to),
         store' \in [Cams -> EntryStates], everOff' \subseteq Cams
  PROVE  TypeOK'
<1>1. [NoJob EXCEPT !.kind = k, !.cam = c, !.desired = d] \in Jobs
  BY NoJobTyped DEF Jobs
<1>2. requests' \in 0 .. MaxRequests
  BY ConstantsAssumption DEF Request, TypeOK
<1>3. SensorType' /\ minted' \in 0 .. MaxUuid /\ vstUp' \in BOOLEAN /\ faults' \in 0 .. MaxFaults
  BY DEF Request, TypeOK, SensorType, vstVars
<1> QED  BY <1>1, <1>2, <1>3, StepTyped DEF Request

LEMMA ReconcileTyped ==
  ASSUME TypeOK, NEW a \in Actors, Reconcile(a)
  PROVE  TypeOK'
<1> USE JobFields
<1>0. SensorType /\ minted \in 0 .. MaxUuid
  BY DEF TypeOK, SensorType
<1>1. CASE ListSensors(a)
  <2>1. PICK seen \in [Cams -> Uuids \union {None}] :
          Keep(a, [job[a] EXCEPT !.live = seen,
            !.todo = {c \in Cams : \/ IsParked(job[a].desired[c]) /\ seen[c] # None
                                   \/ IsWanted(job[a].desired[c]) /\ seen[c] = None}])
    BY <1>1 DEF ListSensors
  <2>2. [job[a] EXCEPT !.live = seen,
            !.todo = {c \in Cams : \/ IsParked(job[a].desired[c]) /\ seen[c] # None
                                   \/ IsWanted(job[a].desired[c]) /\ seen[c] = None}] \in Jobs
    BY DEF Jobs
  <2> QED  BY <1>1, <2>1, <2>2, StepTyped, "each" \in Points
           DEF ListSensors, Points, vstVars, World, TypeOK, SensorType
<1>2. CASE Resolve(a)
  <2>1. PICK u \in First(Listed(job[a].cam)) :
          /\ Goto(a, "resolve", IF u = None THEN "each" ELSE "arm")
          /\ Keep(a, IF u = None THEN Handled(a, job[a].cam) ELSE [job[a] EXCEPT !.uuid = u])
    BY <1>2 DEF Resolve
  <2>2. u = None \/ u \in Uuids
    BY FirstListed, ListedIsMinted
  <2>3. (IF u = None THEN Handled(a, job[a].cam) ELSE [job[a] EXCEPT !.uuid = u]) \in Jobs
    BY <2>2, HandledTyped DEF Jobs
  <2>4. (IF u = None THEN "each" ELSE "arm") \in Points
    BY DEF Points
  <2> QED  BY <1>2, <2>1, <2>3, <2>4, StepTyped DEF Resolve, vstVars, World, TypeOK, SensorType
<1>3. CASE Arm(a)
  BY <1>3, StartTyped, HandledTyped, StepTyped, "each" \in Points
  DEF Arm, Points, World, TypeOK
<1>4. CASE Finish(a)
  BY <1>4, <1>0, NoJobTyped, StepTyped, "idle" \in Points
  DEF Finish, Points, World, vstVars, TypeOK, SensorType
<1>5. ASSUME NEW c \in Cams, Park(a, c)  PROVE TypeOK'
  <2>1. (IF Deletable(job[a].live[c]) THEN Handled(a, c) ELSE Failed(a, c)) \in Jobs
    BY HandledTyped
  <2> QED  BY <1>5, <2>1, DeleteTyped, StepTyped, "each" \in Points
           DEF Park, Points, World, TypeOK
<1>6. ASSUME NEW c \in Cams, AddFails(a, c)  PROVE TypeOK'
  BY <1>6, <1>0, HandledTyped, StepTyped, "each" \in Points
  DEF AddFails, Points, World, vstVars, TypeOK, SensorType
<1>7. ASSUME NEW c \in Cams, AddConflicts(a, c)  PROVE TypeOK'
  <2>1. [job[a] EXCEPT !.cam = c] \in Jobs
    BY DEF Jobs
  <2> QED  BY <1>7, <1>0, <2>1, StepTyped, "resolve" \in Points
           DEF AddConflicts, Points, World, vstVars, TypeOK, SensorType
<1>8. ASSUME NEW c \in Cams, AddSensor(a, c)  PROVE TypeOK'
  <2>1. Mint(c)
    BY <1>8 DEF AddSensor
  <2>2. [job[a] EXCEPT !.cam = c, !.uuid = minted + 1] \in Jobs
    BY <2>1, MintTyped DEF Jobs
  <2> QED  BY <1>8, <2>1, <2>2, MintTyped, StepTyped, "arm" \in Points
           DEF AddSensor, Points, World, TypeOK
<1> QED  BY <1>1, <1>2, <1>3, <1>4, <1>5, <1>6, <1>7, <1>8 DEF Reconcile

LEMMA HandleTyped ==
  ASSUME TypeOK, NEW a \in Actors, Handle(a)
  PROVE  TypeOK'
<1> USE JobFields
<1>0. SensorType /\ minted \in 0 .. MaxUuid
  BY DEF TypeOK, SensorType
<1>1. CASE Upsert(a)
  <2> DEFINE c == job[a].cam
             e == job[a].desired[c]
             next == IF job[a].kind = "edit" THEN "list" ELSE IF e = "unset" THEN "idle" ELSE "toggle"
  <2>1. Goto(a, "write", next) /\ Stored(c, e) /\ Keep(a, IF next = "idle" THEN NoJob ELSE job[a])
    BY <1>1 DEF Upsert
  <2>2. next \in Points /\ c \in Cams /\ e \in EntryStates
    BY DEF Points
  <2>3. (IF next = "idle" THEN NoJob ELSE job[a]) \in Jobs
    BY NoJobTyped
  <2>4. store' \in [Cams -> EntryStates] /\ everOff' \subseteq Cams
    BY <2>1, <2>2, StoredTyped
  <2>5. UNCHANGED <<vstVars, World>>
    BY <1>1 DEF Upsert
  <2> HIDE DEF next, e, c
  <2> QED  BY <2>1, <2>2, <2>3, <2>4, <2>5, <1>0, StepTyped DEF World, vstVars, TypeOK, SensorType
<1>2. CASE ToggleByName(a)
  BY <1>2, <1>0, NoJobTyped, StepTyped, "idle" \in Points
  DEF ToggleByName, Points, World, vstVars, TypeOK, SensorType
<1>3. CASE UnregisterByName(a)
  BY <1>3, GotoTyped, "erase" \in Points DEF UnregisterByName, Points, World, vstVars, TypeOK
<1>4. CASE EraseCamera(a)
  <2>1. store' \in [Cams -> EntryStates] /\ everOff' \subseteq Cams
    BY <1>4, StoredTyped, "absent" \in EntryStates DEF EraseCamera, EntryStates
  <2> QED  BY <1>4, <1>0, <2>1, NoJobTyped, StepTyped, "idle" \in Points
           DEF EraseCamera, Points, World, vstVars, TypeOK, SensorType
<1>5. CASE FindActive(a)
  <2> DEFINE c == job[a].cam
             online == {u \in Listed(c) : sensors[u].state = "online"}
  <2>1. PICK u \in First(IF online = {} THEN Listed(c) ELSE online) :
          LET known == u # None \/ job[a].desired[c] # "absent"
          IN /\ Goto(a, "find", IF known THEN "drop" ELSE "idle")
             /\ Keep(a, IF known THEN [job[a] EXCEPT !.uuid = u, !.desired = Only(c, "on")]
                        ELSE NoJob)
    BY <1>5 DEF FindActive
  <2> DEFINE known == u # None \/ job[a].desired[c] # "absent"
  <2>2. u = None \/ u \in Uuids
    BY FirstListed, ListedIsMinted
  <2>3. [job[a] EXCEPT !.uuid = u, !.desired = Only(c, "on")] \in Jobs
    BY <2>2, OnlyTyped, "on" \in EntryStates DEF Jobs, EntryStates
  <2>4. (IF known THEN [job[a] EXCEPT !.uuid = u, !.desired = Only(c, "on")] ELSE NoJob) \in Jobs
    BY <2>3, NoJobTyped
  <2>5. (IF known THEN "drop" ELSE "idle") \in Points
    BY DEF Points
  <2>6. UNCHANGED <<store, vstVars, World, everOff>>
    BY <1>5 DEF FindActive
  <2> QED  BY <2>1, <2>4, <2>5, <2>6, <1>0, StepTyped DEF World, vstVars, TypeOK, SensorType
<1>6. CASE DropActive(a)
  <2>1. [job[a] EXCEPT !.todo = {job[a].cam}] \in Jobs
    BY DEF Jobs
  <2> QED  BY <1>6, <2>1, DeleteTyped, StepTyped, "each" \in Points
           DEF DropActive, Points, World, TypeOK
<1> QED  BY <1>1, <1>2, <1>3, <1>4, <1>5, <1>6 DEF Handle

LEMMA AskTyped ==
  ASSUME TypeOK, NEW a \in Actors, Ask(a)
  PROVE  TypeOK'
<1> USE DEF Points, Kinds, EntryStates
<1>1. PICK c \in Cams : \/ PostCamera(a, c) \/ PatchCamera(a, c) \/ DeleteCamera(a, c)
                        \/ RestartCamera(a, c)
                        \/ \E e \in {"unset", "on", "off"} : PutRecording(a, c, e)
  BY DEF Ask
<1>2. store[c] \in EntryStates /\ store \in [Cams -> EntryStates] /\ everOff \subseteq Cams
  BY DEF TypeOK
<1>3. CASE PostCamera(a, c)
  BY <1>3, RequestTyped, OnlyTyped, StoredTyped DEF PostCamera
<1>4. CASE PatchCamera(a, c)
  BY <1>4, <1>2, RequestTyped, OnlyTyped DEF PatchCamera
<1>5. CASE DeleteCamera(a, c)
  <2>1. NoJob.desired \in [Cams -> EntryStates]
    BY NoJobTyped DEF Jobs
  <2> QED  BY <1>5, <1>2, <2>1, RequestTyped DEF DeleteCamera
<1>6. CASE RestartCamera(a, c)
  <2>1. Only(c, IF store[c] = "absent" THEN "absent" ELSE "on") \in [Cams -> EntryStates]
    BY OnlyTyped
  <2> QED  BY <1>6, <1>2, <2>1, RequestTyped DEF RestartCamera
<1>7. ASSUME NEW e \in {"unset", "on", "off"}, PutRecording(a, c, e)  PROVE TypeOK'
  BY <1>7, <1>2, RequestTyped, OnlyTyped DEF PutRecording
<1> QED  BY <1>1, <1>3, <1>4, <1>5, <1>6, <1>7

LEMMA TypeStep == TypeOK /\ [Next]_vars => TypeOK'
<1> SUFFICES ASSUME TypeOK, [Next]_vars  PROVE TypeOK'
  OBVIOUS
<1>0. SensorType /\ minted \in 0 .. MaxUuid /\ store \in [Cams -> EntryStates]
  BY DEF TypeOK, SensorType
<1>1. ASSUME NEW a \in Actors, BeginPass(a)  PROVE TypeOK'
  <2>1. [NoJob EXCEPT !.kind = "pass", !.desired = store] \in Jobs
    BY <1>0, NoJobTyped DEF Jobs, Kinds
  <2> QED  BY <1>1, <1>0, <2>1, StepTyped, "list" \in Points
           DEF BeginPass, Points, World, vstVars, TypeOK, SensorType
<1>2. ASSUME NEW a \in Actors, Crash(a)  PROVE TypeOK'
  <2>1. job' \in [Actors -> Jobs]
    BY <1>2, NoJobTyped, KeepTyped DEF Crash
  <2>2. pc' \in [Actors -> Points]
    BY <1>2 DEF Crash, Points, TypeOK
  <2>3. faults' \in 0 .. MaxFaults
    BY <1>2, ConstantsAssumption DEF Crash, TypeOK
  <2> QED  BY <1>2, <2>1, <2>2, <2>3 DEF Crash, vstVars, TypeOK
<1>3. CASE VstDown
  <2>1. faults' \in 0 .. MaxFaults
    BY <1>3, ConstantsAssumption DEF VstDown, TypeOK
  <2> QED  BY <1>3, <2>1 DEF VstDown, vstVars, TypeOK
<1>4. CASE VstBack
  BY <1>4 DEF VstBack, vstVars, TypeOK
<1>5. CASE UNCHANGED vars
  BY <1>5 DEF vars, vstVars, TypeOK
<1> QED  BY <1>1, <1>2, <1>3, <1>4, <1>5, ReconcileTyped, HandleTyped, AskTyped DEF Next

(* Every variable keeps its type, for any cameras, loops, requests and     *)
(* bounds, with tombstones or without.                                     *)
THEOREM TypeCorrect == Spec => []TypeOK
<1>1. Init => TypeOK
  BY ConstantsAssumption, SomeCamTyped, NoJobTyped
  DEF Init, TypeOK, EntryStates, States, Points
<1> QED  BY <1>1, TypeStep, PTL DEF Spec

--------------------------------------------------------------------------------
(* Removals.  What an actor may act on: parked is only what somebody turned *)
(* off, the registrations it knows have the names it knows them under, and *)
(* the one it is about to drop is of the camera it restarts.  The recording *)
(* request holds an "off" nobody has stored yet, and never parks.          *)
OffIsKnown == \A c \in Cams : store[c] = "off" => c \in everOff

ParksOnlyOff(a) ==
  job[a].kind # "recording" => \A c \in Cams : job[a].desired[c] = "off" => c \in everOff
TogglesApart(a) == job[a].kind = "recording" => pc[a] \in {"write", "toggle"}
LiveIsNamed(a) ==
  \A c \in Cams : job[a].live[c] # None =>
    job[a].live[c] <= minted /\ sensors[job[a].live[c]].name = c
DropsItsOwn(a) ==
  /\ pc[a] \in {"find", "drop"} => job[a].kind = "restart"
  /\ pc[a] = "drop" /\ job[a].uuid # None =>
       job[a].uuid <= minted /\ sensors[job[a].uuid].name = job[a].cam

Fits(a)    == ParksOnlyOff(a) /\ TogglesApart(a) /\ LiveIsNamed(a) /\ DropsItsOwn(a)
RemovalInv == TypeOK /\ OffIsKnown /\ \A a \in Actors : Fits(a)

(* Others' jobs go on fitting: registrations keep their names, and what    *)
(* was ever off stays so.                                                  *)
Grows == /\ minted <= minted'
         /\ \A v \in Uuids : v <= minted => sensors'[v].name = sensors[v].name
         /\ everOff \subseteq everOff'

LEMMA OthersFit ==
  ASSUME RemovalInv, TypeOK', Grows, NEW b \in Actors,
         pc'[b] = pc[b], job'[b] = job[b]
  PROVE  Fits(b)'
<1>1. Fits(b) /\ job[b] \in Jobs /\ minted \in Nat /\ minted' \in Nat
  BY ConstantsAssumption DEF RemovalInv, TypeOK
<1>2. \A u \in Uuids \union {None} : u # None => u \in Uuids
  OBVIOUS
<1>3. ParksOnlyOff(b)' /\ TogglesApart(b)'
  BY <1>1 DEF Fits, ParksOnlyOff, TogglesApart, Grows
<1>4. LiveIsNamed(b)'
  <2> SUFFICES ASSUME NEW c \in Cams, job[b].live[c] # None
               PROVE  job[b].live[c] <= minted' /\ sensors'[job[b].live[c]].name = c
    BY DEF LiveIsNamed
  <2>1. job[b].live[c] \in Uuids
    BY <1>1 DEF Jobs
  <2>2. job[b].live[c] <= minted /\ sensors[job[b].live[c]].name = c
    BY <1>1 DEF Fits, LiveIsNamed
  <2> QED  BY <1>1, <2>1, <2>2 DEF Grows, Uuids
<1>5. DropsItsOwn(b)'
  <2>1. job[b].uuid # None => job[b].uuid \in Uuids
    BY <1>1 DEF Jobs
  <2> QED  BY <1>1, <2>1 DEF Fits, DropsItsOwn, Grows, Uuids
<1> QED  BY <1>3, <1>4, <1>5 DEF Fits

(* So a step of one actor need only be shown to leave that one's job fit.  *)
LEMMA StepFits ==
  ASSUME RemovalInv, TypeOK', Grows, OffIsKnown', NEW a \in Actors, Fits(a)',
         \A b \in Actors \ {a} : pc'[b] = pc[b] /\ job'[b] = job[b]
  PROVE  RemovalInv'
BY OthersFit DEF RemovalInv

LEMMA NoJobFits ==
  ASSUME NEW a \in Actors, job'[a] = NoJob, pc'[a] \notin {"find", "drop"}
  PROVE  Fits(a)'
BY DEF NoJob, Nobody, Fits, ParksOnlyOff, TogglesApart, LiveIsNamed, DropsItsOwn

LEMMA Moves ==
  ASSUME TypeOK, NEW a \in Actors, NEW from, NEW to, NEW j, Goto(a, from, to), Keep(a, j)
  PROVE  /\ pc[a] = from /\ pc'[a] = to /\ job'[a] = j
         /\ \A b \in Actors \ {a} : pc'[b] = pc[b] /\ job'[b] = job[b]
BY DEF Goto, Keep, TypeOK

(* A step that leaves VST and the history alone.                           *)
LEMMA QuietGrows ==
  ASSUME TypeOK, UNCHANGED <<sensors, minted>>, everOff \subseteq everOff'
  PROVE  Grows
BY ConstantsAssumption DEF Grows, TypeOK

LEMMA StoredKnown ==
  ASSUME RemovalInv, NEW c \in Cams, NEW e \in EntryStates, Stored(c, e)
  PROVE  /\ OffIsKnown' /\ everOff \subseteq everOff'
         /\ e = "off" => c \in everOff'
BY DEF Stored, RemovalInv, OffIsKnown, TypeOK

LEMMA DeleteGrows ==
  ASSUME TypeOK, NEW u, Delete(u), UNCHANGED <<minted, everOff>>
  PROVE  Grows
BY DeleteTyped, ConstantsAssumption DEF Grows, TypeOK

(* The steps of a pass.                                                    *)
LEMMA ReconcileFits ==
  ASSUME RemovalInv, TypeOK', NEW a \in Actors, Reconcile(a)
  PROVE  RemovalInv'
<1>0. /\ TypeOK /\ OffIsKnown /\ Fits(a) /\ job[a] \in Jobs /\ job[a].kind \in Kinds
      /\ minted \in Nat
  BY JobFields, ConstantsAssumption DEF RemovalInv, Jobs, TypeOK
<1> USE DEF World, vstVars
<1>q. ASSUME UNCHANGED <<store, everOff>>  PROVE OffIsKnown'
  BY <1>0, <1>q DEF OffIsKnown
<1>1. CASE ListSensors(a)
  <2> DEFINE j(seen) == [job[a] EXCEPT !.live = seen,
            !.todo = {c \in Cams : \/ IsParked(job[a].desired[c]) /\ seen[c] # None
                                   \/ IsWanted(job[a].desired[c]) /\ seen[c] = None}]
  <2>1. PICK seen \in [Cams -> Uuids \union {None}] :
          /\ \A c \in Cams : seen[c] \in Last(Listed(c))
          /\ Goto(a, "list", "each")
          /\ Keep(a, j(seen))
    BY <1>1 DEF ListSensors
  <2>2. UNCHANGED <<store, sensors, minted, everOff>>
    BY <1>1 DEF ListSensors
  <2>3. /\ j(seen).kind = job[a].kind /\ j(seen).desired = job[a].desired
        /\ j(seen).live = seen
    BY <1>0 DEF Jobs
  <2>4. pc[a] = "list" /\ pc'[a] = "each" /\ job'[a] = j(seen)
    BY <1>0, <2>1, Moves
  <2>5. \A c \in Cams : seen[c] # None => seen[c] <= minted /\ sensors[seen[c]].name = c
    BY <1>0, <2>1, LastListed, ListedIsMinted
  <2> HIDE DEF j
  <2>6. Fits(a)'
    BY <1>0, <2>2, <2>3, <2>4, <2>5
    DEF Fits, ParksOnlyOff, TogglesApart, LiveIsNamed, DropsItsOwn
  <2>7. Grows /\ OffIsKnown'
    BY <1>0, <1>q, <2>2, QuietGrows
  <2> QED  BY <1>0, <2>1, <2>6, <2>7, Moves, StepFits
<1>2. CASE Resolve(a)
  <2> DEFINE j(u) == IF u = None THEN Handled(a, job[a].cam) ELSE [job[a] EXCEPT !.uuid = u]
  <2>1. PICK u : Goto(a, "resolve", IF u = None THEN "each" ELSE "arm") /\ Keep(a, j(u))
    BY <1>2 DEF Resolve
  <2>2. UNCHANGED <<store, sensors, minted, everOff>>
    BY <1>2 DEF Resolve
  <2>3. /\ j(u).kind = job[a].kind /\ j(u).desired = job[a].desired
        /\ j(u).live = job[a].live
    BY <1>0 DEF Jobs, Handled
  <2> HIDE DEF j
  <2>4. pc[a] = "resolve" /\ pc'[a] \in {"each", "arm"} /\ job'[a] = j(u)
    BY <1>0, <2>1, Moves
  <2>5. Fits(a)'
    BY <1>0, <2>2, <2>3, <2>4
    DEF Fits, ParksOnlyOff, TogglesApart, LiveIsNamed, DropsItsOwn
  <2>6. Grows /\ OffIsKnown'
    BY <1>0, <1>q, <2>2, QuietGrows
  <2> QED  BY <1>0, <2>1, <2>5, <2>6, Moves, StepFits
<1>3. CASE Arm(a)
  <2>1. Goto(a, "arm", "each") /\ Keep(a, Handled(a, job[a].cam)) /\ StartStream(job[a].uuid)
    BY <1>3 DEF Arm
  <2>2. UNCHANGED <<store, minted, everOff>>
    BY <1>3 DEF Arm
  <2>3. /\ Handled(a, job[a].cam).kind = job[a].kind
        /\ Handled(a, job[a].cam).desired = job[a].desired
        /\ Handled(a, job[a].cam).live = job[a].live
    BY <1>0 DEF Jobs, Handled
  <2>4. pc[a] = "arm" /\ pc'[a] = "each" /\ job'[a] = Handled(a, job[a].cam)
    BY <1>0, <2>1, Moves
  <2>5. \A v \in Uuids : sensors'[v].name = sensors[v].name
    BY <1>0, <2>1, StartTyped
  <2>6. Grows
    BY <1>0, <2>2, <2>5 DEF Grows
  <2>7. \A c \in Cams : job[a].live[c] # None => job[a].live[c] \in Uuids
    BY <1>0 DEF Jobs
  <2>8. Fits(a)'
    BY <1>0, <2>2, <2>3, <2>4, <2>5, <2>7
    DEF Fits, ParksOnlyOff, TogglesApart, LiveIsNamed, DropsItsOwn
  <2> QED  BY <1>0, <1>q, <2>1, <2>2, <2>6, <2>8, Moves, StepFits
<1>4. CASE Finish(a)
  <2>1. Goto(a, "each", "idle") /\ Keep(a, NoJob) /\ UNCHANGED <<store, sensors, minted, everOff>>
    BY <1>4 DEF Finish
  <2>2. Fits(a)' /\ Grows /\ OffIsKnown'
    BY <1>0, <1>q, <2>1, Moves, NoJobFits, QuietGrows
  <2> QED  BY <1>0, <2>1, <2>2, Moves, StepFits
<1>5. ASSUME NEW c \in Cams, Park(a, c)  PROVE RemovalInv'
  <2> DEFINE j == IF Deletable(job[a].live[c]) THEN Handled(a, c) ELSE Failed(a, c)
  <2>1. Goto(a, "each", "each") /\ Keep(a, j) /\ Delete(job[a].live[c])
    BY <1>5 DEF Park
  <2>2. UNCHANGED <<store, minted, everOff>>
    BY <1>5 DEF Park
  <2>3. j.kind = job[a].kind /\ j.desired = job[a].desired /\ j.live = job[a].live
    BY <1>0 DEF Jobs, Handled, Failed
  <2> HIDE DEF j
  <2>4. pc[a] = "each" /\ pc'[a] = "each" /\ job'[a] = j
    BY <1>0, <2>1, Moves
  <2>5. \A v \in Uuids : sensors'[v].name = sensors[v].name
    BY <1>0, <2>1, DeleteTyped
  <2>6. \A d \in Cams : job[a].live[d] # None => job[a].live[d] \in Uuids
    BY <1>0 DEF Jobs
  <2>7. Fits(a)'
    BY <1>0, <2>2, <2>3, <2>4, <2>5, <2>6
    DEF Fits, ParksOnlyOff, TogglesApart, LiveIsNamed, DropsItsOwn
  <2>8. Grows
    BY <1>0, <2>1, <2>2, DeleteGrows
  <2> QED  BY <1>0, <1>q, <2>1, <2>2, <2>7, <2>8, Moves, StepFits
<1>6. ASSUME NEW c \in Cams, AddFails(a, c) \/ AddConflicts(a, c)  PROVE RemovalInv'
  <2>1. PICK to \in {"each", "resolve"}, j \in {Failed(a, c), [job[a] EXCEPT !.cam = c]} :
          Goto(a, "each", to) /\ Keep(a, j)
    BY <1>6 DEF AddFails, AddConflicts
  <2>2. UNCHANGED <<store, sensors, minted, everOff>>
    BY <1>6 DEF AddFails, AddConflicts
  <2>3. j.kind = job[a].kind /\ j.desired = job[a].desired /\ j.live = job[a].live
    BY <1>0 DEF Jobs, Handled, Failed
  <2>4. pc[a] = "each" /\ pc'[a] = to /\ job'[a] = j
    BY <1>0, <2>1, Moves
  <2>5. Fits(a)'
    BY <1>0, <2>2, <2>3, <2>4
    DEF Fits, ParksOnlyOff, TogglesApart, LiveIsNamed, DropsItsOwn
  <2>6. Grows /\ OffIsKnown'
    BY <1>0, <1>q, <2>2, QuietGrows
  <2> QED  BY <1>0, <2>1, <2>5, <2>6, Moves, StepFits
<1>7. ASSUME NEW c \in Cams, AddSensor(a, c)  PROVE RemovalInv'
  <2> DEFINE j == [job[a] EXCEPT !.cam = c, !.uuid = minted + 1]
  <2>1. Goto(a, "each", "arm") /\ Keep(a, j) /\ Mint(c)
    BY <1>7 DEF AddSensor
  <2>2. UNCHANGED <<store, everOff>>
    BY <1>7 DEF AddSensor
  <2>3. j.kind = job[a].kind /\ j.desired = job[a].desired /\ j.live = job[a].live
    BY <1>0 DEF Jobs
  <2> HIDE DEF j
  <2>4. pc[a] = "each" /\ pc'[a] = "arm" /\ job'[a] = j
    BY <1>0, <2>1, Moves
  <2>5. minted' = minted + 1 /\ \A v \in Uuids : v # minted + 1 => sensors'[v] = sensors[v]
    BY <1>0, <2>1, MintTyped
  <2>6. Grows
    BY <1>0, <2>2, <2>5 DEF Grows, Uuids
  <2>7. \A d \in Cams : job[a].live[d] # None => job[a].live[d] \in Uuids
    BY <1>0 DEF Jobs
  <2>8. LiveIsNamed(a)'
    <3> SUFFICES ASSUME NEW d \in Cams, job[a].live[d] # None
                 PROVE  job[a].live[d] <= minted' /\ sensors'[job[a].live[d]].name = d
      BY <2>3, <2>4 DEF LiveIsNamed
    <3>1. job[a].live[d] <= minted /\ sensors[job[a].live[d]].name = d
      BY <1>0 DEF Fits, LiveIsNamed
    <3> QED  BY <1>0, <2>5, <2>7, <3>1 DEF Uuids
  <2>9. Fits(a)'
    BY <1>0, <2>2, <2>3, <2>4, <2>8
    DEF Fits, ParksOnlyOff, TogglesApart, DropsItsOwn
  <2> QED  BY <1>0, <1>q, <2>1, <2>2, <2>6, <2>9, Moves, StepFits
<1> QED  BY <1>1, <1>2, <1>3, <1>4, <1>5, <1>6, <1>7 DEF Reconcile

(* The later steps of the routes.                                          *)
LEMMA HandleFits ==
  ASSUME RemovalInv, TypeOK', NEW a \in Actors, Handle(a)
  PROVE  RemovalInv'
<1>0. /\ TypeOK /\ OffIsKnown /\ Fits(a) /\ job[a] \in Jobs /\ job[a].kind \in Kinds
      /\ minted \in Nat /\ job[a].cam \in Cams /\ job[a].desired \in [Cams -> EntryStates]
  BY JobFields, ConstantsAssumption DEF RemovalInv, Jobs, TypeOK
<1> USE DEF World, vstVars
<1>q. ASSUME UNCHANGED <<store, everOff>>  PROVE OffIsKnown'
  BY <1>0, <1>q DEF OffIsKnown
<1>1. CASE Upsert(a)
  <2> DEFINE c == job[a].cam
             e == job[a].desired[c]
             next == IF job[a].kind = "edit" THEN "list" ELSE IF e = "unset" THEN "idle" ELSE "toggle"
             j == IF next = "idle" THEN NoJob ELSE job[a]
  <2>1. Goto(a, "write", next) /\ Stored(c, e) /\ Keep(a, j) /\ UNCHANGED <<sensors, minted>>
    BY <1>1 DEF Upsert
  <2>2. next \notin {"find", "drop"} /\ (job[a].kind = "recording" => next \in {"toggle", "idle"})
    OBVIOUS
  <2>3. OffIsKnown' /\ everOff \subseteq everOff'
    BY <1>0, <2>1, StoredKnown
  <2>4. pc'[a] = next /\ job'[a] = j
    BY <1>0, <2>1, Moves
  <2>5. Grows
    BY <1>0, <2>1, <2>3, QuietGrows
  <2>6. Fits(a)'
    <3>1. CASE next = "idle"
      BY <3>1, <2>4, NoJobFits
    <3>2. CASE next # "idle"
      <4>1. job'[a] = job[a]
        BY <3>2, <2>4
      <4> HIDE DEF next, j
      <4> QED  BY <1>0, <2>1, <2>2, <2>3, <2>4, <3>2, <4>1
               DEF Fits, ParksOnlyOff, TogglesApart, LiveIsNamed, DropsItsOwn
    <3> QED  BY <3>1, <3>2
  <2> HIDE DEF j, next
  <2> QED  BY <1>0, <2>1, <2>3, <2>5, <2>6, Moves, StepFits
<1>2. CASE ToggleByName(a)
  <2>1. Goto(a, "toggle", "idle") /\ Keep(a, NoJob) /\ UNCHANGED <<store, sensors, minted, everOff>>
    BY <1>2 DEF ToggleByName
  <2>2. Fits(a)' /\ Grows /\ OffIsKnown'
    BY <1>0, <1>q, <2>1, Moves, NoJobFits, QuietGrows
  <2> QED  BY <1>0, <2>1, <2>2, Moves, StepFits
<1>3. CASE UnregisterByName(a)
  <2>1. Goto(a, "unregister", "erase") /\ UNCHANGED <<store, sensors, minted, everOff, job>>
    BY <1>3 DEF UnregisterByName
  <2>2. /\ pc[a] = "unregister" /\ pc'[a] = "erase"
        /\ \A b \in Actors \ {a} : pc'[b] = pc[b] /\ job'[b] = job[b]
    BY <1>0, <2>1 DEF Goto, TypeOK
  <2>3. Fits(a)'
    BY <1>0, <2>1, <2>2
    DEF Fits, ParksOnlyOff, TogglesApart, LiveIsNamed, DropsItsOwn
  <2>4. Grows /\ OffIsKnown'
    BY <1>0, <1>q, <2>1, QuietGrows
  <2> QED  BY <2>2, <2>3, <2>4, StepFits
<1>4. CASE EraseCamera(a)
  <2>1. Goto(a, "erase", "idle") /\ Keep(a, NoJob) /\ Stored(job[a].cam, "absent")
        /\ UNCHANGED <<sensors, minted>>
    BY <1>4 DEF EraseCamera
  <2>2. OffIsKnown' /\ everOff \subseteq everOff'
    BY <1>0, <2>1, StoredKnown, "absent" \in EntryStates DEF EntryStates
  <2>3. Fits(a)' /\ Grows
    BY <1>0, <2>1, <2>2, Moves, NoJobFits, QuietGrows
  <2> QED  BY <1>0, <2>1, <2>2, <2>3, Moves, StepFits
<1>5. CASE FindActive(a)
  <2> DEFINE c == job[a].cam
             online == {u \in Listed(c) : sensors[u].state = "online"}
             found == IF online = {} THEN Listed(c) ELSE online
             known(u) == u # None \/ job[a].desired[c] # "absent"
             k(u) == [job[a] EXCEPT !.uuid = u, !.desired = Only(c, "on")]
             j(u) == IF known(u) THEN k(u) ELSE NoJob
  <2>1. PICK u \in First(found) :
          Goto(a, "find", IF known(u) THEN "drop" ELSE "idle") /\ Keep(a, j(u))
    BY <1>5 DEF FindActive
  <2>2. UNCHANGED <<store, sensors, minted, everOff>>
    BY <1>5 DEF FindActive
  <2>3. pc[a] = "find" /\ pc'[a] = (IF known(u) THEN "drop" ELSE "idle") /\ job'[a] = j(u)
    BY <1>0, <2>1, Moves
  <2>4. u # None => u <= minted /\ sensors[u].name = c
    <3>1. u # None => u \in found
      BY <2>1, FirstListed
    <3>2. found \subseteq Listed(c)
      OBVIOUS
    <3> QED  BY <1>0, <3>1, <3>2, ListedIsMinted
  <2>5. /\ k(u).kind = job[a].kind /\ k(u).live = job[a].live /\ k(u).uuid = u /\ k(u).cam = c
        /\ \A d \in Cams : k(u).desired[d] # "off"
    BY <1>0 DEF Jobs, Only
  <2>6. Fits(a)'
    <3>1. CASE known(u)
      <4>1. job'[a] = k(u) /\ pc'[a] = "drop"
        BY <3>1, <2>3
      <4> HIDE DEF k, known, found, online
      <4> QED  BY <1>0, <2>2, <2>3, <2>4, <2>5, <4>1
               DEF Fits, ParksOnlyOff, TogglesApart, LiveIsNamed, DropsItsOwn
    <3>2. CASE ~known(u)
      BY <3>2, <2>3, NoJobFits
    <3> QED  BY <3>1, <3>2
  <2>7. Grows /\ OffIsKnown'
    BY <1>0, <1>q, <2>2, QuietGrows
  <2> HIDE DEF j, known, found
  <2> QED  BY <1>0, <2>1, <2>6, <2>7, Moves, StepFits
<1>6. CASE DropActive(a)
  <2> DEFINE j == [job[a] EXCEPT !.todo = {job[a].cam}]
  <2>1. Goto(a, "drop", "each") /\ Keep(a, j) /\ Delete(job[a].uuid)
        /\ UNCHANGED <<store, minted, everOff>>
    BY <1>6 DEF DropActive
  <2>2. j.kind = job[a].kind /\ j.desired = job[a].desired /\ j.live = job[a].live
    BY <1>0 DEF Jobs
  <2> HIDE DEF j
  <2>3. pc[a] = "drop" /\ pc'[a] = "each" /\ job'[a] = j
    BY <1>0, <2>1, Moves
  <2>4. \A v \in Uuids : sensors'[v].name = sensors[v].name
    BY <1>0, <2>1, DeleteTyped
  <2>5. \A d \in Cams : job[a].live[d] # None => job[a].live[d] \in Uuids
    BY <1>0 DEF Jobs
  <2>6. Fits(a)'
    BY <1>0, <2>1, <2>2, <2>3, <2>4, <2>5
    DEF Fits, ParksOnlyOff, TogglesApart, LiveIsNamed, DropsItsOwn
  <2>7. Grows
    BY <1>0, <2>1, DeleteGrows
  <2> QED  BY <1>0, <1>q, <2>1, <2>6, <2>7, Moves, StepFits
<1> QED  BY <1>1, <1>2, <1>3, <1>4, <1>5, <1>6 DEF Handle

(* A request that begins knows no registration yet.                        *)
LEMMA RequestFits ==
  ASSUME RemovalInv, TypeOK', NEW a \in Actors, NEW c \in Cams, NEW k, NEW d, NEW to,
         Request(a, c, k, d, to), OffIsKnown', everOff \subseteq everOff',
         k # "recording" => \A b \in Cams : d[b] = "off" => b \in everOff',
         k = "recording" => to = "write",
         to # "drop", to = "find" => k = "restart"
  PROVE  RemovalInv'
<1> DEFINE j == [NoJob EXCEPT !.kind = k, !.cam = c, !.desired = d]
<1>1. TypeOK /\ Goto(a, "idle", to) /\ Keep(a, j) /\ UNCHANGED <<sensors, minted>>
  BY DEF Request, RemovalInv, vstVars
<1>2. j.kind = k /\ j.desired = d /\ \A b \in Cams : j.live[b] = None
  BY DEF NoJob, Nobody
<1> HIDE DEF j
<1>3. pc'[a] = to /\ job'[a] = j /\ Grows
  BY <1>1, Moves, QuietGrows
<1>4. Fits(a)'
  BY <1>2, <1>3 DEF Fits, ParksOnlyOff, TogglesApart, LiveIsNamed, DropsItsOwn
<1> QED  BY <1>1, <1>3, <1>4, Moves, StepFits

LEMMA AskFits ==
  ASSUME RemovalInv, TypeOK', NEW a \in Actors, Ask(a)
  PROVE  RemovalInv'
<1>1. PICK c \in Cams : \/ PostCamera(a, c) \/ PatchCamera(a, c) \/ DeleteCamera(a, c)
                        \/ RestartCamera(a, c)
                        \/ \E e \in {"unset", "on", "off"} : PutRecording(a, c, e)
  BY DEF Ask
<1>2. OffIsKnown /\ store[c] \in EntryStates
  BY DEF RemovalInv, TypeOK
<1>3. ASSUME UNCHANGED <<store, everOff>>  PROVE OffIsKnown' /\ everOff \subseteq everOff'
  BY <1>2, <1>3 DEF OffIsKnown
<1>4. CASE PostCamera(a, c)
  <2>1. Request(a, c, "add", Only(c, "unset"), "list") /\ Stored(c, "unset")
    BY <1>4 DEF PostCamera
  <2>2. OffIsKnown' /\ everOff \subseteq everOff'
    BY <2>1, StoredKnown, "unset" \in EntryStates DEF EntryStates
  <2>3. \A b \in Cams : Only(c, "unset")[b] # "off"
    BY DEF Only
  <2> QED  BY <2>1, <2>2, <2>3, RequestFits
<1>5. CASE PatchCamera(a, c)
  <2>1. Request(a, c, "edit", Only(c, store[c]), "write") /\ UNCHANGED <<store, everOff>>
    BY <1>5 DEF PatchCamera
  <2>2. \A b \in Cams : Only(c, store[c])[b] = "off" => b \in everOff'
    BY <1>2, <2>1 DEF Only, OffIsKnown
  <2> QED  BY <1>3, <2>1, <2>2, RequestFits
<1>6. CASE DeleteCamera(a, c)
  <2>1. Request(a, c, "delete", NoJob.desired, "unregister") /\ UNCHANGED <<store, everOff>>
    BY <1>6 DEF DeleteCamera
  <2>2. \A b \in Cams : NoJob.desired[b] # "off"
    BY DEF NoJob
  <2> QED  BY <1>3, <2>1, <2>2, RequestFits
<1>7. CASE RestartCamera(a, c)
  <2> DEFINE d == Only(c, IF store[c] = "absent" THEN "absent" ELSE "on")
  <2>1. Request(a, c, "restart", d, "find") /\ UNCHANGED <<store, everOff>>
    BY <1>7 DEF RestartCamera
  <2>2. \A b \in Cams : d[b] # "off"
    BY DEF Only
  <2> HIDE DEF d
  <2> QED  BY <1>3, <2>1, <2>2, RequestFits
<1>8. ASSUME NEW e \in {"unset", "on", "off"}, PutRecording(a, c, e)  PROVE RemovalInv'
  BY <1>3, <1>8, RequestFits DEF PutRecording
<1> QED  BY <1>1, <1>4, <1>5, <1>6, <1>7, <1>8

LEMMA RemovalStep == RemovalInv /\ [Next]_vars => RemovalInv'
<1> SUFFICES ASSUME RemovalInv, [Next]_vars  PROVE RemovalInv'
  OBVIOUS
<1>0. TypeOK /\ TypeOK' /\ OffIsKnown
  BY TypeStep DEF RemovalInv
<1>q. ASSUME UNCHANGED <<store, everOff>>  PROVE OffIsKnown' /\ everOff \subseteq everOff'
  BY <1>0, <1>q DEF OffIsKnown
<1>1. ASSUME NEW a \in Actors, BeginPass(a)  PROVE RemovalInv'
  <2> DEFINE j == [NoJob EXCEPT !.kind = "pass", !.desired = store]
  <2>1. Goto(a, "idle", "list") /\ Keep(a, j) /\ UNCHANGED <<store, sensors, minted, everOff>>
    BY <1>1 DEF BeginPass, vstVars
  <2>2. j.kind = "pass" /\ j.desired = store /\ \A b \in Cams : j.live[b] = None
    BY DEF NoJob, Nobody
  <2> HIDE DEF j
  <2>3. pc'[a] = "list" /\ job'[a] = j
    BY <1>0, <2>1, Moves
  <2>4. Fits(a)'
    BY <1>0, <2>1, <2>2, <2>3
    DEF Fits, ParksOnlyOff, TogglesApart, LiveIsNamed, DropsItsOwn, OffIsKnown
  <2>5. Grows /\ OffIsKnown'
    BY <1>0, <1>q, <2>1, QuietGrows
  <2> QED  BY <1>0, <2>1, <2>4, <2>5, Moves, StepFits
<1>2. ASSUME NEW a \in Actors, Crash(a)  PROVE RemovalInv'
  <2>1. /\ pc' = [pc EXCEPT ![a] = "idle"] /\ job' = [job EXCEPT ![a] = NoJob]
        /\ UNCHANGED <<store, sensors, minted, everOff>>
    BY <1>2 DEF Crash, vstVars, Keep
  <2>2. pc'[a] = "idle" /\ job'[a] = NoJob /\ \A b \in Actors \ {a} : pc'[b] = pc[b] /\ job'[b] = job[b]
    BY <1>0, <2>1 DEF TypeOK
  <2>3. Fits(a)' /\ Grows /\ OffIsKnown'
    BY <1>0, <1>q, <2>1, <2>2, NoJobFits, QuietGrows
  <2> QED  BY <1>0, <2>2, <2>3, StepFits
<1>3. ASSUME UNCHANGED <<store, sensors, minted, everOff, pc, job>>  PROVE RemovalInv'
  <2>1. OffIsKnown' /\ Grows
    BY <1>0, <1>3, <1>q, QuietGrows
  <2> QED  BY <1>0, <1>3, <2>1, OthersFit DEF RemovalInv
<1>4. CASE VstDown \/ VstBack \/ UNCHANGED vars
  BY <1>3, <1>4 DEF VstDown, VstBack, vars, vstVars
<1> QED  BY <1>0, <1>1, <1>2, <1>4, ReconcileFits, HandleFits, AskFits DEF Next

(* The two steps that delete: parking takes a camera that was turned off,  *)
(* a restart takes its own; no other step takes a sensor offline.          *)
LEMMA OnlyOwnRemoved ==
  ASSUME RemovalInv, [Next]_vars, NEW u \in Uuids,
         sensors[u].state = "online", sensors'[u].state # "online"
  PROVE  \/ sensors[u].name \in everOff
         \/ \E a \in Actors : job[a].kind = "restart" /\ job[a].cam = sensors[u].name
<1>0. TypeOK /\ OffIsKnown /\ \A a \in Actors : Fits(a)
  BY DEF RemovalInv
<1>1. ASSUME NEW a \in Actors, NEW c \in Cams, Park(a, c)  PROVE sensors[u].name \in everOff
  <2>1. u = job[a].live[c] /\ u # None
    BY <1>0, <1>1, DeleteTyped DEF Park
  <2>2. sensors[u].name = c
    BY <1>0, <2>1 DEF Fits, LiveIsNamed
  <2>3. pc[a] = "each" /\ job[a].desired[c] = "off"
    BY <1>1 DEF Park, Goto, IsParked
  <2>4. job[a].kind # "recording"
    BY <1>0, <2>3 DEF Fits, TogglesApart
  <2> QED  BY <1>0, <2>2, <2>3, <2>4 DEF Fits, ParksOnlyOff
<1>2. ASSUME NEW a \in Actors, DropActive(a)
      PROVE  job[a].kind = "restart" /\ job[a].cam = sensors[u].name
  <2>1. u = job[a].uuid /\ u # None
    BY <1>0, <1>2, DeleteTyped DEF DropActive
  <2>2. pc[a] = "drop"
    BY <1>2 DEF DropActive, Goto
  <2> QED  BY <1>0, <2>1, <2>2 DEF Fits, DropsItsOwn
<1>3. ASSUME NEW a \in Actors, Arm(a)  PROVE FALSE
  BY <1>0, <1>3, StartTyped DEF Arm
<1>4. ASSUME NEW a \in Actors, NEW c \in Cams, AddSensor(a, c)  PROVE FALSE
  BY <1>0, <1>4, MintTyped DEF AddSensor
<1>5. sensors' # sensors
  OBVIOUS
<1>6. PICK a \in Actors : Arm(a) \/ DropActive(a) \/ \E c \in Cams : Park(a, c) \/ AddSensor(a, c)
  <2>1. ASSUME NEW a \in Actors, Reconcile(a)
        PROVE  Arm(a) \/ \E c \in Cams : Park(a, c) \/ AddSensor(a, c)
    BY <1>5, <2>1 DEF Reconcile, ListSensors, Resolve, Finish, AddFails, AddConflicts, vstVars
  <2>2. ASSUME NEW a \in Actors, Handle(a)  PROVE DropActive(a)
    BY <1>5, <2>2 DEF Handle, Upsert, ToggleByName, UnregisterByName, EraseCamera, FindActive, vstVars
  <2>3. ASSUME NEW a \in Actors, Ask(a)  PROVE FALSE
    BY <1>5, <2>3 DEF Ask, PostCamera, PatchCamera, DeleteCamera, RestartCamera, PutRecording,
                      Request, vstVars
  <2> QED  BY <1>5, <2>1, <2>2, <2>3 DEF Next, BeginPass, Crash, VstDown, VstBack, vars, vstVars
<1> QED  BY <1>1, <1>2, <1>3, <1>4, <1>6

(* Whatever fails, dies or interleaves, with tombstones or without, a      *)
(* sensor is deregistered only for a camera some operator turned off, or   *)
(* by a restart of that camera.                                            *)
THEOREM RemovalsAreOwn == Spec => NoForeignRemoval
<1>1. Init => RemovalInv
  <2> SUFFICES ASSUME Init  PROVE RemovalInv
    OBVIOUS
  <2>1. TypeOK
    BY ConstantsAssumption, SomeCamTyped, NoJobTyped
    DEF Init, TypeOK, EntryStates, States, Points
  <2>2. OffIsKnown
    BY DEF Init, OffIsKnown
  <2>3. ASSUME NEW a \in Actors  PROVE Fits(a)
    BY DEF Init, NoJob, Nobody, Fits, ParksOnlyOff, TogglesApart, LiveIsNamed, DropsItsOwn
  <2> QED  BY <2>1, <2>2, <2>3 DEF RemovalInv
<1>2. RemovalInv /\ [Next]_vars =>
        [\A u \in Uuids :
           sensors[u].state = "online" /\ sensors'[u].state # "online"
             => \/ sensors[u].name \in everOff
                \/ \E a \in Actors : job[a].kind = "restart" /\ job[a].cam = sensors[u].name]_vars
  BY OnlyOwnRemoved
<1> QED  BY <1>1, <1>2, RemovalStep, PTL DEF Spec, NoForeignRemoval
================================================================================
