-------------------------------- MODULE Topology -------------------------------
(***************************************************************************)
(* The topology page: the graph /api/topology answers (static components   *)
(* and one node per camera), the live snapshot it is merged with, which    *)
(* comes over SSE and by polling when SSE is given up, and the layout.     *)
(*                                                                         *)
(* A VST sensor is a record of its name and state.  A node is a pair: a    *)
(* component and 0, or "feed" and the place in VST's list of the sensor it *)
(* stands for.  Lengths on the canvas are doubled, so that halves stay     *)
(* integers.                                                               *)
(***************************************************************************)
EXTENDS Integers, Sequences, FiniteSets, SequencesExt

CONSTANTS SensorLists, \* VST's list to begin with: sequences of [name, state]
          Added,       \* a camera added again
          MaxAttempts, \* MAX_ATTEMPTS
          MaxTurns     \* bound: changes of the box

VARIABLES
  sensors, \* VST's list
  box,     \* [sim: a camera-sim host is configured, nim: "listed", "absent",
           \*  "unlistable", turns]
  payload, \* the graph last answered: the lists it was made from, or none
  conn,    \* [es, attempt, failed]: the SSE connection
  saved    \* ids of the nodes the user placed

vars == <<sensors, box, payload, conn, saved>>

(* The components of the Helm layout: authored place and its number in the *)
(* list.                                                                   *)
Components ==
  [camera_sim |-> <<50, 300, 1>>, mediamtx |-> <<220, 300, 2>>, sensor |-> <<420, 180, 3>>,
   streamprocessing |-> <<420, 380, 4>>, rtvi_vlm |-> <<640, 180, 5>>, nim |-> <<860, 180, 6>>,
   kafka |-> <<750, 520, 7>>, analytics |-> <<960, 380, 8>>, agent |-> <<960, 180, 9>>,
   s3 |-> <<1180, 500, 10>>, cache |-> <<640, 500, 11>>, postgres |-> <<280, 560, 12>>,
   redis |-> <<420, 620, 13>>]

StaticEdges ==
  {<<"camera_sim", "mediamtx">>, <<"mediamtx", "sensor">>, <<"sensor", "streamprocessing">>,
   <<"streamprocessing", "rtvi_vlm">>, <<"rtvi_vlm", "nim">>, <<"nim", "rtvi_vlm">>,
   <<"agent", "nim">>, <<"agent", "sensor">>, <<"rtvi_vlm", "kafka">>, <<"kafka", "analytics">>,
   <<"sensor", "cache">>, <<"cache", "s3">>, <<"sensor", "postgres">>, <<"sensor", "redis">>,
   <<"rtvi_vlm", "redis">>, <<"console", "s3">>}

(* The components a box need not run; a namespace that could not be listed *)
(* says nothing of the NIM.                                                *)
Absent(b) == (IF b.sim THEN {} ELSE {"camera_sim", "mediamtx"})
             \union (IF b.nim = "absent" THEN {"nim"} ELSE {})

Live(list)  == {i \in DOMAIN list : list[i].state # "removed"}
Named(list, n) == {i \in Live(list) : list[i].name = n}
Least(S)    == CHOOSE i \in S : \A j \in S : i <= j
Greatest(S) == CHOOSE i \in S : \A j \in S : j <= i

\* (variant) every sensor that is not removed has a node
FeedPerSensor(list) == Live(list)

(* fetchFeedNodes: of the live sensors of one name the first online one,   *)
(* and when none is, the last.                                             *)
Feeds(list) ==
  {i \in Live(list) :
     LET same   == Named(list, list[i].name)
         online == {j \in same : list[j].state = "online"}
     IN i = IF online # {} THEN Least(online) ELSE Greatest(same)}

\* (variant) a left-out node keeps its edges
EdgesOfAll(p) ==
  {<<<<e[1], 0>>, <<e[2], 0>>>> : e \in StaticEdges}
  \union {<<<<"feed", i>>, <<"mediamtx", 0>>>> : i \in Feeds(p.list)}

(* GET: static nodes that are not absent, one per camera, and the edges.   *)
FeedNodes(p) == {<<"feed", i>> : i \in Feeds(p.list)}
Present(p)   == DOMAIN Components \ Absent(p.box)
Nodes(p) == {<<c, 0>> : c \in Present(p)} \union FeedNodes(p)
Edges(p) ==
  {<<<<e[1], 0>>, <<e[2], 0>>>> :
     e \in {d \in StaticEdges : d[1] \notin Absent(p.box) /\ d[2] \notin Absent(p.box)}}
  \union {<<n, <<IF p.box.sim THEN "mediamtx" ELSE "sensor", 0>>>> : n \in FeedNodes(p)}

--------------------------------------------------------------------------------
(* A feed node stands beside the camera sim, in the order in which the     *)
(* names came in VST's list.                                               *)
FirstOf(list, i) == Least(Named(list, list[i].name))
Turn(list, i) == Cardinality({FirstOf(list, j) : j \in Live(list)} \intersect (1 .. FirstOf(list, i) - 1))
Across(p, n)  == IF n[1] = "feed" THEN 50 + 40 * Turn(p.list, n[2]) ELSE Components[n[1]][1]

(* buildStageIndexById: authored columns of 200, made dense.               *)
Stages(p) ==
  LET xs      == {Across(p, n) : n \in Nodes(p)}
      bucket  == [n \in Nodes(p) |-> (Across(p, n) - Least(xs) + 100) \div 200]
      buckets == Range(bucket)
  IN [n \in Nodes(p) |-> Cardinality({b \in buckets : b < bucket[n]})]

RoundedRoot(n) == CHOOSE k \in 0 .. n : (2 * k - 1) * (2 * k - 1) <= 4 * n
                                        /\ 4 * n < (2 * k + 1) * (2 * k + 1)
Columns(n) == IF n = 0 THEN 0 ELSE IF RoundedRoot(n) < 2 THEN 2 ELSE RoundedRoot(n)
Ceil(m, n) == (m + n - 1) \div n

\* (variant) the pipeline begins at the left margin
NoLane(n) == 0
LaneWidth(n) == IF n = 0 THEN 0 ELSE Columns(n) * 132 + 80

(* A column is sorted by height, and the sort is stable.                   *)
Above(a, b) ==
  LET p == Components[a[1]]
      q == Components[b[1]]
  IN p[2] < q[2] \/ (p[2] = q[2] /\ p[3] < q[3])

(* applyFlowLayout, of the nodes the user has not placed: the cameras in a *)
(* block to the left, in some fixed order of their ids, and the pipeline's *)
(* stages as columns.                                                      *)
FeedPlaces(p) ==
  LET feeds  == FeedNodes(p) \ saved
      cols   == Columns(Cardinality(feeds))
      rows   == Ceil(Cardinality(feeds), cols)
      Nth(n) == Cardinality({m \in feeds : m[2] < n[2]})
  IN {<<n, 2 * (40 + (Nth(n) % cols) * 132),
        2 * 320 - (rows - 1) * 72 + 2 * (Nth(n) \div cols) * 72>> : n \in feeds}
PipelinePlaces(p) ==
  LET auto   == Nodes(p) \ (FeedNodes(p) \union saved)
      stage  == Stages(p)
      stages == {stage[n] : n \in auto}
      left   == LaneWidth(Cardinality(FeedNodes(p) \ saved))
      Column(n) == {m \in auto : stage[m] = stage[n]}
      Row(n) == Cardinality({m \in Column(n) : Above(m, n)})
  IN {<<n, 2 * (40 + left + Cardinality({t \in stages : t < stage[n]}) * 248),
        2 * 320 + (2 * Row(n) - (Cardinality(Column(n)) - 1)) * 168>> : n \in auto}

--------------------------------------------------------------------------------
NoPayload == [list |-> <<>>, box |-> [sim |-> FALSE, nim |-> "absent", turns |-> 0],
              there |-> FALSE]

Init ==
  /\ sensors \in SensorLists
  /\ box \in [sim : BOOLEAN, nim : {"listed", "absent", "unlistable"}, turns : {0}]
  /\ payload = NoPayload
  /\ conn = [es |-> "opening", attempt |-> 0, failed |-> FALSE]
  /\ saved = {}

(* A camera is removed, of which VST keeps the entry, or added again; the  *)
(* NIM starts or stops, or its namespace cannot be listed.                 *)
CameraTurns(list) ==
  /\ box.turns < MaxTurns
  /\ sensors' = list
  /\ box' = [box EXCEPT !.turns = @ + 1]
  /\ UNCHANGED <<payload, conn, saved>>

NimTurns(nim) ==
  /\ box.turns < MaxTurns /\ nim # box.nim
  /\ box' = [box EXCEPT !.nim = nim, !.turns = @ + 1]
  /\ UNCHANGED <<sensors, payload, conn, saved>>

(* The three-second poll; when it fails, the last graph stays.  When VST's *)
(* list does, there are no cameras.                                        *)
Poll(listed) ==
  /\ payload' = [list |-> IF listed THEN sensors ELSE <<>>, box |-> box, there |-> TRUE]
  /\ UNCHANGED <<sensors, box, conn, saved>>

\* (variant) the last attempt ends without the fallback
GiveUpSilently ==
  /\ conn.es \in {"opening", "open"}
  /\ conn' = IF conn.attempt >= MaxAttempts THEN [conn EXCEPT !.es = "none"]
             ELSE [conn EXCEPT !.es = "later", !.attempt = @ + 1]
  /\ UNCHANGED <<sensors, box, payload, saved>>

(* onerror: closed, and scheduled again unless that was the last attempt.  *)
Breaks ==
  /\ conn.es \in {"opening", "open"}
  /\ conn' = IF conn.attempt >= MaxAttempts THEN [conn EXCEPT !.es = "none", !.failed = TRUE]
             ELSE [conn EXCEPT !.es = "later", !.attempt = @ + 1]
  /\ UNCHANGED <<sensors, box, payload, saved>>

Reconnects ==
  /\ conn.es = "later"
  /\ conn' = [conn EXCEPT !.es = "opening"]
  /\ UNCHANGED <<sensors, box, payload, saved>>

(* A snapshot event resets the back-off.                                   *)
SnapshotComes ==
  /\ conn.es \in {"opening", "open"}
  /\ conn' = [es |-> "open", attempt |-> 0, failed |-> FALSE]
  /\ UNCHANGED <<sensors, box, payload, saved>>

Drag(n) ==
  /\ payload.there /\ n \in Nodes(payload) /\ Cardinality(saved) < 1   \* bound
  /\ saved' = saved \union {n}
  /\ UNCHANGED <<sensors, box, payload, conn>>

ResetLayout == saved # {} /\ saved' = {} /\ UNCHANGED <<sensors, box, payload, conn>>

Next ==
  \/ \E i \in DOMAIN sensors : CameraTurns([sensors EXCEPT ![i].state = "removed"])
  \/ \E c \in Added : CameraTurns(Append(sensors, c))
  \/ \E nim \in {"listed", "absent", "unlistable"} : NimTurns(nim)
  \/ \E listed \in BOOLEAN : Poll(listed)
  \/ Breaks \/ Reconnects \/ SnapshotComes \/ ResetLayout
  \/ \E n \in {<<"sensor", 0>>, <<"kafka", 0>>, <<"feed", 1>>} : Drag(n)

Spec == Init /\ [][Next]_vars

--------------------------------------------------------------------------------
TypeOK ==
  /\ \A i \in DOMAIN sensors : sensors[i].state \in {"online", "offline", "removed"}
  /\ box.nim \in {"listed", "absent", "unlistable"} /\ box.turns \in 0 .. MaxTurns
  /\ Len(payload.list) <= Len(sensors) /\ payload.there \in BOOLEAN
  /\ conn.es \in {"none", "opening", "open", "later"} /\ conn.attempt \in 0 .. MaxAttempts

(* A camera has one node, whatever stale entries VST keeps of it: no node  *)
(* stands for a removed sensor, and a camera that is online under any of   *)
(* its entries is shown by such a one.                                     *)
CamerasOnce ==
  LET list == payload.list
      feeds == Feeds(list)
  IN /\ \A i, j \in feeds : list[i].name = list[j].name => i = j
     /\ \A i \in Live(list) : \E j \in feeds :
          /\ list[j].name = list[i].name
          /\ list[i].state = "online" => list[j].state = "online"

(* No edge leads to a node that was left out ("Edges to a node left out go *)
(* with it"); the console itself is drawn by no node.                      *)
NoDanglingEdge ==
  payload.there => \A e \in Edges(payload) :
    /\ e[1] \in Nodes(payload) \union {<<"console", 0>>}
    /\ e[2] \in Nodes(payload)

(* No two nodes that the layout places lie on each other, and the cameras  *)
(* are all to the left of the pipeline.                                    *)
LayoutSeparates ==
  payload.there =>
    LET feeds == FeedPlaces(payload)
        pipe  == PipelinePlaces(payload)
        all   == feeds \union pipe
    IN /\ {a[1] : a \in all} = Nodes(payload) \ saved
       /\ \A a, b \in all : a[1] # b[1] => <<a[2], a[3]>> # <<b[2], b[3]>>
       /\ \A a \in feeds, b \in pipe : a[2] < b[2]

(* The page is never left without news: a connection is up or under way,   *)
(* one is scheduled, or the poll is on.                                    *)
NeverBlind == conn.es = "none" => conn.failed
================================================================================
