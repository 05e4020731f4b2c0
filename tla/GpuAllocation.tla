----------------------------- MODULE GpuAllocation -----------------------------
(***************************************************************************)
(* How the console shows who uses the GPUs: gpu-allocation.ts puts DCGM's  *)
(* series, the nodes' labels, the pods of the watched namespaces and a     *)
(* cached probe of the agent's remote models together, each of which may   *)
(* fail alone; stream-density.ts judges the VLM's headroom.  The cards ask *)
(* again every few seconds.                                                *)
(*                                                                         *)
(* A pod is its namespace, name, phase, GPUs and readiness; a node what it *)
(* allots and its labels, zero for one it does not have.  Percentages are  *)
(* integers; Unknown stands for null.  A GPU a pod holds is the pod and a   *)
(* number.                                                                 *)
(***************************************************************************)
EXTENDS Integers, Sequences, FiniteSets, SequencesExt

CONSTANTS
  Namespaces, \* watchedNamespaces, in order
  PodSets,    \* what may run: sets of [ns, name, phase, gpus, ready, restarts]
  NodeLists,  \* what nodes there may be: sequences of [gpu, mig, strategy, replicas, count]
  Series,     \* what DCGM may answer: sequences of [gpu, pod, used, free, util]
  Ttl,        \* REMOTE_PROBE_TTL_MS in refreshes
  MaxTurns,   \* bound: changes of the cluster
  Unknown     \* null

VARIABLES
  cluster,  \* [pods, nodes, series, remote: what the endpoint answers, turns]
  cache,    \* remoteProbeCache: [health, age, there]
  snap,     \* the last answer of /api/gpu/allocation
  card      \* what the card shows: "loading", "unavailable", "scheduler", "devices"

vars == <<cluster, cache, snap, card>>

--------------------------------------------------------------------------------
(* prometheus.ts: a device's value is that of the first series with its    *)
(* index.                                                                  *)
Indices(series)  == {series[i].gpu : i \in DOMAIN series}
OfGpu(series, g) == {i \in DOMAIN series : series[i].gpu = g}
First(series, g) == series[Min(OfGpu(series, g))]
Either(m, n) == IF m # 0 THEN m ELSE n

(* The workloads of a GPU are its series with a pod.  Memory is the        *)
(* device's, else the workloads' sum; the total is used and free where     *)
(* there is no FB_TOTAL, and zero, which the card takes for unknown.       *)
Workloads(series, g) == {i \in OfGpu(series, g) : series[i].pod # "none"}
Device(series, g) ==
  LET first == First(series, g)
      own   == Workloads(series, g)
  IN [index |-> g, used |-> Either(first.used, MapThenSumSet(LAMBDA i : series[i].used, own)),
      total |-> first.used + first.free, util |-> first.util,
      workloads |-> {series[i].pod : i \in own}]
Gpus(series) == {Device(series, g) : g \in Indices(series)}

(* stream-density.ts: the cards by what DCGM says of the device alone; the *)
(* busiest is the headline, of equals the one of the lower index.          *)
Card(series, g) ==
  LET first == First(series, g)
  IN [index |-> g, util |-> first.util, used |-> first.used, total |-> first.used + first.free]
Cards(series) == {Card(series, g) : g \in Indices(series)}
FirstCard(series) == \* (variant) whichever DCGM lists first
  Card(series, series[1].gpu)
Busiest(series) ==
  CHOOSE d \in Cards(series) : \A e \in Cards(series) :
    d.util > e.util \/ (d.util = e.util /\ d.index <= e.index)

(* StreamDensityCard: the headline card, its VRAM in rounded percent where *)
(* the total is known, and a row per card where there are several.         *)
Percent(used, total) == (200 * used + total) \div (2 * total)
Headline(series) ==
  LET d == Busiest(series)
  IN [gpu |-> d, vram |-> IF d.total > 0 THEN Percent(d.used, d.total) ELSE Unknown,
      rows |-> IF Cardinality(Cards(series)) > 1 THEN Cards(series) ELSE {}]

(* collectStreamDensity's verdict, of the 95th percentile in percent of    *)
(* the chunk and the streams held and served.                              *)
AnyShortfallWarns(budget, held, served) == \* (variant) a shortfall of one or more
  IF budget = Unknown THEN "unknown"
  ELSE IF budget >= 80 THEN "saturated"
  ELSE IF budget >= 50 \/ (held # Unknown /\ served # Unknown /\ held - served = 1) THEN "warn" ELSE "ok"
Verdict(budget, held, served) ==
  LET short == IF held = Unknown \/ served = Unknown THEN 0 ELSE held - served
  IN IF budget = Unknown THEN "unknown"
     ELSE IF budget >= 80 \/ short >= 2 THEN "saturated"
     ELSE IF budget >= 50 \/ short = 1 THEN "warn" ELSE "ok"

--------------------------------------------------------------------------------
(* The nodes' sharing: MIG where any node has slices; what the last label  *)
(* says; else time-slicing where replicas or more GPUs than there are say  *)
(* so.  Replicas with no label are guessed of the ratio.                   *)
GpuNodes(nodes)    == {i \in DOMAIN nodes : nodes[i].gpu # 0 \/ nodes[i].mig}
Schedulable(nodes) == MapThenSumSet(LAMBDA i : nodes[i].gpu, GpuNodes(nodes))
Physical(nodes)    == MapThenSumSet(LAMBDA i : nodes[i].count, GpuNodes(nodes))
Labelled(nodes)    == {i \in GpuNodes(nodes) : nodes[i].strategy # "none"}
Replicated(nodes)  == {i \in GpuNodes(nodes) : nodes[i].replicas # 0}
Oversubscribed(nodes) == Physical(nodes) > 0 /\ Schedulable(nodes) > Physical(nodes)
Replicas(nodes) ==
  IF Replicated(nodes) # {} THEN nodes[Max(Replicated(nodes))].replicas
  ELSE IF Oversubscribed(nodes) /\ Schedulable(nodes) % Physical(nodes) = 0
  THEN Schedulable(nodes) \div Physical(nodes) ELSE Unknown

LabelOnly(nodes) == \* (variant) the label or nothing
  IF Labelled(nodes) # {} THEN nodes[Max(Labelled(nodes))].strategy ELSE "exclusive"
Strategy(nodes) ==
  IF GpuNodes(nodes) = {} THEN "unknown"
  ELSE IF \E i \in DOMAIN nodes : nodes[i].mig THEN "mig"
  ELSE IF Labelled(nodes) # {} THEN nodes[Max(Labelled(nodes))].strategy
  ELSE IF Replicated(nodes) # {} /\ nodes[Max(Replicated(nodes))].replicas > 1 THEN "time-slicing"
  ELSE IF Oversubscribed(nodes) THEN "time-slicing"
  ELSE "exclusive"

(* The pods with GPUs of the namespaces listed before one failed.          *)
Listed(n) == {p \in cluster.pods : p.gpus > 0 /\ \E i \in 1 .. n : Namespaces[i] = p.ns}
Chip(p) == IF p.ready /\ p.restarts = 0 THEN "none" ELSE IF p.ready THEN "restarts" ELSE "bad"

(* probeRemoteLlmEndpoint, as the agent calls it.                          *)
Health(code, key) ==
  CASE code = "200" -> "ok"
    [] code \in {"401", "403"} -> IF key THEN "auth-error" ELSE "ok"
    [] code = "404" -> "bad-url"
    [] code = "none" -> "unreachable"
    [] OTHER -> "unknown"

NoCache == [there |-> FALSE, age |-> 0, health |-> "unknown"]
KeepsForGood == \* (variant) an answer is kept for good
  IF cache.there THEN cache ELSE [there |-> TRUE, age |-> 0, health |-> Health(cluster.remote, TRUE)]
Probed ==
  IF cache.there /\ cache.age < Ttl THEN cache
  ELSE [there |-> TRUE, age |-> 0, health |-> Health(cluster.remote, TRUE)]

--------------------------------------------------------------------------------
NoSnap == [there |-> FALSE, gpus |-> {}, strategy |-> "unknown", replicas |-> Unknown,
           total |-> Unknown, allocated |-> 0,
           held |-> {}, pending |-> {}, remote |-> "none", age |-> 0, warnings |-> {}]

Init == /\ cluster \in [pods : PodSets, nodes : NodeLists, series : Series, remote : {"200"}, turns : {0}]
        /\ cache = NoCache /\ snap = NoSnap /\ card = "loading"

(* The cluster changes between two refreshes: pods, or the endpoint.       *)
Turn(pods, remote) ==
  /\ cluster.turns < MaxTurns
  /\ cluster' = [cluster EXCEPT !.pods = pods, !.remote = remote, !.turns = @ + 1]
  /\ UNCHANGED <<cache, snap, card>>

(* collectGpuAllocation: Prometheus, the nodes and a namespace may each be *)
(* out of reach; "upto" is how many namespaces were listed.                *)
GpusOf(S)   == UNION {{p} \X (1 .. p.gpus) : p \in S}
Workload(p) == [pod |-> p.name, ns |-> p.ns, gpus |-> p.gpus, chip |-> Chip(p)]
Collect(prom, nodesOk, upto) ==
  /\ LET pods    == Listed(upto)
         running == {p \in pods : p.phase = "Running"}
         gpus    == IF prom THEN Gpus(cluster.series) ELSE {}
     IN /\ snap' = [there |-> TRUE, gpus |-> gpus,
                    strategy |-> IF nodesOk THEN Strategy(cluster.nodes) ELSE "unknown",
                    replicas |-> IF nodesOk THEN Replicas(cluster.nodes) ELSE Unknown,
                    total |-> IF nodesOk /\ GpuNodes(cluster.nodes) # {}
                              THEN Schedulable(cluster.nodes) ELSE Unknown,
                    allocated |-> Cardinality(GpusOf(running)),
                    held |-> {Workload(p) : p \in running},
                    pending |-> {Workload(p) : p \in {q \in pods : q.phase = "Pending"}},
                    remote |-> Probed.health, age |-> Probed.age,
                    warnings |-> (IF prom THEN {} ELSE {"prometheus"})
                                 \union (IF nodesOk THEN {} ELSE {"nodes"})
                                 \union (IF upto = Len(Namespaces) THEN {} ELSE {"pods"})]
        /\ card' = IF gpus = {} THEN "scheduler" ELSE "devices"
  /\ cache' = [Probed EXCEPT !.age = IF @ < Ttl THEN @ + 1 ELSE @]
  /\ UNCHANGED cluster

(* The request failed: the card says so, whatever it showed.               *)
RequestFails == /\ card' = "unavailable"
                /\ cache' = [cache EXCEPT !.age = IF cache.there /\ @ < Ttl THEN @ + 1 ELSE @]
                /\ UNCHANGED <<cluster, snap>>

Next ==
  \/ \E pods \in PodSets, remote \in {"200", "401", "404", "500", "none"} : Turn(pods, remote)
  \/ \E prom, nodesOk \in BOOLEAN, upto \in 0 .. Len(Namespaces) : Collect(prom, nodesOk, upto)
  \/ RequestFails

Spec == Init /\ [][Next]_vars

--------------------------------------------------------------------------------
TypeOK ==
  /\ cluster.pods \in PodSets /\ cluster.turns \in 0 .. MaxTurns
  /\ cache.age \in 0 .. Ttl
  /\ snap.strategy \in {"exclusive", "time-slicing", "mps", "mig", "unknown"}
  /\ card \in {"loading", "unavailable", "scheduler", "devices"}

(* The GPUs shown as allocated are those of the workloads shown, no pod is *)
(* shown both as holding and as waiting, and a pod can be missing from a   *)
(* refresh only with a warning.                                            *)
AllocationAddsUp ==
  /\ snap.allocated = Cardinality(GpusOf(snap.held))
  /\ \A w \in snap.held, p \in snap.pending : <<w.ns, w.pod>> # <<p.ns, p.pod>>
MissingStep ==
  snap' # snap /\ "pods" \notin snap'.warnings =>
    \A p \in cluster.pods :
      p.gpus > 0 /\ p.phase \in {"Running", "Pending"} /\ p.ns \in Range(Namespaces) =>
      Workload(p) \in snap'.held \union snap'.pending
MissingOnlyWithWarning == [][MissingStep]_vars

(* "Exclusive" is never shown of a cluster that schedules more GPUs than   *)
(* it has, nor beside replicas of a GPU.                                   *)
ExclusiveMeansWhole ==
  snap.strategy = "exclusive" =>
    ~Oversubscribed(cluster.nodes) /\ snap.replicas \in {Unknown, 1}

(* What is shown of a remote model was so within the last minute, however  *)
(* often the card asks.                                                    *)
RemoteStep ==
  snap' # snap /\ snap'.age = 0 => snap'.remote = Health(cluster.remote, TRUE)
RemoteIsRecent == [][RemoteStep]_vars
RemoteAges == snap.age < Ttl

(* The headline is a card no other is busier than, and the verdict on the  *)
(* VLM never improves as chunks take longer or as it serves less.          *)
Rank(v) == CASE v = "ok" -> 0 [] v = "warn" -> 1 [] v = "saturated" -> 2 [] OTHER -> -1
VerdictIsMonotone ==
  /\ cluster.series # <<>> =>
       /\ \A d \in Cards(cluster.series) : d.util <= Headline(cluster.series).gpu.util
       /\ Headline(cluster.series).vram \in {Unknown} \union (0 .. 100)
  /\ \A b, c \in {49, 50, 79, 80}, s, t \in {2, 3, 4} :
       b <= c /\ s >= t => Rank(Verdict(b, 4, s)) <= Rank(Verdict(c, 4, t))
================================================================================
