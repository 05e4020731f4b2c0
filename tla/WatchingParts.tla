-------------------------------- MODULE WatchingParts --------------------------
(***************************************************************************)
(* The parts that watch: the event streams and the feed of incidents, the  *)
(* collectors of the pipeline, of the graph, of GPUs, of storage and of    *)
(* the overview, the error bridge and the race of the KV cache.  What each *)
(* is given stands in a record of its constants.                           *)
(***************************************************************************)
EXTENDS PartRegisters, Integers, FiniteSets, Sequences

CONSTANTS
  StreamsGiven, FeedGiven, PipelineGiven, GraphGiven, GpuGiven,
  StorageGiven, GuardsGiven, HomeGiven, ReportsGiven, RaceGiven

(* What is given to a part: bounds are numbers, and what the comment on a   *)
(* constant says of it holds.                                              *)
ASSUME StreamsAssumption ==
  IsFiniteSet(StreamsGiven.Conns) /\ StreamsGiven.MaxConsumers \in Nat
ASSUME StorageAssumption ==
  /\ StorageGiven.Recordings \in StorageGiven.Buckets /\ StorageGiven.Keys \subseteq Nat \ {0}
  /\ \A c \in StorageGiven.Contents :
       /\ c \in [StorageGiven.Buckets -> SUBSET StorageGiven.Keys]
       /\ \A b \in StorageGiven.Buckets : IsFiniteSet(c[b])
  /\ StorageGiven.PageLimit \in Nat \ {0} /\ StorageGiven.FreshFor \in Nat
  /\ StorageGiven.Backoff \in Nat /\ StorageGiven.MaxChanges \in Nat
ASSUME GuardsAssumption ==
  /\ GuardsGiven.PreflightTtl \in Nat /\ GuardsGiven.RulesTtl \in Nat
  /\ GuardsGiven.RingSize \in Nat \ {0} /\ GuardsGiven.MaxChanges \in Nat
  /\ \A sensors \in GuardsGiven.SensorSets :
       /\ \A s, t \in sensors : s.id = t.id => s = t
       /\ \A s \in sensors : /\ IsFiniteSet(s.hours)
                              /\ \A h \in s.hours : h.day \in Nat /\ h.hour \in 0 .. 23
ASSUME FeedAssumption ==
  /\ FeedGiven.Window \in Nat /\ FeedGiven.MaxAttempts \in Nat
  /\ FeedGiven.MaxBanners \in Nat \ {0} /\ FeedGiven.MaxVisits \in Nat
ASSUME PipelineAssumption ==
  /\ PipelineGiven.PodLists \subseteq Seq([phase : STRING, ready : BOOLEAN])
  /\ PipelineGiven.MaxMoves \in Nat
GraphSensors == [name : STRING, state : {"online", "offline", "removed"}]
ASSUME GraphAssumption ==
  /\ GraphGiven.SensorLists \subseteq Seq(GraphSensors) /\ GraphGiven.Added \subseteq GraphSensors
  /\ GraphGiven.MaxAttempts \in Nat /\ GraphGiven.MaxTurns \in Nat
GpuPods == [ns : STRING, name : STRING, phase : STRING, gpus : Nat, ready : BOOLEAN, restarts : Nat]
GpuHosts == [gpu : Nat, mig : BOOLEAN, strategy : {"none", "mps", "time-slicing"},
             replicas : Nat, count : Nat]
GpuRows == [gpu : Nat, pod : STRING, used : Nat, free : Nat, util : 0 .. 100]
ASSUME GpuAssumption ==
  /\ \A S \in GpuGiven.PodSets :
       /\ IsFiniteSet(S) /\ S \subseteq GpuPods
       /\ \A p, q \in S : p.ns = q.ns /\ p.name = q.name => p = q
  /\ GpuGiven.NodeLists \subseteq Seq(GpuHosts) /\ GpuGiven.Series \subseteq Seq(GpuRows)
  /\ GpuGiven.Namespaces \in Seq(STRING) /\ GpuGiven.Unknown \notin Int
  /\ GpuGiven.Ttl \in Nat \ {0} /\ GpuGiven.MaxTurns \in Nat
ASSUME HomeAssumption ==
  /\ HomeGiven.MaxMoves \in Nat /\ HomeGiven.MaxReveals \in Nat
  /\ \A w \in HomeGiven.Worlds :
       /\ IsFiniteSet(w.pods) /\ \A p \in w.pods : p.ns \in {"vss", "sim"} /\ p.ready \in BOOLEAN
       /\ w.temps \subseteq Int /\ IsList(w.sensors)
ASSUME ReportsAssumption ==
  /\ Len(ReportsGiven.Namespaces) \in Nat \ {0}
  /\ ReportsGiven.Window \in Nat \ {0} /\ ReportsGiven.Interval \in Nat
  /\ ReportsGiven.MaxRestarts \in Nat /\ ReportsGiven.MaxEvents \in Nat
ASSUME RaceAssumption ==
  /\ IsFiniteSet(RaceGiven.Races) /\ 0 \notin RaceGiven.Races
  /\ RaceGiven.Pause \in Nat /\ RaceGiven.Offload \in 0 .. RaceGiven.Pause - 1
  /\ RaceGiven.MaxFaults \in Nat

Streams == INSTANCE EventStreams WITH
  conn <- v1, drained <- v2, Conns <- StreamsGiven.Conns,
  MaxConsumers <- StreamsGiven.MaxConsumers
Feed == INSTANCE IncidentFeed WITH
  bridge <- v1, live <- v2, hook <- v3, page <- v4, banners <- v5,
  Incidents <- FeedGiven.Incidents, Window <- FeedGiven.Window,
  MaxAttempts <- FeedGiven.MaxAttempts, MaxBanners <- FeedGiven.MaxBanners,
  MaxVisits <- FeedGiven.MaxVisits, NoAnswer <- FeedGiven.NoAnswer,
  NoIncident <- FeedGiven.NoIncident
Pipeline == INSTANCE PipelineSnapshot WITH
  pods <- v1, found <- v2, counters <- v3, samples <- v4, snap <- v5, now <- v6,
  PodLists <- PipelineGiven.PodLists, MaxOdd <- PipelineGiven.MaxOdd,
  MaxMoves <- PipelineGiven.MaxMoves, MaxTime <- PipelineGiven.MaxTime,
  NoFigure <- PipelineGiven.NoFigure
Graph == INSTANCE Topology WITH
  sensors <- v1, box <- v2, payload <- v3, conn <- v4, saved <- v5,
  SensorLists <- GraphGiven.SensorLists, Added <- GraphGiven.Added,
  MaxAttempts <- GraphGiven.MaxAttempts, MaxTurns <- GraphGiven.MaxTurns
Gpu == INSTANCE GpuAllocation WITH
  cluster <- v1, cache <- v2, snap <- v3, card <- v4, Namespaces <- GpuGiven.Namespaces,
  PodSets <- GpuGiven.PodSets, NodeLists <- GpuGiven.NodeLists, Series <- GpuGiven.Series,
  Ttl <- GpuGiven.Ttl, MaxTurns <- GpuGiven.MaxTurns, Unknown <- GpuGiven.Unknown
Storage == INSTANCE StorageStats WITH
  store <- v1, cache <- v2, walk <- v3, page <- v4, panel <- v5,
  Buckets <- StorageGiven.Buckets, Recordings <- StorageGiven.Recordings,
  Keys <- StorageGiven.Keys, Contents <- StorageGiven.Contents,
  PageLimit <- StorageGiven.PageLimit, FreshFor <- StorageGiven.FreshFor,
  Backoff <- StorageGiven.Backoff, MaxChanges <- StorageGiven.MaxChanges
Guards == INSTANCE StorageHealth WITH
  view <- v1, world <- v2, kept <- v3, shown <- v4, panel <- v5,
  Readings <- GuardsGiven.Readings, SensorSets <- GuardsGiven.SensorSets,
  PreflightTtl <- GuardsGiven.PreflightTtl, RulesTtl <- GuardsGiven.RulesTtl,
  RingSize <- GuardsGiven.RingSize, MaxChanges <- GuardsGiven.MaxChanges
Home == INSTANCE Overview WITH
  world <- v1, past <- v2, step <- v3, snap <- v4, probe <- v5, page <- v6, card <- v7,
  Worlds <- HomeGiven.Worlds, MaxMoves <- HomeGiven.MaxMoves, MaxFaults <- HomeGiven.MaxFaults,
  MaxReveals <- HomeGiven.MaxReveals
Reports == INSTANCE ErrorBridge WITH
  started <- v1, box <- v2, seen <- v3, last <- v4, poll <- v5, past <- v6,
  Containers <- ReportsGiven.Containers, Namespaces <- ReportsGiven.Namespaces,
  Errors <- ReportsGiven.Errors, Window <- ReportsGiven.Window, Interval <- ReportsGiven.Interval,
  MaxRestarts <- ReportsGiven.MaxRestarts, MaxEvents <- ReportsGiven.MaxEvents
Race == INSTANCE KvRace WITH
  model <- v1, race <- v2, faults <- v3, Races <- RaceGiven.Races, Pause <- RaceGiven.Pause,
  Offload <- RaceGiven.Offload, MaxFaults <- RaceGiven.MaxFaults
================================================================================
