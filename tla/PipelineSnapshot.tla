--------------------------- MODULE PipelineSnapshot ----------------------------
(***************************************************************************)
(* The pipeline snapshot behind the topology page (aggregator.ts): ten     *)
(* collectors that may each fail on their own, merged into nodes and       *)
(* edges, and three rates that are differences with the snapshot before.   *)
(***************************************************************************)
EXTENDS Integers, Sequences, FiniteSets, SequencesExt

CONSTANTS
  PodLists,  \* what the pod lists may hold: sequences of [phase, ready]
  MaxOdd,    \* bound: collectors that do not find what they hope for
  MaxMoves,  \* bound: changes of the counters
  MaxTime,   \* bound: the clock
  NoFigure   \* null

VARIABLES
  pods,     \* a node's pods, as listed
  found,    \* what each other collector finds
  counters, \* topic offset, bytes a path received, bytes the bucket cache holds
  samples,  \* per counter, the sample of the tick before
  snap,     \* the snapshot last collected
  now       \* [time, moves]

vars == <<pods, found, counters, samples, snap, now>>

Counted == {"kafka", "mediamtx", "s3"}
NoSample == [ts |-> 0, total |-> 0, rate |-> NoFigure, there |-> FALSE]

(* What each collector may find; the first is what it hopes for.  A        *)
(* collector answers for itself alone, whatever its calls do.              *)
GpuOutcomes      == <<"answers", "failed">>
S3Outcomes       == <<"ok", "uncapped", "full", "filling", "loading">>
CacheOutcomes    == <<"low", "near", "over", "blank", "failed">>
FeedOutcomes     == <<"online", "removed", "stateless", "failed">>
KafkaOutcomes    == <<"answers", "failed">>
NimOutcomes      == <<"ready", "cold">>
PostgresOutcomes == <<"up", "down", "failed">>
RedisOutcomes    == <<"up", "down", "failed">>
MediamtxOutcomes == <<"paths", "empty", "warns", "failed", "none">>
Outcomes == [gpu |-> GpuOutcomes, s3 |-> S3Outcomes, cache |-> CacheOutcomes,
             feeds |-> FeedOutcomes, kafka |-> KafkaOutcomes, nim |-> NimOutcomes,
             postgres |-> PostgresOutcomes, redis |-> RedisOutcomes,
             mediamtx |-> MediamtxOutcomes]
Probes == DOMAIN Outcomes

(* podPhaseToHealth *)
PodHealth(p) == CASE p.phase = "Running" -> IF p.ready THEN "ok" ELSE "warn"
                  [] p.phase = "Succeeded" -> "ok"
                  [] p.phase = "Pending" -> "warn"
                  [] p.phase = "Failed" -> "fail"
                  [] OTHER -> "unknown"

\* (variant) the pod listed last decides
LastPodWins(shown, p) == PodHealth(p)

(* The merge of a node's pods, in the order they are listed: "none" until  *)
(* the first.                                                              *)
MergePod(shown, p) ==
  LET h == PodHealth(p)
  IN IF \/ shown = "none"
        \/ h = "fail"
        \/ h = "warn" /\ shown = "ok"
        \/ h = "ok" /\ shown = "unknown"
     THEN h ELSE shown
PodNode ==
  LET shown[n \in 0 .. Len(pods)] ==
        IF n = 0 THEN "none" ELSE MergePod(shown[n - 1], pods[n])
  IN shown[Len(pods)]

(* Kafka's and mediamtx's rate: nothing without a sample before, within    *)
(* the same millisecond, or when the counter was reset.                    *)
CounterRate(prev, total) ==
  IF ~prev.there \/ now.time = prev.ts \/ total < prev.total THEN NoFigure
  ELSE [grown |-> total - prev.total, over |-> now.time - prev.ts]

\* (variant) a total served from the cache again counts as no traffic
RateOfCachedTotal(prev, total) ==
  [ts |-> now.time, total |-> total, there |-> TRUE,
   rate |-> IF ~prev.there \/ now.time = prev.ts THEN prev.rate
            ELSE [grown |-> IF total > prev.total THEN total - prev.total ELSE 0,
                  over |-> now.time - prev.ts]]

(* advancePutRateSample: the sample before is held while the total stands. *)
AdvancePutRate(prev, total) ==
  IF prev.there /\ prev.total = total THEN prev
  ELSE [ts |-> now.time, total |-> total, there |-> TRUE,
        rate |-> IF ~prev.there \/ now.time = prev.ts THEN prev.rate
                 ELSE [grown |-> IF total > prev.total THEN total - prev.total ELSE 0,
                       over |-> now.time - prev.ts]]

(* The counters whose collector answers in this tick, and their samples.   *)
Answering == {k \in Counted : found[k] \notin {"failed", "loading", "empty", "warns", "none"}}
Advance(k) ==
  IF k = "s3" THEN AdvancePutRate(samples[k], counters[k])
  ELSE [ts |-> now.time, total |-> counters[k], there |-> TRUE,
        rate |-> CounterRate(samples[k], counters[k])]

Moving(rate) == IF rate = NoFigure THEN FALSE ELSE rate.grown > 0

UpNode(probe) == CASE probe = "up" -> "ok" [] OTHER -> "fail"

(* The merge: each node's health from what its own collector found; the    *)
(* nodes a failed collector feeds are there all the same.                  *)
Nodes(f, rates) ==
  [sensor   |-> PodNode,
   s3       |-> CASE f.s3 = "loading" -> "unknown" [] f.s3 = "full" -> "fail"
                  [] f.s3 = "filling" -> "warn" [] OTHER -> "ok",
   cache    |-> CASE f.cache \in {"failed", "blank"} -> "unknown" [] f.cache = "over" -> "fail"
                  [] f.cache = "near" -> "warn" [] OTHER -> "ok",
   feed     |-> CASE f.feeds = "failed" -> "none" [] f.feeds = "online" -> "ok"
                  [] f.feeds = "removed" -> "warn"
                  [] OTHER -> IF Moving(rates["mediamtx"]) THEN "ok" ELSE "warn",
   kafka    |-> "ok",  \* the topics are listed whether or not Kafka answered
   nim      |-> IF f.nim = "ready" THEN "ok" ELSE "unknown",
   postgres |-> UpNode(f.postgres),
   redis    |-> UpNode(f.redis),
   mediamtx |-> CASE f.mediamtx \in {"failed", "none"} -> "unknown"
                  [] f.mediamtx = "paths" -> "ok" [] OTHER -> "warn",
   sim      |-> CASE f.mediamtx \in {"failed", "none"} -> "unknown"
                  [] f.mediamtx = "warns" -> "warn" [] OTHER -> "ok"]

UpEdge(probe) == IF probe = "up" THEN "flowing" ELSE "error"

(* buildEdges *)
Edges(f, rates) ==
  [feeds    |-> IF f.feeds = "failed" THEN "unknown"
                ELSE IF Moving(rates["mediamtx"]) THEN "flowing" ELSE "idle",
   cache    |-> CASE f.cache \in {"failed", "blank"} -> "unknown" [] f.cache = "over" -> "error"
                  [] OTHER -> "flowing",
   s3       |-> IF f.s3 = "loading" THEN "unknown"
                ELSE IF Moving(rates["s3"]) THEN "flowing" ELSE "idle",
   postgres |-> UpEdge(f.postgres),
   redis    |-> UpEdge(f.redis)]

(* collectSnapshot *)
Snapshot ==
  LET rates == [k \in Counted |-> IF k \in Answering THEN Advance(k).rate ELSE NoFigure]
  IN [nodes |-> Nodes(found, rates), edges |-> Edges(found, rates), rates |-> rates]

Quiet  == [p \in Probes |-> Outcomes[p][1]]
Odd(f) == {p \in Probes : f[p] # Quiet[p]}
Founds == UNION {{[Quiet EXCEPT ![p] = Outcomes[p][i], ![q] = Outcomes[q][j]] :
                    i \in DOMAIN Outcomes[p], j \in DOMAIN Outcomes[q]} :
                  p \in Probes, q \in Probes}

Init ==
  /\ pods \in PodLists
  /\ found \in {f \in Founds : Cardinality(Odd(f)) <= IF pods = <<>> THEN MaxOdd ELSE 0}
  /\ counters = [k \in Counted |-> 1]
  /\ samples = [k \in Counted |-> NoSample]
  \* bound: the counters move in the one beginning in which nothing is odd
  /\ now = [time |-> 0, moves |-> IF pods = <<>> /\ found = Quiet THEN 0 ELSE MaxMoves]
  /\ snap = Snapshot

(* A counter grows, or is reset (a restart, a truncation, a deletion).     *)
Moves(k) ==
  /\ now.moves < MaxMoves
  /\ now' = [now EXCEPT !.moves = @ + 1]
  /\ counters' \in {[counters EXCEPT ![k] = @ + 1], [counters EXCEPT ![k] = 0]}
  /\ UNCHANGED <<pods, found, samples, snap>>

Tick ==
  /\ now.time < MaxTime
  /\ now' = [now EXCEPT !.time = @ + 1]
  /\ UNCHANGED <<pods, found, counters, samples, snap>>

(* A collector finds something else from now on.                           *)
Turns(p, outcome) ==
  /\ Odd(found) = {} /\ outcome # found[p] /\ now.moves < MaxMoves
  /\ found' = [found EXCEPT ![p] = outcome]
  /\ now' = [now EXCEPT !.moves = @ + 1]
  /\ UNCHANGED <<pods, counters, samples, snap>>

Collect ==
  /\ snap' = Snapshot
  /\ samples' = [k \in Counted |-> IF k \in Answering THEN Advance(k) ELSE samples[k]]
  /\ UNCHANGED <<pods, found, counters, now>>

Next == \/ \E k \in Counted : Moves(k)
        \/ \E p \in Probes : \E i \in DOMAIN Outcomes[p] : Turns(p, Outcomes[p][i])
        \/ Tick \/ Collect

Spec == Init /\ [][Next]_vars

--------------------------------------------------------------------------------
Rates == [grown : Nat, over : Nat \ {0}]
TypeOK ==
  /\ pods \in PodLists
  /\ \A p \in Probes : found[p] \in Range(Outcomes[p])
  /\ counters \in [Counted -> Nat]
  /\ \A k \in Counted : samples[k].rate = NoFigure \/ samples[k].rate \in Rates
  /\ \A n \in DOMAIN snap.nodes : snap.nodes[n] \in {"ok", "warn", "fail", "unknown", "none"}

(* A node is as bad as the worst of its pods, whatever the order in which  *)
(* they are listed, as long as each pod's phase is one the code ranks (a   *)
(* pod of unknown phase listed first hides a warning until one is ok).     *)
Rank == [none |-> 0, ok |-> 1, warn |-> 2, fail |-> 3]
WorstPodShows ==
  (\A i \in DOMAIN pods : PodHealth(pods[i]) # "unknown") =>
    /\ \A i \in DOMAIN pods : Rank[PodHealth(pods[i])] <= Rank[PodNode]
    /\ pods # <<>> => \E i \in DOMAIN pods : PodHealth(pods[i]) = PodNode

(* A put rate is what the cached total really grew by since it last moved: *)
(* a total served again unchanged leaves the rate as it was.               *)
PutRateStep ==
  snap.rates["s3"] # NoFigure /\ counters["s3"] = samples["s3"].total
    /\ "s3" \in Answering /\ snap' # snap
    => snap'.rates["s3"] = samples["s3"].rate
PutRateHolds == [][PutRateStep]_vars

(* No rate is shown for what a counter did across a reset.                 *)
RateStep ==
  \A k \in Counted \ {"s3"} :
    samples'[k] # samples[k] /\ samples'[k].rate # NoFigure
      => samples'[k].total = samples[k].total + samples'[k].rate.grown
RatesAddUp == [][RateStep]_vars
================================================================================
