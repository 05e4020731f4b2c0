------------------------------- MODULE Overview -------------------------------
(***************************************************************************)
(* The overview page and its kiosk twin (app/page.tsx).  One collection    *)
(* asks the cluster, the GPU exporter, Kafka, the bucket scan, VST and the *)
(* alert bridge one after another (lib/overview-collector.ts), while the   *)
(* pod list of the page is read beside it; every probe that fails leaves a *)
(* warning and its part of the snapshot unknown.  The Kafka probe has a    *)
(* deadline, but goes on writing into the snapshot after it.  The page     *)
(* condenses the snapshot to one verdict (HealthBanner, KioskHero).        *)
(*                                                                         *)
(* A world is what the probes would find; it may turn into another between *)
(* two of them.  A behaviour is one collection: each starts afresh.        *)
(***************************************************************************)
EXTENDS Integers, Sequences, FiniteSets, FiniteSetsExt

CONSTANTS
  Worlds,     \* records [pods, depth, temps, sensors, rules, totals]
  MaxMoves,   \* bound: turns of the world
  MaxFaults,  \* bound: probes that fail in a collection
  MaxReveals  \* bound: clicks on the Grafana password

VARIABLES
  world,  \* what the probes find now
  past,   \* [since: worlds of this collection, moves, reveals]
  step,   \* the probe the collection is at
  snap,   \* the snapshot being collected
  probe,  \* the Kafka probe: [phase, next]
  page,   \* [kiosk, snap: the snapshot rendered last]
  card    \* the Grafana card and the audit log: [shown, noted]

vars == <<world, past, step, snap, probe, page, card>>

--------------------------------------------------------------------------------
Namespaces == {"vss", "sim"}
Topics     == <<"vision", "incidents">>
Unmeasured == -1
Steps      == {"pods", "nim", "gpus", "kafka", "totals", "cameras", "rules", "done"}
StepAfter(s) ==
  CASE s = "pods" -> "nim" [] s = "nim" -> "gpus" [] s = "gpus" -> "kafka" [] s = "kafka" -> "totals"
    [] s = "totals" -> "cameras" [] s = "cameras" -> "rules" [] s = "rules" -> "done"

NoCount == [total |-> 0, ready |-> 0, failed |-> 0]
Empty ==
  [ns |-> [n \in {} |-> NoCount], nim |-> FALSE, temps |-> {}, kafka |-> [i \in DOMAIN Topics |-> Unmeasured],
   totals |-> "unavailable", cams |-> {}, running |-> FALSE, ingesting |-> Unmeasured,
   rows |-> {}, listed |-> {}, warnings |-> {}]

Init ==
  /\ world \in Worlds
  /\ past = [since |-> {world}, moves |-> 0, reveals |-> 0]
  /\ step = "idle" /\ snap = Empty
  /\ probe = [phase |-> "none", next |-> 1]
  /\ page \in [kiosk : BOOLEAN, snap : {Empty}]
  /\ card = [shown |-> FALSE, noted |-> 0]

Begin ==
  /\ step = "idle" /\ page.snap = Empty
  /\ step' = "pods" /\ snap' = Empty
  /\ past' = [past EXCEPT !.since = {world}]
  /\ probe' = [phase |-> "none", next |-> 1]
  /\ UNCHANGED <<world, page, card>>
Turn ==
  /\ past.moves < MaxMoves
  /\ \E w \in Worlds \ {world} :
       /\ world' = w
       /\ past' = [past EXCEPT !.moves = @ + 1, !.since = @ \union {w}]
  /\ UNCHANGED <<step, snap, probe, page, card>>

May == Cardinality(snap.warnings) < MaxFaults
Warned(name) == [snap EXCEPT !.warnings = @ \union {name}]
Goes(s, to) == step = s /\ snap' = to /\ step' = StepAfter(s)
Still == UNCHANGED <<world, past, page, card>>

--------------------------------------------------------------------------------
(* Pods: each namespace is listed on its own; a completed job is ready, a  *)
(* pod in an unknown phase has failed.                                     *)
In(pods, n) == {p \in pods : p.ns = n}
Bad(p)      == p.phase \in {"Failed", "Unknown"}
ReadyOnly(p) == \* (variant) a completed job is not ready
  ~Bad(p) /\ p.ready
CountsReady(p) == ~Bad(p) /\ (p.phase = "Succeeded" \/ p.ready)
Count(pods) ==
  [total |-> Cardinality(pods), ready |-> Cardinality({p \in pods : CountsReady(p)}),
   failed |-> Cardinality({p \in pods : Bad(p)})]
With(f, n, c) == [m \in DOMAIN f \union {n} |-> IF m = n THEN c ELSE f[m]]
Tried == {n \in Namespaces : n \in DOMAIN snap.ns \/ <<"list", n>> \in snap.warnings}
ReadNamespace(n) ==
  /\ step = "pods" /\ n \notin Tried
  /\ \/ snap' = [snap EXCEPT !.ns = With(@, n, Count(In(world.pods, n)))]
     \/ May /\ snap' = Warned(<<"list", n>>)
  /\ UNCHANGED <<step, probe>> /\ Still
Listed == step = "pods" /\ Tried = Namespaces /\ step' = "nim" /\ UNCHANGED <<snap, probe>> /\ Still

(* The page's own pod list (collectPodSummaries), at any time meanwhile;   *)
(* the kiosk has none.                                                     *)
ListPods(n) ==
  /\ step # "idle" /\ ~page.kiosk /\ n \notin snap.listed
  /\ \/ snap' = [snap EXCEPT !.rows = @ \union In(world.pods, n), !.listed = @ \union {n}]
     \/ /\ May
        /\ snap' = [snap EXCEPT !.listed = @ \union {n}, !.warnings = @ \union {<<"rows", n>>}]
  /\ UNCHANGED <<step, probe>> /\ Still

ReadNim ==
  /\ \/ Goes("nim", [snap EXCEPT !.nim = \E p \in In(world.pods, "vss") : p.name = "vlm" /\ p.ready])
     \/ May /\ Goes("nim", Warned(<<"nim", "">>))
  /\ UNCHANGED probe /\ Still
ReadGpus ==
  /\ \/ Goes("gpus", [snap EXCEPT !.temps = world.temps])
     \/ May /\ Goes("gpus", Warned(<<"gpus", "">>))
  /\ UNCHANGED probe /\ Still

--------------------------------------------------------------------------------
(* Kafka: topic after topic; a topic that cannot be measured stays unknown *)
(* without a word, a deadline or a failed connection is a warning.         *)
Connect ==
  /\ step = "kafka" /\ probe.phase = "none"
  /\ \/ probe' = [probe EXCEPT !.phase = "running"] /\ UNCHANGED <<step, snap>>
     \/ /\ May /\ Goes("kafka", Warned(<<"kafka", "">>))
        /\ UNCHANGED probe
  /\ Still
ZeroForUnknown(ok) == \* (variant) a topic that cannot be measured counts nothing
  IF ok THEN world.depth ELSE 0
Depth(ok) == IF ok THEN world.depth ELSE Unmeasured
MeasureTopic ==
  /\ probe.phase \in {"running", "late"} /\ probe.next <= Len(Topics)
  /\ \E ok \in BOOLEAN : snap' = [snap EXCEPT !.kafka[probe.next] = Depth(ok)]
  /\ probe' = [probe EXCEPT !.next = @ + 1]
  /\ UNCHANGED step /\ Still
Measured ==
  /\ probe.phase = "running" /\ probe.next > Len(Topics)
  /\ Goes("kafka", snap)
  /\ probe' = [probe EXCEPT !.phase = "over"]
  /\ Still
Deadline ==
  /\ step = "kafka" /\ probe.phase = "running" /\ May
  /\ Goes("kafka", Warned(<<"kafka", "">>))
  /\ probe' = [probe EXCEPT !.phase = "late"]
  /\ Still

ReadTotals == Goes("totals", [snap EXCEPT !.totals = world.totals]) /\ UNCHANGED probe /\ Still

--------------------------------------------------------------------------------
(* Cameras are the sensors of VST, each name once, tombstones aside; the   *)
(* rules of the alert bridge say which of them are analysed.               *)
FirstOf(list, name) ==
  LET of == {i \in DOMAIN list : list[i].name = name /\ list[i].status # "removed"} IN list[Min(of)]
Cameras(list) ==
  {[name |-> n, live |-> FirstOf(list, n).status = "online"] :
     n \in {list[i].name : i \in {j \in DOMAIN list : list[j].status # "removed"}}}
Swallowed == \* (variant) a sensor list that fails is an empty one
  snap
CamerasFail == Warned(<<"cameras", "">>)
ReadCameras ==
  /\ \/ Goes("cameras", [snap EXCEPT !.cams = Cameras(world.sensors), !.running = TRUE])
     \/ May /\ Goes("cameras", CamerasFail)
  /\ UNCHANGED probe /\ Still
AllRules(cams) == \* (variant) rules of sensors that are gone count as well
  Cardinality(world.rules)
IngestingOf(cams) == Cardinality({c \in cams : c.name \in world.rules})
ReadRules ==
  /\ \/ Goes("rules", [snap EXCEPT !.ingesting = IngestingOf(snap.cams)])
     \/ May /\ Goes("rules", Warned(<<"rules", "">>))
  /\ UNCHANGED probe /\ Still

Render ==
  /\ step = "done" /\ (page.kiosk \/ snap.listed = Namespaces)
  /\ page' = [page EXCEPT !.snap = snap]
  /\ step' = "idle" /\ snap' = Empty
  /\ probe' = [phase |-> "none", next |-> 1]
  /\ UNCHANGED <<world, past, card>>

--------------------------------------------------------------------------------
(* What the page makes of it.                                              *)
Rank(h)   == CASE h = "ok" -> 0 [] h = "warn" -> 1 [] OTHER -> 2
Worst(hs) == IF hs = {} THEN "ok" ELSE CHOOSE h \in hs : \A g \in hs : Rank(g) <= Rank(h)
TotalPods(s) == Cardinality(UNION {{n} \X (1 .. s.ns[n].total) : n \in DOMAIN s.ns})
ReadyPods(s) == Cardinality(UNION {{n} \X (1 .. s.ns[n].ready) : n \in DOMAIN s.ns})

PodSignal(s) ==
  IF DOMAIN s.ns = {} THEN {}
  ELSE {IF (\E n \in DOMAIN s.ns : s.ns[n].failed > 0) \/ 2 * ReadyPods(s) < TotalPods(s) THEN "fail"
        ELSE IF ReadyPods(s) < TotalPods(s) THEN "warn" ELSE "ok"}
GpuSignal(s) ==
  IF s.temps = {} THEN {}
  ELSE {IF \E t \in s.temps : t >= 85 THEN "fail" ELSE IF \E t \in s.temps : t >= 70 THEN "warn" ELSE "ok"}
Known(s) == {i \in DOMAIN Topics : s.kafka[i] # Unmeasured}
Signals(s) ==
  PodSignal(s) \union GpuSignal(s)
    \union {IF s.nim THEN "ok" ELSE "warn", IF Known(s) = {} THEN "warn" ELSE "ok",
            IF s.warnings # {} THEN "warn" ELSE "ok"}
Banner(s) == Worst(Signals(s))

LiveCams(s) == {c \in s.cams : c.live}
Hero(s) ==
  Worst({IF s.nim THEN "ok" ELSE "warn"} \union GpuSignal(s)
        \union (IF s.cams = {} THEN {}
                ELSE {IF LiveCams(s) = {} THEN "fail" ELSE IF LiveCams(s) # s.cams THEN "warn" ELSE "ok"}))

(* The headline of the Kafka card: nothing when no topic was measured.     *)
DepthShown(s) == IF Known(s) = {} THEN Unmeasured ELSE MapThenSumSet(LAMBDA i : s.kafka[i], Known(s))

RowReady(p) == p.ready \/ p.phase = "Succeeded"
RowsReady(s, n) == Cardinality({p \in In(s.rows, n) : RowReady(p)})

--------------------------------------------------------------------------------
(* POST api/grafana-credential: noted, then answered; never in kiosk mode. *)
LateNote(noted) == \* (variant) the reveal is not noted
  noted
Note(noted) == noted + 1
Reveal ==
  /\ ~page.kiosk /\ page.snap # Empty /\ ~card.shown /\ past.reveals < MaxReveals
  /\ past' = [past EXCEPT !.reveals = @ + 1]
  /\ \/ card' = [shown |-> TRUE, noted |-> Note(card.noted)]
     \/ card' = [card EXCEPT !.noted = Note(@)]
     \/ UNCHANGED card
  /\ UNCHANGED <<world, step, snap, probe, page>>
Hide == card.shown /\ card' = [card EXCEPT !.shown = FALSE] /\ UNCHANGED <<world, past, step, snap, probe, page>>

Next ==
  \/ Begin \/ Turn \/ Listed \/ ReadNim \/ ReadGpus \/ Connect \/ MeasureTopic \/ Measured \/ Deadline
  \/ ReadTotals \/ ReadCameras \/ ReadRules \/ Render \/ Reveal \/ Hide
  \/ \E n \in Namespaces : ReadNamespace(n) \/ ListPods(n)

Spec == Init /\ [][Next]_vars

--------------------------------------------------------------------------------
TypeOK ==
  /\ world \in Worlds /\ past.moves \in 0 .. MaxMoves
  /\ step \in {"idle"} \union Steps
  /\ probe.phase \in {"none", "running", "late", "over"}
  /\ card.noted \in 0 .. MaxReveals

Shown == page.snap # Empty

(* overview-collector.ts: a depth that is shown is the sum of depths that  *)
(* topics had during the collection, and nothing unknown counts as 0.      *)
NoFalseZero ==
  Shown => \A i \in DOMAIN Topics : \/ page.snap.kafka[i] = Unmeasured
                                    \/ page.snap.kafka[i] \in {w.depth : w \in past.since}

(* HealthBanner: all is well in the banner only when nothing in the world  *)
(* as it stood through the collection was wrong, nor any probe failed.     *)
Unturned == past.since = {world}
Well(w) ==
  /\ \A p \in w.pods : CountsReady(p)
  /\ \E p \in w.pods : p.ns = "vss" /\ p.name = "vlm" /\ p.ready
  /\ \A t \in w.temps : t < 70
CalmIsEarned ==
  Shown /\ ~page.kiosk /\ Unturned /\ Banner(page.snap) = "ok" => Well(world) /\ page.snap.running

(* KpiGrid and the namespace cards read the pods twice: when the pods did  *)
(* not change between the reads both show the same, but for a pod in a     *)
(* failed phase that still has its Ready condition.                        *)
CountsAgree ==
  Shown /\ ~page.kiosk /\ Unturned =>
    \A n \in DOMAIN page.snap.ns :
      <<"rows", n>> \notin page.snap.warnings /\ (\A p \in world.pods : Bad(p) => ~p.ready) =>
        page.snap.ns[n].ready = RowsReady(page.snap, n)

(* No more cameras are analysed than there are, whenever the two lists     *)
(* were read.                                                              *)
IngestingAreKnown == Shown => page.snap.ingesting <= Cardinality(page.snap.cams)

(* GrafanaAccessCard: each time the password is shown was noted before.    *)
RevealStep     == ~card.shown /\ card'.shown => card'.noted > card.noted
RevealsAreNoted == [][RevealStep]_vars
================================================================================
