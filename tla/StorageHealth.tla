---------------------------- MODULE StorageHealth ----------------------------
(***************************************************************************)
(* Whether recordings reach the object store: storage-preflight.ts tries   *)
(* the recorder's own credentials and asks hyperdrive for its fill         *)
(* (artesca-capacity.ts), storage-substrate.ts reads the bucket's rules    *)
(* and what deletes give back (artesca-reclamation.ts), and the VST panel  *)
(* samples the newest recordings (vst-sample.ts).  Answers are kept for a  *)
(* while, each for its own time.                                           *)
(*                                                                         *)
(* A reading is a number or -1, null.  A recording is the hour it is kept  *)
(* under, [day, hour], and its time.                                       *)
(***************************************************************************)
EXTENDS Integers, Sequences, FiniteSets

CONSTANTS
  Readings,    \* what Prometheus may say of reclamation
  SensorSets,  \* what VST may list: sets of [id, removed, hours, there: readable]
  PreflightTtl,\* PREFLIGHT_TTL_MS, in ticks
  RulesTtl,    \* RETENTION_TTL_MS, in ticks
  RingSize,    \* SPARKLINE_CAPACITY
  MaxChanges   \* bound: changes of the world

VARIABLES
  view,   \* what is open: "guard" or "panel"
  world,  \* [fill, armed, seen, head, cfg, rule, reading, sensors, since, changes]
  kept,   \* [pre: [there, age, state], rules: [there, age, rule]]
  shown,  \* [pre, warnings, since: the page's last answer]
  panel   \* the VST panel: [state, data, ring]

vars == <<view, world, kept, shown, panel>>

--------------------------------------------------------------------------------
Early == 80
Critical == 95

(* readArtescaCapacity: null where hdproxyd does not answer.               *)
NoCapacity == [there |-> FALSE, refused |-> FALSE, warning |-> FALSE]
ArmedIsRefusing(fill, armed, seen) == \* (variant) the guard is armed, so it refuses
  IF ~seen THEN NoCapacity
  ELSE [there |-> TRUE, refused |-> armed, warning |-> fill >= Early /\ fill < Critical]
Capacity(fill, armed, seen) ==
  IF ~seen THEN NoCapacity
  ELSE [there |-> TRUE, refused |-> armed /\ fill >= Critical, warning |-> fill >= Early /\ fill < Critical]

(* classifyReclamation.                                                    *)
Pos(n) == IF n > 0 THEN n ELSE 0
SilenceIsIdle(r) == \* (variant) without a heartbeat nothing is pending
  IF r.reclaimable = -1 THEN "unknown" ELSE IF r.paused = 1 THEN "stuck"
  ELSE IF r.bytes > 0 \/ r.passes > 0 THEN "working" ELSE "idle"
Classify(r) ==
  LET heartbeat == r.bytes > 0 \/ r.passes > 0
  IN IF r.reclaimable = -1 THEN "unknown"
     ELSE IF r.paused = 1 \/ (r.retry > 0 /\ ~heartbeat) THEN "stuck"
     ELSE IF r.reclaimable > 0 \/ Pos(r.relocate) + Pos(r.retry) > 0
          THEN IF heartbeat THEN "working"
               ELSE IF r.passes = -1 /\ r.bytes = -1 THEN "unknown" ELSE "stuck"
     ELSE "idle"

(* collectStoragePreflight, with what HeadBucket met and what it is called *)
(* (classify).                                                             *)
ReadsAreEnough(w) == \* (variant) the bucket answers reads
  IF w.cfg = "unread" THEN "unknown" ELSE IF w.cfg # "full" \/ w.head # "ok" THEN w.head ELSE "ok"
Preflight(w) ==
  LET capacity == Capacity(w.fill, w.armed, w.seen)
  IN IF w.cfg = "unread" THEN "unknown"
     ELSE IF w.cfg # "full" THEN w.cfg
     ELSE IF w.head # "ok" THEN w.head
     ELSE IF capacity.refused THEN "refusing"
     ELSE IF capacity.warning THEN "filling" ELSE "ok"

(* readRetention: what cannot be read is no rule.                          *)
Rule(w) == IF w.rule = "denied" THEN "none" ELSE w.rule

(* The page's warnings.                                                    *)
Warnings(w, rule) ==
  LET capacity == Capacity(w.fill, w.armed, w.seen)
  IN (IF Classify(w.reading) = "stuck" THEN {"stuck"} ELSE {})
     \union (IF capacity.refused THEN {"refusing"} ELSE IF capacity.warning THEN {"filling"} ELSE {})
     \union (IF rule = "none" THEN {"no expiry"} ELSE {})
     \union (IF rule \in {"none", "expiry"} THEN {"no abort"} ELSE {})

--------------------------------------------------------------------------------
(* newestChildPrefix compares directory names as numbers: hours are        *)
(* written without a leading zero.                                         *)
Lexically(m, n) == \* (variant) as strings, "9" comes after "10"
  LET first(k) == IF k >= 10 THEN k \div 10 ELSE k
  IN IF first(m) = first(n) THEN m <= n ELSE first(m) < first(n)
Newer(m, n) == m <= n
NewestOf(names) == CHOOSE n \in names : \A m \in names : Newer(m, n)

(* sampleNewestBySensor: the last two hours of the newest day of a sensor; *)
(* one that cannot be read has none.                                       *)
HoursOf(s, day) == {h.hour : h \in {g \in s.hours : g.day = day}}
NewestHours(s) ==
  IF ~s.there \/ s.hours = {} THEN {}
  ELSE LET day   == NewestOf({h.day : h \in s.hours})
           last  == NewestOf(HoursOf(s, day))
           rest  == HoursOf(s, day) \ {last}
       IN {[id |-> s.id, day |-> day, hour |-> h] :
             h \in {last} \union (IF rest = {} THEN {} ELSE {NewestOf(rest)})}
PerSensor(sensors) == UNION {NewestHours(s) : s \in {t \in sensors : ~t.removed}}

(* The route falls back to the first page of the bucket, in key order.     *)
FirstPage(sensors) ==
  LET some == {s \in sensors : s.hours # {}}
  IN IF some = {} THEN {}
     ELSE LET s == CHOOSE s \in some : \A t \in some : s.id <= t.id
              h == CHOOSE h \in s.hours : \A g \in s.hours : h.day < g.day \/ (h.day = g.day /\ h.hour <= g.hour)
          IN {[id |-> s.id, day |-> h.day, hour |-> h.hour]}
Sample(sensors) ==
  IF PerSensor(sensors) # {} THEN [mode |-> "per-sensor", hours |-> PerSensor(sensors)]
  ELSE [mode |-> "first-page", hours |-> FirstPage(sensors)]

(* computeSegmentDurations: the gaps between a sensor's segments, each a   *)
(* pair of them; the percentile is the length at floor(p * (n - 1)) when   *)
(* they are sorted.                                                        *)
Gaps(segments) ==
  {g \in segments \X segments :
     /\ g[1].id = g[2].id /\ g[1].ts < g[2].ts
     /\ ~\E s \in segments : s.id = g[1].id /\ g[1].ts < s.ts /\ s.ts < g[2].ts}
Length(g) == g[2].ts - g[1].ts
UpTo(gaps, length) == Cardinality({g \in gaps : Length(g) <= length})
Percentile(gaps, p) ==
  LET rank    == (p * (Cardinality(gaps) - 1)) \div 100
      reached == {Length(g) : g \in {f \in gaps : UpTo(gaps, Length(f)) > rank}}
  IN IF gaps = {} THEN -1 ELSE CHOOSE n \in reached : \A m \in reached : n <= m

(* The alerts of the route and of the panel, of the cache's fill, what     *)
(* Prometheus says of frames (-1 unreachable, -2 not collected) and the    *)
(* sample.                                                                 *)
Alerts(fill, drops, mode) ==
  (IF fill > 90 THEN {"crit: cache"} ELSE IF fill = -1 THEN {"warn: cache"} ELSE {})
  \union (IF drops >= 5 THEN {"crit: drops"}
          ELSE IF drops = -1 THEN {"warn: drops"} ELSE IF drops = -2 THEN {"info: drops"} ELSE {})
  \union (IF mode = "first-page" THEN {"warn: sample"} ELSE {})

--------------------------------------------------------------------------------
NoRule == [there |-> FALSE, age |-> 0, rule |-> "none"]
NoPre  == [there |-> FALSE, age |-> 0, state |-> "unknown"]
NoData == [there |-> FALSE, sample |-> {}, rate |-> 0, alerts |-> {}]

Healthy == [fill |-> 70, armed |-> TRUE, seen |-> TRUE, head |-> "ok", cfg |-> "full", rule |-> "both",
            reading |-> CHOOSE r \in Readings : TRUE, sensors |-> {}, since |-> 0, changes |-> 0]
Init ==
  /\ view \in {"guard", "panel"}
  /\ world \in IF view = "guard" THEN {Healthy} ELSE {[Healthy EXCEPT !.sensors = s] : s \in SensorSets}
  /\ kept  = [pre |-> NoPre, rules |-> NoRule]
  /\ shown = [pre |-> NoPre, warnings |-> {}, since |-> -1]
  /\ panel = [state |-> "loading", data |-> NoData, ring |-> <<>>]

(* ARTESCA fills, is armed or lost from sight; the endpoint, the keys, the *)
(* recorder's ConfigMap and the bucket's rules change under the console.   *)
Becomes(w) ==
  /\ world.changes < MaxChanges
  /\ world' = [w EXCEPT !.since = 0, !.changes = world.changes + 1]
  /\ UNCHANGED <<view, kept, shown, panel>>
GuardChanges ==
  /\ view = "guard"
  /\ \/ \E fill \in {70, 85, 96}, armed, seen \in BOOLEAN :
          Becomes([world EXCEPT !.fill = fill, !.armed = armed, !.seen = seen])
     \/ \E head \in {"ok", "dns", "unreachable", "rejected", "missing"} : Becomes([world EXCEPT !.head = head])
     \/ \E cfg \in {"full", "unread", "off", "incomplete"} : Becomes([world EXCEPT !.cfg = cfg])
     \/ \E rule \in {"none", "expiry", "both", "denied"} : Becomes([world EXCEPT !.rule = rule])
     \/ \E r \in Readings : Becomes([world EXCEPT !.reading = r])
SensorsChange ==
  /\ view = "panel"
  /\ \E sensors \in SensorSets : Becomes([world EXCEPT !.sensors = sensors])

Older(c, ttl) == [c EXCEPT !.age = IF c.there /\ @ < ttl THEN @ + 1 ELSE @]
Tick ==
  /\ view = "guard"
  /\ world' = [world EXCEPT !.since = IF @ < RulesTtl THEN @ + 1 ELSE @]
  /\ kept'  = [pre |-> Older(kept.pre, PreflightTtl), rules |-> Older(kept.rules, RulesTtl)]
  /\ UNCHANGED <<view, shown, panel>>

(* collectStoragePreflightCached, for a camera row or the page's poll.     *)
NeverAsksAgain == \* (variant) once asked, always known
  IF kept.pre.there THEN kept.pre ELSE [there |-> TRUE, age |-> 0, state |-> Preflight(world)]
PreflightNow ==
  IF kept.pre.there /\ kept.pre.age < PreflightTtl THEN kept.pre
  ELSE [there |-> TRUE, age |-> 0, state |-> Preflight(world)]
AskPreflight ==
  /\ view = "guard"
  /\ kept'  = [kept EXCEPT !.pre = PreflightNow]
  /\ shown' = [shown EXCEPT !.pre = PreflightNow]
  /\ UNCHANGED <<view, world, panel>>

(* collectStorageSubstrate's second half.                                  *)
RulesNow ==
  IF kept.rules.there /\ kept.rules.age < RulesTtl THEN kept.rules
  ELSE [there |-> TRUE, age |-> 0, rule |-> Rule(world)]
AskPage ==
  /\ view = "guard"
  /\ kept'  = [kept EXCEPT !.rules = RulesNow]
  /\ shown' = [shown EXCEPT !.warnings = Warnings(world, RulesNow.rule), !.since = RulesNow.age]
  /\ UNCHANGED <<view, world, panel>>

(* The panel's poll.  React Query keeps what is equal to what it had, and  *)
(* only new data takes a sample.                                           *)
PanelAnswers(rate, fill, drops) ==
  /\ view = "panel"
  /\ LET s    == Sample(world.sensors)
         data == [there |-> TRUE, sample |-> s.hours, rate |-> rate, alerts |-> Alerts(fill, drops, s.mode)]
         ring == IF Len(panel.ring) < RingSize THEN panel.ring ELSE Tail(panel.ring)
     IN panel' = [state |-> "fresh", data |-> data,
                  ring |-> IF data = panel.data THEN panel.ring ELSE Append(ring, rate)]
  /\ UNCHANGED <<view, world, kept, shown>>
PanelFails ==
  /\ view = "panel"
  /\ panel' = [panel EXCEPT !.state = IF panel.data.there THEN "stale" ELSE "error"]
  /\ UNCHANGED <<view, world, kept, shown>>

Next ==
  \/ GuardChanges \/ SensorsChange \/ Tick \/ AskPreflight \/ AskPage \/ PanelFails
  \/ \E rate \in {0, 1}, fill \in {-1, 50, 95}, drops \in {-2, -1, 0, 5} : PanelAnswers(rate, fill, drops)

Spec == Init /\ [][Next]_vars

--------------------------------------------------------------------------------
TypeOK ==
  /\ view \in {"guard", "panel"} /\ world.changes \in 0 .. MaxChanges
  /\ kept.pre.age \in 0 .. PreflightTtl /\ kept.rules.age \in 0 .. RulesTtl
  /\ panel.state \in {"loading", "fresh", "stale", "error"} /\ Len(panel.ring) <= RingSize

(* A world that has stood for PREFLIGHT_TTL_MS is the one a camera row     *)
(* tells about from its next question on, and "ok" is never said of one    *)
(* that is known to refuse writes.                                         *)
PreflightStep ==
  shown'.pre # shown.pre =>
    /\ world.since >= PreflightTtl => shown'.pre.state = Preflight(world)
    /\ shown'.pre.age = 0 /\ shown'.pre.state = "ok" =>
         ~(world.seen /\ world.armed /\ world.fill >= Critical)
PreflightIsTimely == [][PreflightStep]_vars

(* The page and the preflight agree on the cluster: where one names a      *)
(* refusal or a warning, the other's fresh answer is not green; and a      *)
(* guard that is merely armed is no alarm.                                 *)
SurfacesAgree ==
  /\ "refusing" \in Warnings(world, "both") \/ "filling" \in Warnings(world, "both") => Preflight(world) # "ok"
  /\ world.fill < Early => Warnings(world, "both") \subseteq {"stuck"}

(* Space that is pending with no sign of a sweeper is never called idle or *)
(* working, and a figure nobody scrapes is never called idle.              *)
SilenceIsNotIdle ==
  \A r \in [reclaimable : -1 .. 1, relocate : -1 .. 1, retry : -1 .. 1, paused : -1 .. 1,
            bytes : -1 .. 1, passes : -1 .. 1] :
    /\ (r.reclaimable = -1 => Classify(r) = "unknown")
    /\ (r.reclaimable > 0 \/ r.retry > 0) /\ r.bytes <= 0 /\ r.passes <= 0 => Classify(r) \notin {"idle", "working"}

(* The VST panel's sample is of live sensors and has the newest hour of    *)
(* every one that can be read, unless it says that it is not; the          *)
(* percentiles are gaps within one sensor.                                 *)
SampleIsNewest ==
  panel.data.there /\ "warn: sample" \notin panel.data.alerts =>
    \A x \in panel.data.sample : \A y \in panel.data.sample : x.id = y.id => x.day = y.day
NewestStep ==
  panel'.data # panel.data /\ "warn: sample" \notin panel'.data.alerts =>
    \A s \in world.sensors : ~s.removed /\ s.there =>
      \A h \in s.hours : \E x \in panel'.data.sample :
        x.id = s.id /\ (h.day < x.day \/ (h.day = x.day /\ h.hour <= x.hour))
NewestIsShown == [][NewestStep]_vars
PercentilesAreGaps ==
  \A segments \in SUBSET [id : {1, 2}, ts : {0, 10, 70}] :
    LET gaps == Gaps(segments)
    IN /\ Percentile(gaps, 50) <= Percentile(gaps, 95)
       /\ \A p \in {50, 95} : Percentile(gaps, p) \in {-1, 10, 60, 70}
================================================================================
