----------------------------- MODULE Diagnostics -----------------------------
(***************************************************************************)
(* The diagnostics of the console: the chain behind one camera, which      *)
(* names the first broken link (lib/diagnostics/camera-chain.ts), the      *)
(* connectivity probes, each raced against a deadline                      *)
(* (lib/diagnostics/connectivity.ts), the panel that polls them, and the   *)
(* tests an operator starts (api/diagnostics/[test]).  "view" says which   *)
(* of the three is in use.                                                 *)
(***************************************************************************)
EXTENDS Integers, Sequences, FiniteSets, SequencesExt

CONSTANTS
  Chains,      \* records [source, sensor, stream, recording, rules, bound, store]: what is there
  Tests,       \* tests of the page
  LongBudget,  \* ticks the playback probe may take; the others take one
  MaxMoves,    \* bound: turns of the world, polls of the panel, runs of tests
  MaxFaults    \* bound: probes that fail in one chain

VARIABLES
  view,   \* "chain", "panel" or "tests"
  world,  \* the chain as it stands: one of Chains
  walk,   \* the diagnosis being made, or made
  panel,  \* [phase, data, refreshing, wire: fetches in flight]
  runs,   \* [running, record, noted]
  moves

vars == <<view, world, walk, panel, runs, moves>>

--------------------------------------------------------------------------------
Probes  == {"storage", "sensors", "rules", "model"}
LinkIds == <<"source", "sensor", "stream", "recording", "rule", "scenario">>
NoWalk  == [step |-> "none", got |-> {}, seen |-> {}, lost |-> {}, warnings |-> {}, recording |-> "unknown", turned |-> FALSE]

Init ==
  /\ view \in {"chain", "panel", "tests"}
  /\ world \in Chains
  /\ walk = NoWalk
  /\ panel = [phase |-> "idle", data |-> -1, refreshing |-> {}, wire |-> {}]
  /\ runs = [running |-> {}, record |-> [t \in {} |-> "pass"], noted |-> {}]
  /\ moves = 0

May == moves < MaxMoves
--------------------------------------------------------------------------------
(* The chain: four probes at once, then the recording of an armed stream.  *)
(* A probe that fails leaves an empty list behind and a warning.           *)
BeginWalk ==
  /\ view = "chain" /\ walk.step = "none"
  /\ walk' = [NoWalk EXCEPT !.step = "probes"]
  /\ UNCHANGED <<view, world, panel, runs, moves>>
NoWarning(p) == \* (variant) the list that fails is taken for an empty one
  walk.warnings
Warnings(p) == walk.warnings \union {p}
(* seen holds what each probe found.                                       *)
Found(p, w) ==
  CASE p = "storage" -> <<p, w.store>>
    [] p = "sensors" -> <<p, <<w.sensor, w.stream>>>>
    [] p = "rules"   -> <<p, w.rules>>
    [] OTHER         -> <<p, "served">>
Probe(p) ==
  /\ walk.step = "probes" /\ p \in Probes \ walk.got
  /\ \/ walk' = [walk EXCEPT !.got = @ \union {p}, !.seen = @ \union {Found(p, world)}]
     \/ /\ Cardinality(walk.lost) < MaxFaults
        /\ walk' = [walk EXCEPT !.got = @ \union {p}, !.lost = @ \union {p}, !.warnings = Warnings(p)]
  /\ UNCHANGED <<view, world, panel, runs, moves>>

Saw(p, else) == IF \E s \in walk.seen : s[1] = p THEN (CHOOSE s \in walk.seen : s[1] = p)[2] ELSE else
StoreOk    == "storage" \notin walk.lost /\ Saw("storage", FALSE)
Registered == "sensors" \notin walk.lost /\ Saw("sensors", <<FALSE, FALSE>>)[1]
Armed      == Registered /\ Saw("sensors", <<FALSE, FALSE>>)[2]
ProbeRecording ==
  /\ walk.step = "probes" /\ walk.got = Probes
  /\ \/ walk' = [walk EXCEPT !.step = "report", !.recording = IF StoreOk /\ Armed THEN world.recording ELSE "unknown"]
     \/ walk' = [walk EXCEPT !.step = "report"]
  /\ UNCHANGED <<view, world, panel, runs, moves>>
Turn ==
  /\ view = "chain" /\ May
  /\ world' \in Chains \ {world} /\ moves' = moves + 1
  /\ walk' = IF walk.step = "none" THEN walk ELSE [walk EXCEPT !.turned = TRUE]
  /\ UNCHANGED <<view, panel, runs>>

(* The six links.  The source is what the config store says.               *)
SourceState == IF world.source THEN "ok" ELSE "fail"
SensorState == IF Registered THEN "ok" ELSE "fail"
StreamState == CASE Armed -> "ok" [] Registered /\ ~Armed -> "fail" [] OTHER -> "blocked"
RecordingState ==
  CASE ~StoreOk -> "fail"
    [] StoreOk /\ ~Armed -> "blocked"
    [] OTHER -> CASE walk.recording = "recording" -> "ok" [] walk.recording = "unknown" -> "unknown" [] OTHER -> "fail"
Mine == Saw("rules", <<>>)
Drifted(rule) == "model" \notin walk.lost /\ rule # "served"
FirstRuleOnly == \* (variant) only the first rule of the camera is compared
  CASE Mine = <<>> -> "fail"
    [] OTHER -> IF Drifted(Mine[1]) THEN "fail" ELSE IF Len(Mine) > 1 THEN "warn" ELSE "ok"
RuleState ==
  CASE Mine = <<>> -> "fail"
    [] Mine # <<>> /\ \E i \in DOMAIN Mine : Drifted(Mine[i]) -> "fail"
    [] OTHER -> IF Len(Mine) > 1 THEN "warn" ELSE "ok"
ScenarioState == IF world.bound THEN "ok" ELSE "warn"
Links == <<SourceState, SensorState, StreamState, RecordingState, RuleState, ScenarioState>>

(* The first link that fails, then the first that warns; 0 is "chain ok".  *)
FirstIn(links, state) == SelectInSeq(links, LAMBDA l : l = state)
Verdict == IF FirstIn(Links, "fail") > 0 THEN FirstIn(Links, "fail") ELSE FirstIn(Links, "warn")

--------------------------------------------------------------------------------
(* The panel: a poll every 30 s and by hand; each collection asks eight    *)
(* backends at once and takes what each answers before its deadline.  Two  *)
(* of them stand here: k8s with the common budget and playback with its    *)
(* own.                                                                    *)
Backends == {"k8s", "playback"}
OneBudget(b) == \* (variant) the clip fetch has the budget of the others
  1
Budget(b) == IF b = "playback" THEN LongBudget ELSE 1
Open == [state |-> "open", at |-> 0]
NewFetch(hand) == [id |-> moves, hand |-> hand, age |-> 0, got |-> [b \in Backends |-> Open]]
Poll(hand) ==
  /\ view = "panel" /\ May /\ moves' = moves + 1
  /\ (hand => panel.phase # "loading" /\ panel.refreshing = {})
  /\ panel' = [panel EXCEPT !.phase = IF @ = "ok" THEN "ok" ELSE "loading",
                            !.refreshing = IF hand THEN {moves} ELSE @,
                            !.wire = @ \union {NewFetch(hand)}]
  /\ UNCHANGED <<view, world, walk, runs>>
Pending(f) == {b \in Backends : f.got[b] = Open}
Answered(f, b, state) ==
  [panel EXCEPT !.wire = (@ \ {f}) \union {[f EXCEPT !.got[b] = [state |-> state, at |-> f.age]]}]
BackendAnswers(f, b) ==
  /\ f \in panel.wire /\ b \in Pending(f) /\ f.age <= Budget(b)
  /\ panel' = Answered(f, b, "ok")
  /\ UNCHANGED <<view, world, walk, runs, moves>>
BackendTimesOut(f, b) ==
  /\ f \in panel.wire /\ b \in Pending(f) /\ f.age = Budget(b)
  /\ panel' = Answered(f, b, "slow")
  /\ UNCHANGED <<view, world, walk, runs, moves>>
Tick ==
  /\ \E f \in panel.wire : Pending(f) # {}
  /\ \A f \in panel.wire : \A b \in Pending(f) : f.age < Budget(b)
  /\ panel' = [panel EXCEPT !.wire = {IF Pending(f) = {} THEN f ELSE [f EXCEPT !.age = @ + 1] : f \in @}]
  /\ UNCHANGED <<view, world, walk, runs, moves>>
KeepsSpinning(f) == \* (variant) only an answer that arrives ends the refresh
  panel.refreshing
Finally(f) == IF f.hand THEN {} ELSE panel.refreshing
Shows(f) ==
  /\ f \in panel.wire /\ Pending(f) = {}
  /\ panel' = [panel EXCEPT !.phase = "ok", !.data = f.id, !.wire = @ \ {f}, !.refreshing = Finally(f)]
  /\ UNCHANGED <<view, world, walk, runs, moves>>
FetchFails(f) ==
  /\ f \in panel.wire
  /\ panel' = [panel EXCEPT !.phase = "error", !.data = -1, !.wire = @ \ {f}, !.refreshing = Finally(f)]
  /\ UNCHANGED <<view, world, walk, runs, moves>>

--------------------------------------------------------------------------------
(* The tests: a card runs one at a time, different cards beside each       *)
(* other.  The route notes the run before it answers, however it ended.    *)
Run(t) ==
  /\ view = "tests" /\ May /\ t \notin {r[1] : r \in runs.running}
  /\ moves' = moves + 1
  /\ runs' = [runs EXCEPT !.running = @ \union {<<t, moves, "asked">>}]
  /\ UNCHANGED <<view, world, walk, panel>>
OnlyPasses(r, exit) == \* (variant) a run that fails is not noted
  IF exit = "pass" THEN runs.noted \union {r[2]} ELSE runs.noted
Noted(r, exit) == runs.noted \union {r[2]}
RouteEnds(r, exit) ==
  /\ r \in runs.running /\ r[3] = "asked"
  /\ runs' = [runs EXCEPT !.running = (@ \ {r}) \union {<<r[1], r[2], exit>>}, !.noted = Noted(r, exit)]
  /\ UNCHANGED <<view, world, walk, panel, moves>>
TestAnswers(r) ==
  /\ r \in runs.running /\ r[3] # "asked"
  /\ runs' = [runs EXCEPT !.running = @ \ {r},
                          !.record = [t \in DOMAIN @ \union {r[1]} |-> IF t = r[1] THEN <<r[2], r[3]>> ELSE @[t]]]
  /\ UNCHANGED <<view, world, walk, panel, moves>>
TestIsLost(r) ==
  /\ r \in runs.running
  /\ runs' = [runs EXCEPT !.running = @ \ {r}]
  /\ UNCHANGED <<view, world, walk, panel, moves>>

Next ==
  \/ BeginWalk \/ ProbeRecording \/ Turn \/ Tick
  \/ \E p \in Probes : Probe(p)
  \/ \E hand \in BOOLEAN : Poll(hand)
  \/ \E f \in panel.wire : Shows(f) \/ FetchFails(f) \/ \E b \in Backends : BackendAnswers(f, b) \/ BackendTimesOut(f, b)
  \/ \E t \in Tests : Run(t)
  \/ \E r \in runs.running : TestAnswers(r) \/ TestIsLost(r) \/ \E exit \in {"pass", "fail"} : RouteEnds(r, exit)

Spec == Init /\ [][Next]_vars

--------------------------------------------------------------------------------
TypeOK ==
  /\ view \in {"chain", "panel", "tests"} /\ world \in Chains /\ moves \in 0 .. MaxMoves
  /\ walk.step \in {"none", "probes", "report"} /\ walk.lost \subseteq walk.got
  /\ panel.phase \in {"idle", "loading", "ok", "error"}

(* camera-chain.ts: when nothing changed meanwhile and a chain in good     *)
(* order is blamed, a probe failed and a warning says so; and a chain that *)
(* is called good has each link it could look at.                          *)
Sound(w) ==
  /\ w.source /\ w.sensor /\ w.stream /\ w.store /\ w.bound
  /\ w.recording = "recording" /\ w.rules = <<"served">>
BlameIsExplained ==
  walk.step = "report" /\ ~walk.turned =>
    /\ Sound(world) /\ Verdict > 0 => walk.warnings # {}
    /\ Verdict = 0 => /\ world.source /\ world.sensor /\ world.stream /\ world.store /\ world.bound
                      /\ Len(world.rules) = 1 /\ ("model" \in walk.lost \/ world.rules = <<"served">>)
                      /\ walk.recording # "not-recording"

(* A rule that names a model the VLM does not serve is blamed, unless a    *)
(* link before it is.                                                      *)
DriftIsBlamed ==
  walk.step = "report" /\ ~walk.turned /\ walk.lost = {} /\ (\E i \in DOMAIN world.rules : world.rules[i] # "served") =>
    Verdict \in 1 .. 5 /\ Links[Verdict] = "fail"

(* ConnectivityPanel: when nothing is in flight nothing spins.             *)
SpinningEnds == panel.wire = {} => panel.phase # "loading" /\ panel.refreshing = {}

(* connectivity.ts: a backend that answers is not called slow before its   *)
(* own budget is used up, and no collection outlives the longest budget.   *)
BudgetsHold ==
  \A f \in panel.wire : /\ f.age <= LongBudget
                        /\ (f.got["playback"].state = "slow" => f.got["playback"].at = LongBudget)

(* A result on a card is a run that was noted.                             *)
ResultsAreNoted == \A t \in DOMAIN runs.record : runs.record[t][1] \in runs.noted
================================================================================
