----------------------------- MODULE TuningForms -----------------------------
(***************************************************************************)
(* The tuning page: a form keeps a copy of what the route answered, the    *)
(* whole copy is sent, and the route carries it into the cluster one call  *)
(* at a time.  VST's configuration is in two ConfigMaps, one per component *)
(* (tuning/vst), and both are restarted; frame sampling is carried by      *)
(* taking every live rule down and posting it again (tuning/sampling); the *)
(* alert worker's cooldown is one number for all scenarios (tuning/alerts).*)
(*                                                                         *)
(* A configuration is what the form sets, [mode, drop], and what a         *)
(* component keeps of its own.  "alone" is no state of the code: whether   *)
(* nothing else wrote since the request began.                             *)
(***************************************************************************)
EXTENDS Integers, Sequences, FiniteSets

CONSTANTS
  Users,     \* browsers with the page open
  Rules,     \* the live rules
  MaxTurns   \* bound: edits, outside changes and saves

VARIABLES
  view,  \* what is open: "vst" or "sampling"
  maps,  \* component -> its ConfigMap: [mode, drop, own, version]
  pods,  \* component -> what it was started with: [mode, drop]
  form,  \* user -> [there, data, local, dialog]
  req,   \* user -> [step, patch, read, alone]
  rules  \* [live: id -> "old", "new", "gone", "there" or "none", doc, saving, began, todo, warned, turns]

vars == <<view, maps, pods, form, req, rules>>

--------------------------------------------------------------------------------
Targets == <<"sensor", "stream">>
Parts   == {Targets[i] : i \in DOMAIN Targets}
Values  == [mode : {"always", "event"}, drop : BOOLEAN]
Tuned(m) == [mode |-> m.mode, drop |-> m.drop]

(* applyVstPatches, on each component's own document.                      *)
WholeDocument(m, patch) == \* (variant) the sensor's document for both
  [mode |-> patch.mode, drop |-> patch.drop, own |-> "sensor", version |-> m.version + 1]
Patched(m, patch) == [m EXCEPT !.mode = patch.mode, !.drop = patch.drop, !.version = @ + 1]

(* checkRecorderDrift, of the one field it compares.                       *)
Drift == maps["sensor"].drop # maps["stream"].drop

(* The forms' number fields: what is typed is NaN or zero, the default, or *)
(* is brought into bounds.  The routes refuse what is out of theirs.       *)
Typed == {-5, 0, 1, 4, 64, 200, 1024, 40000, 500000}
Rounded(n, lo, hi, default) == \* (variant) the default is taken for what is out of bounds
  IF n < lo \/ n > hi THEN default ELSE n
Clamped(n, lo, hi, default) ==
  LET m == IF n = 0 THEN default ELSE n IN IF m < lo THEN lo ELSE IF m > hi THEN hi ELSE m
SamplingFields == {[lo |-> 1, hi |-> 30, default |-> 1, min |-> 1, max |-> 30],
                   [lo |-> 5, hi |-> 120, default |-> 30, min |-> 5, max |-> 120]}
RtviFields == {[lo |-> 1, hi |-> 16, default |-> 1, min |-> 1, max |-> 1000000],
               [lo |-> 1024, hi |-> 131072, default |-> 32768, min |-> 1, max |-> 1000000],
               [lo |-> 64, hi |-> 16384, default |-> 16384, min |-> 64, max |-> 16384],
               [lo |-> 1, hi |-> 32, default |-> 8, min |-> 1, max |-> 32],
               [lo |-> 1024, hi |-> 32768, default |-> 5120, min |-> 1024, max |-> 32768]}
VstFields == {[lo |-> 5, hi |-> 60, default |-> 5, min |-> 1, max |-> 1000000],
              [lo |-> 50, hi |-> 99, default |-> 50, min |-> 0, max |-> 100],
              [lo |-> 1, hi |-> 60, default |-> 10, min |-> 1, max |-> 1000000]}

(* tuning/alerts: the form shows the largest cooldown and sends it with    *)
(* whatever else was changed; it becomes that of every scenario.           *)
ShownCooldown(cooldowns) ==
  IF cooldowns = {} THEN 0 ELSE CHOOSE c \in cooldowns : \A d \in cooldowns : d <= c
SavedCooldowns(cooldowns, edited) ==
  IF edited = -1 THEN {ShownCooldown(cooldowns)} ELSE {Clamped(edited, 0, 1000000, 0)}

--------------------------------------------------------------------------------
Now     == [mode |-> "always", drop |-> FALSE]
NoForm  == [there |-> FALSE, data |-> Now, local |-> Now, dialog |-> "closed"]
NoReq   == [step |-> "none", patch |-> Now, read |-> 0, alone |-> FALSE]
Dirty(u) == form[u].there /\ form[u].local # form[u].data
Turn    == rules.turns < MaxTurns /\ rules' = [rules EXCEPT !.turns = @ + 1]

Init ==
  /\ view \in {"vst", "sampling"}
  /\ maps = [c \in Parts |-> [mode |-> "always", drop |-> FALSE, own |-> c, version |-> 0]]
  /\ pods = [c \in Parts |-> Now]
  /\ form = [u \in Users |-> NoForm]
  /\ req  = [u \in Users |-> NoReq]
  /\ rules = [live |-> [r \in Rules |-> "old"], doc |-> "old", saving |-> FALSE,
              began |-> {}, todo |-> {}, warned |-> {}, turns |-> 0]

(* GET: the sensor's copy.  The form takes its own copy of the first       *)
(* answer, and keeps it.                                                   *)
SeedAgain(u, data) == \* (variant) every answer seeds the form
  [form[u] EXCEPT !.there = TRUE, !.data = data, !.local = data]
Seeded(u, data) ==
  IF form[u].there THEN [form[u] EXCEPT !.data = data]
  ELSE [form[u] EXCEPT !.there = TRUE, !.data = data, !.local = data]
Load(u) ==
  /\ view = "vst"
  /\ form' = [form EXCEPT ![u] = Seeded(u, Tuned(maps["sensor"]))]
  /\ UNCHANGED <<view, maps, pods, req, rules>>

Edit(u, value) ==
  /\ view = "vst" /\ form[u].there /\ form[u].dialog \in {"closed", "open"} /\ value # form[u].local
  /\ Turn
  /\ form' = [form EXCEPT ![u].local = value]
  /\ UNCHANGED <<view, maps, pods, req>>

(* Save is offered while the form differs from the answer it knows.        *)
Open(u) ==
  /\ view = "vst" /\ Dirty(u) /\ form[u].dialog = "closed"
  /\ form' = [form EXCEPT ![u].dialog = "open"]
  /\ UNCHANGED <<view, maps, pods, req, rules>>
Cancel(u) ==
  /\ form[u].dialog \in {"open", "failed", "saved"}
  /\ form' = [form EXCEPT ![u].dialog = "closed"]
  /\ UNCHANGED <<view, maps, pods, req, rules>>

(* PATCH, with the whole copy; the box is asked before the first write.    *)
NotAlone == [v \in Users |-> [req[v] EXCEPT !.alone = FALSE]]
Confirm(u) ==
  /\ form[u].dialog = "open" /\ Turn
  /\ form' = [form EXCEPT ![u].dialog = "saving"]
  /\ req' = [NotAlone EXCEPT ![u] = [step |-> "read1", patch |-> form[u].local, read |-> 0,
                                     alone |-> \A v \in Users : req[v].step = "none"]]
  /\ UNCHANGED <<view, maps, pods>>
Refuse(u) ==
  /\ req[u].step # "none"
  /\ req'  = [req EXCEPT ![u] = NoReq]
  /\ form' = [form EXCEPT ![u].dialog = "failed"]
  /\ UNCHANGED <<view, maps, pods, rules>>

(* One target after the other is read and written under its version.       *)
Goes(u, from, to) == req[u].step = from /\ req' = [req EXCEPT ![u].step = to]
Target(step) == IF step \in {"read1", "write1"} THEN "sensor" ELSE "stream"
ReadMap(u) ==
  /\ req[u].step \in {"read1", "read2"}
  /\ req' = [req EXCEPT ![u].step = IF @ = "read1" THEN "write1" ELSE "write2",
                        ![u].read = maps[Target(req[u].step)].version]
  /\ UNCHANGED <<view, maps, pods, form, rules>>
Unversioned(u) == \* (variant) the version is not sent
  TRUE
Matches(u) == req[u].read = maps[Target(req[u].step)].version
WriteMap(u) ==
  /\ req[u].step \in {"write1", "write2"} /\ Matches(u)
  /\ maps' = [maps EXCEPT ![Target(req[u].step)] = Patched(@, req[u].patch)]
  /\ req' = [req EXCEPT ![u].step = IF @ = "write1" THEN "read2" ELSE "restart1"]
  /\ UNCHANGED <<view, pods, form, rules>>
Restart(u) ==
  /\ \/ Goes(u, "restart1", "restart2") /\ pods' = [pods EXCEPT !["sensor"] = Tuned(maps["sensor"])]
     \/ Goes(u, "restart2", "answer") /\ pods' = [pods EXCEPT !["stream"] = Tuned(maps["stream"])]
  /\ UNCHANGED <<view, maps, form, rules>>
Answered(u) ==
  /\ Goes(u, "answer", "none")
  /\ form' = [form EXCEPT ![u].dialog = "saved", ![u].data = Tuned(maps["sensor"])]
  /\ UNCHANGED <<view, maps, pods, rules>>

(* Someone else patches a component's ConfigMap.                           *)
Outside(c, value) ==
  /\ view = "vst" /\ Turn
  /\ maps' = [maps EXCEPT ![c] = Patched(@, value)]
  /\ req' = NotAlone
  /\ UNCHANGED <<view, pods, form>>

--------------------------------------------------------------------------------
(* tuning/sampling: the ConfigMap first, then every rule that is live is   *)
(* deleted and posted with the new sampling; 409 says that it is there,    *)
(* because the deletion failed or someone posted it again.                 *)
Alive == {r \in Rules : rules.live[r] # "none"}
Sample ==
  /\ view = "sampling" /\ ~rules.saving /\ rules.turns < MaxTurns
  /\ rules' = [rules EXCEPT !.doc = "new", !.saving = TRUE, !.warned = {}, !.turns = @ + 1,
                            !.began = Alive, !.todo = Alive]
  /\ UNCHANGED <<view, maps, pods, form, req>>
Dropped(r) == rules.live[r] = "gone"
Delete(r) ==
  /\ r \in rules.todo /\ rules.live[r] \in {"old", "new"}
  /\ \E found \in {"gone", "there"} : rules' = [rules EXCEPT !.live[r] = found]
  /\ UNCHANGED <<view, maps, pods, form, req>>
FailsQuietly(r) == \* (variant) a rule that could not be posted is not named
  [rules EXCEPT !.live[r] = "none", !.todo = @ \ {r}]
Lost(r) == [rules EXCEPT !.live[r] = "none", !.todo = @ \ {r}, !.warned = @ \union {r}]
Post(r) ==
  /\ r \in rules.todo
  /\ \/ Dropped(r) /\ rules' = [rules EXCEPT !.live[r] = "new", !.todo = @ \ {r}]
     \/ Dropped(r) /\ rules' = Lost(r)
     \/ ~Dropped(r) /\ rules.live[r] = "there" /\ rules' = [rules EXCEPT !.live[r] = "old", !.todo = @ \ {r}]
  /\ UNCHANGED <<view, maps, pods, form, req>>
Reseed(r) ==
  /\ view = "sampling" /\ rules.turns < MaxTurns /\ rules.live[r] \in {"gone", "none"}
  /\ rules' = [rules EXCEPT !.live[r] = IF Dropped(r) THEN "there" ELSE "old", !.turns = @ + 1]
  /\ UNCHANGED <<view, maps, pods, form, req>>
Sampled ==
  /\ rules.saving /\ rules.todo = {}
  /\ rules' = [rules EXCEPT !.saving = FALSE]
  /\ UNCHANGED <<view, maps, pods, form, req>>

Next ==
  \/ \E u \in Users :
       \/ Load(u) \/ Open(u) \/ Cancel(u) \/ Confirm(u) \/ Refuse(u)
       \/ ReadMap(u) \/ WriteMap(u) \/ Restart(u) \/ Answered(u)
       \/ \E value \in Values : Edit(u, value)
  \/ \E c \in Parts, value \in Values : Outside(c, value)
  \/ Sample \/ Sampled
  \/ \E r \in Rules : Delete(r) \/ Post(r) \/ Reseed(r)

Spec == Init /\ [][Next]_vars

--------------------------------------------------------------------------------
TypeOK ==
  /\ view \in {"vst", "sampling"} /\ rules.turns \in 0 .. MaxTurns
  /\ \A u \in Users : form[u].dialog \in {"closed", "open", "saving", "saved", "failed"}
  /\ \A r \in Rules : rules.live[r] \in {"old", "new", "gone", "none", "there"}

(* A component keeps what the form does not set, and no save undoes what   *)
(* was written between its read and its write: it is refused instead.      *)
MapStep ==
  \A c \in Parts :
    /\ maps'[c].own = maps[c].own
    /\ \A u \in Users : maps'[c] # maps[c] /\ req[u].step # req'[u].step => req[u].read = maps[c].version
ComponentsKeepTheirOwn == [][MapStep]_vars

(* A save that ran alone and answered leaves both copies alike, and both   *)
(* components started with them.                                           *)
SaveStep ==
  \A u \in Users : req[u].step = "answer" /\ req'[u].step = "none" /\ req[u].alone /\ form'[u].dialog = "saved" =>
    \A c \in Parts : Tuned(maps[c]) = req[u].patch /\ pods[c] = req[u].patch
SavesReachBoth == [][SaveStep]_vars

(* What was typed is not taken away by an answer that comes in.            *)
TypedStep == \A u \in Users : form[u].there /\ form'[u].local # form[u].local => form[u].dialog \in {"closed", "open"}
                                 /\ form'[u].data = form[u].data
EditsSurvive == [][TypedStep]_vars

(* A rule that was live when a sampling save began is live when it ends,   *)
(* or named in its warnings.                                               *)
LostIsNamed == rules.saving /\ rules.todo = {} => rules.began \subseteq Alive \union rules.warned

(* What a form sends is never what its route refuses, whatever is typed.   *)
FormsSendWhatRoutesTake ==
  \A f \in SamplingFields \union RtviFields \union VstFields, n \in Typed :
    Clamped(n, f.lo, f.hi, f.default) \in f.min .. f.max
    /\ (n \in f.lo .. f.hi /\ n # 0 => Clamped(n, f.lo, f.hi, f.default) = n)
    /\ (n > f.hi => Clamped(n, f.lo, f.hi, f.default) = f.hi)
CooldownNeverShortens ==
  \A cooldowns \in SUBSET {0, 30, 120} : \A c \in cooldowns, d \in SavedCooldowns(cooldowns, -1) : c <= d
================================================================================
