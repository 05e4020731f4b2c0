--------------------------- MODULE EvidenceReports ---------------------------
(***************************************************************************)
(* What is kept of an incident.  The evidence page seals its clip in a     *)
(* bucket with an object lock, lists what is sealed and proves the lock by *)
(* trying to delete (lib/evidence.ts, api/evidence, app/evidence).  The    *)
(* detail of an incident has a report written, by the model or without     *)
(* it, and stores it (lib/incident-report.ts, api/incidents/report,        *)
(* IncidentDetail.tsx).  "view" says which of the two is in use.           *)
(***************************************************************************)
EXTENDS Integers, Sequences, FiniteSets, Functions

CONSTANTS
  Incidents,   \* incidents the page knows
  Locks,       \* [Incidents -> [on, days, mode]]: what an incident's scenario asks for; mode "" says nothing
  Spoken,      \* incidents whose payload holds what the model said
  NoIncident,  \* none picked, or the dialog is closed
  MaxDays,     \* bound: days that go by
  MaxTurns,    \* bound: what the operator does
  MaxFaults    \* bound: calls that fail

VARIABLES
  view,    \* "vault" or "report"
  vault,   \* the bucket: [versions: per incident, hidden: under a delete marker, now]
  page,    \* the evidence page: [form, items, error, sealing, crossed, verdicts, promised];
           \* crossed: a clip was sealed before the first listing was shown
  dialog,  \* the detail of an incident: [open, report]
  db,      \* [Incidents -> how the stored report was written, "none" when there is none]
  wire,    \* requests in flight
  turns, faults

vars == <<view, vault, page, dialog, db, wire, turns, faults>>

--------------------------------------------------------------------------------
(* One shape of request for both views.                                    *)
Asked(op, i) ==
  [op |-> op, of |-> i, stage |-> "asked", version |-> 0, days |-> 0, mode |-> "", rows |-> {},
   force |-> FALSE, alive |-> TRUE, answer |-> "none", why |-> "", warnings |-> {}]
Sent(w)       == wire' = wire \union {w}
Becomes(w, x) == wire' = (wire \ {w}) \union {x}
Done(w)       == wire' = wire \ {w}
May           == turns < MaxTurns
Turn          == turns' = turns + 1
(* A call that fails uses up a fault.                                      *)
Fault(fails)  == /\ (fails => faults < MaxFaults)
                 /\ faults' = IF fails THEN faults + 1 ELSE faults

NoReport == [phase |-> "idle", of |-> NoIncident, written |-> "none", cached |-> FALSE, warnings |-> {}, via |-> "none"]
Init ==
  /\ view \in {"vault", "report"}
  /\ vault = [versions |-> [i \in Incidents |-> <<>>], hidden |-> {}, now |-> 0]
  /\ page = [form |-> [pick |-> NoIncident, days |-> 2, mode |-> "COMPLIANCE"], items |-> {}, error |-> "none",
             sealing |-> FALSE, crossed |-> FALSE, verdicts |-> [i \in {} |-> <<"idle", 0, "">>], promised |-> {}]
  /\ dialog = [open |-> NoIncident, report |-> NoReport]
  /\ db = [i \in Incidents |-> "none"]
  /\ wire = IF view = "vault" THEN {Asked("list", NoIncident)} ELSE {}
  /\ turns = 0 /\ faults = 0

--------------------------------------------------------------------------------
(* The evidence page.  Picking an incident takes over what its scenario    *)
(* asks for, and keeps the rest of the form.                               *)
Prefilled(form, i) ==
  [pick |-> i,
   days |-> IF Locks[i].on THEN Locks[i].days ELSE form.days,
   mode |-> IF Locks[i].on /\ Locks[i].mode # "" THEN Locks[i].mode ELSE form.mode]
Pick(i) ==
  /\ view = "vault" /\ May /\ Turn
  /\ page' = [page EXCEPT !.form = Prefilled(@, i)]
  /\ UNCHANGED <<view, vault, dialog, db, wire, faults>>
Types(days) ==
  /\ view = "vault" /\ May /\ Turn
  /\ page' = [page EXCEPT !.form.days = days]
  /\ UNCHANGED <<view, vault, dialog, db, wire, faults>>
Seal ==
  /\ view = "vault" /\ May /\ Turn
  /\ page.form.pick # NoIncident /\ ~page.sealing
  /\ page' = [page EXCEPT !.sealing = TRUE, !.error = "none",
                           !.crossed = @ \/ \E w \in wire : w.op = "list"]
  /\ Sent([Asked("seal", page.form.pick) EXCEPT !.days = page.form.days, !.mode = page.form.mode])
  /\ UNCHANGED <<view, vault, dialog, db, faults>>

(* sealClip: resolve the stream, fetch the clip, put it under a lock.      *)
(* Anything that fails before the put leaves the bucket as it is.          *)
Accepts(w) == w.days \in 1 .. 3650
Unlocked(w) == \* (variant) the put carries no retention
  [mode |-> "none", until |-> 0]
Locked(w)  == [mode |-> w.mode, until |-> vault.now + w.days]
SealPuts(w) ==
  /\ w.op = "seal" /\ w.stage = "asked" /\ Accepts(w)
  /\ vault' = [vault EXCEPT !.versions[w.of] = Append(@, Locked(w)), !.hidden = @ \ {w.of}]
  /\ Becomes(w, [w EXCEPT !.stage = "answered", !.answer = "ok", !.version = Len(vault.versions[w.of]) + 1,
                          !.days = vault.now + w.days])
  /\ UNCHANGED <<view, page, dialog, db, turns, faults>>
SealFails(w) ==
  /\ w.op = "seal" /\ w.stage = "asked"
  /\ Fault(Accepts(w))
  /\ Becomes(w, [w EXCEPT !.stage = "answered", !.answer = "error"])
  /\ UNCHANGED <<view, vault, page, dialog, db, turns>>
SealArrives(w) ==
  /\ w.op = "seal" /\ w.stage = "answered"
  /\ IF w.answer = "ok"
     THEN /\ Becomes(w, Asked("reload", w.of))
          /\ page' = [page EXCEPT !.promised = @ \union {[of |-> w.of, version |-> w.version, until |-> w.days]}]
     ELSE /\ Done(w)
          /\ page' = [page EXCEPT !.error = "seal", !.sealing = FALSE]
  /\ UNCHANGED <<view, vault, dialog, db, turns, faults>>

(* listEvidence: the newest version of every key that is not under a       *)
(* marker; one whose head fails keeps only what the listing says.          *)
Lists(op) == op \in {"list", "reload"}
Present == {i \in Incidents \ vault.hidden : \E v \in DOMAIN vault.versions[i] : vault.versions[i][v].mode # "gone"}
Newest(i) == CHOOSE v \in DOMAIN vault.versions[i] :
               /\ vault.versions[i][v].mode # "gone"
               /\ \A u \in DOMAIN vault.versions[i] : u > v => vault.versions[i][u].mode = "gone"
Row(i, headless) ==
  IF i \in headless THEN [of |-> i, version |-> 0, mode |-> "LOCKED"]
                    ELSE [of |-> i, version |-> Newest(i), mode |-> vault.versions[i][Newest(i)].mode]
ListReads(w, headless) ==
  /\ Lists(w.op) /\ w.stage = "asked" /\ headless \subseteq Present
  /\ Fault(headless # {})
  /\ Becomes(w, [w EXCEPT !.stage = "answered", !.answer = "ok", !.rows = {Row(i, headless) : i \in Present}])
  /\ UNCHANGED <<view, vault, page, dialog, db, turns>>
(* A listing that fails is answered with an empty list and the error.      *)
ListFails(w) ==
  /\ Lists(w.op) /\ w.stage = "asked"
  /\ Fault(TRUE)
  /\ Becomes(w, [w EXCEPT !.stage = "answered", !.answer = "error"])
  /\ UNCHANGED <<view, vault, page, dialog, db, turns>>
EmptyQuietly(w) == \* (variant) a failed listing is shown as an empty one
  page.error
ErrorAfter(w) == IF w.answer = "error" THEN "list" ELSE page.error
ListArrives(w) ==
  /\ Lists(w.op) /\ w.stage = "answered"
  /\ Done(w)
  /\ page' = [page EXCEPT !.items = w.rows, !.error = ErrorAfter(w), !.sealing = @ /\ w.op # "reload"]
  /\ UNCHANGED <<view, vault, dialog, db, turns, faults>>
--------------------------------------------------------------------------------
(* The proof of the lock: a delete of the version the row names, of the    *)
(* key when it names none.  The bucket answers: deleted, refused by the    *)
(* lock, forbidden (credentials), or not at all.                           *)
Verdict(i) == IF i \in DOMAIN page.verdicts THEN page.verdicts[i] ELSE <<"idle", 0, "">>
Says(i, v) == [page EXCEPT !.verdicts = [j \in DOMAIN @ \union {i} |-> IF j = i THEN v ELSE @[j]]]
Verify(row) ==
  /\ view = "vault" /\ May /\ Turn
  /\ row \in page.items /\ Verdict(row.of)[1] # "run"
  /\ page' = Says(row.of, <<"run", row.version, "">>)
  /\ Sent([Asked("verify", row.of) EXCEPT !.version = row.version])
  /\ UNCHANGED <<view, vault, dialog, db, faults>>
Held(i, v)   == vault.versions[i][v].mode \notin {"none", "gone"} /\ vault.now < vault.versions[i][v].until
Delete(w) ==
  CASE w.version = 0                           -> [vault EXCEPT !.hidden = @ \union {w.of}]
    [] w.version # 0 /\ Held(w.of, w.version) -> vault
    [] OTHER                                   -> [vault EXCEPT !.versions[w.of][w.version] = [mode |-> "gone", until |-> 0]]
AnyError(e) == \* (variant) whatever stops the delete counts as the lock
  TRUE
IsAccessDenied(e) == e \in {"lock", "forbidden"}
Outcome(e) == IF IsAccessDenied(e) THEN "immutable" ELSE "inconclusive"
VerifyTries(w) ==
  /\ w.op = "verify" /\ w.stage = "asked"
  /\ vault' = Delete(w)
  /\ Becomes(w, [w EXCEPT !.stage = "answered",
                          !.answer = IF w.version # 0 /\ Held(w.of, w.version) THEN Outcome("lock") ELSE "deleted"])
  /\ UNCHANGED <<view, page, dialog, db, turns, faults>>
(* A delete whose answer is lost may have been done.                       *)
VerifyFails(w, e) ==
  /\ w.op = "verify" /\ w.stage = "asked"
  /\ Fault(TRUE)
  /\ \/ UNCHANGED vault
     \/ e = "lost" /\ vault' = Delete(w)
  /\ Becomes(w, [w EXCEPT !.stage = "answered", !.answer = Outcome(e), !.why = e])
  /\ UNCHANGED <<view, page, dialog, db, turns>>
VerifyArrives(w) ==
  /\ w.op = "verify" /\ w.stage = "answered"
  /\ Done(w)
  /\ page' = Says(w.of, <<w.answer, w.version, w.why>>)
  /\ UNCHANGED <<view, vault, dialog, db, turns, faults>>
Day ==
  /\ view = "vault" /\ vault.now < MaxDays
  /\ vault' = [vault EXCEPT !.now = @ + 1]
  /\ UNCHANGED <<view, page, dialog, db, wire, turns, faults>>
--------------------------------------------------------------------------------
(* The detail of an incident: opening it forgets the report on show and    *)
(* asks for a stored one; an answer to an earlier opening is ignored.      *)
AnyOpening == \* (variant) the answers of earlier openings still count
  wire
Forgotten == {IF w.op = "probe" THEN [w EXCEPT !.alive = FALSE] ELSE w : w \in wire}
Open(i) ==
  /\ view = "report" /\ May /\ Turn
  /\ dialog.open = NoIncident
  /\ dialog' = [open |-> i, report |-> NoReport]
  /\ Sent([Asked("probe", i) EXCEPT !.version = turns])
  /\ UNCHANGED <<view, vault, page, db, faults>>
Close ==
  /\ view = "report" /\ dialog.open # NoIncident
  /\ dialog' = [dialog EXCEPT !.open = NoIncident]
  /\ wire' = Forgotten
  /\ UNCHANGED <<view, vault, page, db, turns, faults>>
Stored(i) == db[i]
ProbeReads(w) ==
  /\ w.op = "probe" /\ w.stage = "asked"
  /\ \E fails \in BOOLEAN :
       /\ Fault(fails)
       /\ Becomes(w, [w EXCEPT !.stage = "answered", !.answer = IF fails THEN "none" ELSE Stored(w.of)])
  /\ UNCHANGED <<view, vault, page, dialog, db, turns>>
ProbeArrives(w) ==
  /\ w.op = "probe" /\ w.stage = "answered"
  /\ Done(w)
  /\ dialog' = IF w.alive /\ w.answer # "none"
               THEN [dialog EXCEPT !.report = [phase |-> "ready", of |-> w.of, written |-> w.answer, cached |-> TRUE,
                                               warnings |-> {}, via |-> "probe"]]
               ELSE dialog
  /\ UNCHANGED <<view, vault, page, db, turns, faults>>

(* The button: after a report or an error it asks for a new one, whatever  *)
(* is stored.                                                              *)
Forces == dialog.report.phase \in {"ready", "error"}
Generate ==
  /\ view = "report" /\ May /\ Turn
  /\ dialog.open # NoIncident /\ dialog.report.phase # "loading"
  /\ dialog' = [dialog EXCEPT !.report = [NoReport EXCEPT !.phase = "loading"]]
  /\ Sent([Asked("post", dialog.open) EXCEPT !.force = Forces, !.version = turns])
  /\ UNCHANGED <<view, vault, page, db, faults>>

(* generateIncidentReport: the stored report unless a new one is asked     *)
(* for, then the model's or, when anything in that fails, the one written  *)
(* without it, and the store.  Whatever fails leaves a warning.            *)
NeverReuses(w) == \* (variant) the report is written again every time
  FALSE
Reuses(w) == ~w.force /\ Stored(w.of) # "none"
(* Nothing the model said in the payload: the report will be sparse.       *)
Sparse(i) == IF i \in Spoken THEN {} ELSE {"sparse"}
LooksUp(w) ==
  /\ w.op = "post" /\ w.stage = "asked"
  /\ \E fails \in BOOLEAN :
       /\ Fault(fails) /\ (fails => ~w.force)
       /\ Becomes(w, IF fails THEN [w EXCEPT !.stage = "writing", !.warnings = {"cache"} \union Sparse(w.of)]
                     ELSE IF Reuses(w) THEN [w EXCEPT !.stage = "answered", !.answer = Stored(w.of), !.mode = "cached"]
                     ELSE [w EXCEPT !.stage = "writing", !.warnings = Sparse(w.of)])
  /\ UNCHANGED <<view, vault, page, dialog, db, turns>>
Author(fails) == IF fails THEN "fallback" ELSE "model"
Writes(w) ==
  /\ w.op = "post" /\ w.stage = "writing"
  /\ \E fails \in BOOLEAN :
       /\ Fault(fails)
       /\ Becomes(w, [w EXCEPT !.stage = "saving", !.answer = Author(fails),
                               !.warnings = IF fails THEN @ \union {"fallback"} ELSE @])
  /\ UNCHANGED <<view, vault, page, dialog, db, turns>>
Silent(w, fails) == \* (variant) a report that cannot be stored is not said to be
  w.warnings
Warned(w, fails) == IF fails THEN w.warnings \union {"store"} ELSE w.warnings
Saves(w) ==
  /\ w.op = "post" /\ w.stage = "saving"
  /\ \E fails \in BOOLEAN :
       /\ Fault(fails)
       /\ db' = IF fails THEN db ELSE [db EXCEPT ![w.of] = w.answer]
       /\ Becomes(w, [w EXCEPT !.stage = "answered", !.warnings = Warned(w, fails)])
  /\ UNCHANGED <<view, vault, page, dialog, turns>>
(* The answer is shown in the detail that is open by then, whichever it is.*)
ReportArrives(w) ==
  /\ w.op = "post" /\ w.stage = "answered"
  /\ Done(w)
  /\ dialog' = [dialog EXCEPT !.report = [phase |-> "ready", of |-> w.of, written |-> w.answer, cached |-> w.mode = "cached",
                                          warnings |-> w.warnings, via |-> "post"]]
  /\ UNCHANGED <<view, vault, page, db, turns, faults>>
ReportIsLost(w) ==
  /\ w.op = "post"
  /\ Fault(TRUE)
  /\ Done(w)
  /\ dialog' = [dialog EXCEPT !.report = [NoReport EXCEPT !.phase = "error"]]
  /\ UNCHANGED <<view, vault, page, db, turns>>

Next ==
  \/ Seal \/ Day \/ Close \/ Generate
  \/ \E i \in Incidents : Pick(i) \/ Open(i)
  \/ \E days \in {0, 1} : Types(days)
  \/ \E row \in page.items : Verify(row)
  \/ \E w \in wire :
       \/ SealPuts(w) \/ SealFails(w) \/ SealArrives(w) \/ ListFails(w) \/ ListArrives(w)
       \/ \E headless \in SUBSET Present : ListReads(w, headless)
       \/ VerifyTries(w) \/ VerifyArrives(w) \/ \E e \in {"forbidden", "lost"} : VerifyFails(w, e)
       \/ ProbeReads(w) \/ ProbeArrives(w)
       \/ LooksUp(w) \/ Writes(w) \/ Saves(w) \/ ReportArrives(w) \/ ReportIsLost(w)

Spec == Init /\ [][Next]_vars

--------------------------------------------------------------------------------
TypeOK ==
  /\ view \in {"vault", "report"} /\ turns \in 0 .. MaxTurns /\ faults \in 0 .. MaxFaults
  /\ vault.hidden \subseteq Incidents /\ DOMAIN db = Incidents
  /\ \A i \in Incidents : db[i] \in {"none", "model", "fallback"}
  /\ page.error \in {"none", "seal", "list"}
  /\ dialog.open \in Incidents \union {NoIncident}
  /\ dialog.report.phase \in {"idle", "loading", "error", "ready"}

(* lib/evidence.ts: what the page was told is sealed until a day is in the *)
(* bucket until that day, whatever is tried on it.                         *)
SealedStays ==
  \A p \in page.promised :
    vault.now < p.until => vault.versions[p.of][p.version].mode \notin {"none", "gone"}

(* verifyImmutable: a version the page calls immutable was not deleted by  *)
(* the attempt that says so, nor one it calls deleted kept, and a delete   *)
(* whose answer was lost is neither.  Refused credentials are the exempt   *)
(* case: the code takes every 403 for the lock.                            *)
VerdictsAreEarned ==
  \A i \in DOMAIN page.verdicts :
    LET v == page.verdicts[i] IN
      v[2] # 0 => /\ v[1] = "immutable" /\ v[3] # "forbidden" => vault.versions[i][v[2]].mode # "gone"
                  /\ v[1] = "deleted" => vault.versions[i][v[2]].mode = "gone"

(* EvidencePage: unless a seal crosses the first listing, with nothing in  *)
(* flight, a page that shows nothing while something is sealed, and not    *)
(* hidden by a delete, shows an error.                                     *)
EmptyIsExplained ==
  view = "vault" /\ wire = {} /\ page.items = {} /\ ~page.crossed /\ (\A i \in Incidents : Verdict(i)[1] = "idle") =>
    Present = {} \/ page.error # "none"

(* IncidentDetail: a report of another incident than the one on show was   *)
(* asked for by hand before that one was left; a stored one that is looked *)
(* up never strays.                                                        *)
ProbesNeverStray ==
  dialog.report.phase = "ready" /\ dialog.report.of # dialog.open /\ dialog.open # NoIncident => dialog.report.via = "post"

(* incident-report.ts: a new report that is shown without a warning is the *)
(* model's, and is stored; and one written without the model says so.      *)
WarningsAreWhole ==
  dialog.report.phase = "ready" /\ ~dialog.report.cached =>
    /\ dialog.report.written = "fallback" <=> "fallback" \in dialog.report.warnings
    /\ "store" \notin dialog.report.warnings => db[dialog.report.of] # "none"

(* A stored report is replaced only by a request that insists, or that had *)
(* looked before it was stored, or could not look.                         *)
ReuseStep ==
  \A w \in wire : w.stage = "asked" /\ w.op = "post" /\ ~w.force /\ db[w.of] # "none" /\ faults' = faults =>
    \A x \in wire' \ wire : x.op = "post" /\ x.version = w.version => x.stage = "answered"
StoredIsReused == [][ReuseStep]_vars
================================================================================
