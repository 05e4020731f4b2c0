---------------------------- MODULE StoreTransfer ----------------------------
(***************************************************************************)
(* The two backends of the config store and what goes between them: which  *)
(* one a pod uses (lib/config-store/index.ts), the Firestore one, whose    *)
(* replacements are not atomic (firestore.ts), the copy of an instance     *)
(* from Firestore into the file (api/config-store/migrate), and the saved  *)
(* copy that fills the lists of an emptied file (export, restore,          *)
(* fill.ts).  FileStore has the lock under which a file changes: here a    *)
(* change of the file is one step.                                         *)
(***************************************************************************)
EXTENDS Integers, FiniteSets

CONSTANTS
  Names,      \* ids an entry may have
  Projects,   \* subset of BOOLEAN: whether the deployment names a project
  MaxTurns,   \* bound: what operators and deployments do
  MaxFaults   \* bound: reads and writes that fail

VARIABLES
  view,     \* what goes on beside the edits: "replace", "migrate", "copy", or "about" for the page alone
  config,   \* the settings of the deployment: [store, project]
  pod,      \* the settings the running pod was started with
  cloud,    \* the document of the instance in Firestore
  file,     \* the document of the instance in the file
  wrote,    \* the store the last edit went to while none was set, or the build before; "none" at first
  writers,  \* replacements of the scenarios that Firestore has in hand
  job,      \* the copy into the file: [step, force, src, todo, answer, touched]
  reading,  \* an export being read: [got, lists, active, empty]
  copy,     \* the saved copy, or Unsaved
  health,   \* what /about shows: [kind, status]
  turns, faults

vars == <<view, config, pod, cloud, file, wrote, writers, job, reading, copy, health, turns, faults>>

--------------------------------------------------------------------------------
Lists   == {"cameras", "scenarios", "promptSets"}
Nothing == [l \in Lists |-> {}]
(* A document: the lists, the active prompt set ("" for none) and whether  *)
(* a prompt of the time before prompt sets is there.                       *)
Doc(lists, active, legacy) == [lists |-> lists, active |-> active, legacy |-> legacy]
Empty   == Doc(Nothing, "", FALSE)
NoJob   == [step |-> "none", force |-> FALSE, src |-> Empty, todo |-> {}, answer |-> "none", touched |-> FALSE]
NoRead  == [on |-> FALSE, lists |-> Nothing, got |-> {}, active |-> "", empty |-> {}]
Unsaved == [saved |-> FALSE, lists |-> Nothing, active |-> "", empty |-> {}]

FlatDefault(e) == \* (variant) the file, whenever nothing is set
  IF e.store = "" THEN "file" ELSE IF e.store = "bad" THEN "none" ELSE e.store
Kind(e) ==
  CASE e.store = "bad"            -> "none"
    [] e.store \notin {"bad", ""} -> e.store
    [] OTHER                      -> IF e.project THEN "firestore" ELSE "file"
(* Firestore opens when a project is named and the SDK is in the build.    *)
Opens(e) == Kind(e) = "file" \/ (Kind(e) = "firestore" /\ e.project)
Current  == IF Kind(pod) = "firestore" THEN cloud ELSE file

Init ==
  /\ view \in {"replace", "migrate", "copy", "about"}
  /\ \E p \in Projects : config = [store |-> "", project |-> p]
  /\ pod = config
  /\ \E x \in Names :
       cloud = IF config.project
               THEN Doc([l \in Lists |-> {x}], IF x = "a" THEN x ELSE "", x # "a")
               ELSE Empty
  /\ file = Empty
  /\ wrote = IF config.project THEN "firestore" ELSE "none"
  /\ writers = {} /\ job = NoJob /\ reading = NoRead /\ copy = Unsaved
  /\ health = [kind |-> "none", status |-> "none"]
  /\ turns = 0 /\ faults = 0

May  == turns < MaxTurns
Turn == turns' = turns + 1
Fault(fails) == /\ (fails => faults < MaxFaults)
                /\ faults' = IF fails THEN faults + 1 ELSE faults

--------------------------------------------------------------------------------
(* A setting takes hold when the pod restarts, which ends what it was at.  *)
SetStore(s) ==
  /\ May /\ Turn
  /\ s # config.store
  /\ config' = [config EXCEPT !.store = s]
  /\ UNCHANGED <<view, pod, cloud, file, wrote, writers, job, reading, copy, health, faults>>
Restart ==
  /\ May /\ Turn
  /\ pod' = config
  /\ writers' = {} /\ job' = NoJob /\ reading' = NoRead
  /\ health' = [kind |-> "none", status |-> "none"]
  /\ UNCHANGED <<view, config, cloud, file, wrote, copy, faults>>

(* An edit of one entry: one write of a document, or of the file.          *)
Wrote(kind) == wrote' = IF pod.store = "" THEN kind ELSE wrote
Put(doc) ==
  /\ Opens(pod)
  /\ IF Kind(pod) = "firestore" THEN cloud' = doc /\ UNCHANGED file ELSE file' = doc /\ UNCHANGED cloud
  /\ Wrote(Kind(pod))
  /\ job' = [job EXCEPT !.touched = @ \/ Kind(pod) = "file"]
Edit(list, n) ==
  /\ view # "about" /\ May /\ Turn
  /\ list # "scenarios"
  /\ \/ n \notin Current.lists[list] /\ Put([Current EXCEPT !.lists[list] = @ \union {n}])
     \/ /\ n \in Current.lists[list] /\ (list = "promptSets" => n # Current.active)
        /\ Put([Current EXCEPT !.lists[list] = @ \ {n}])
  /\ UNCHANGED <<view, config, pod, writers, reading, copy, health, faults>>
Activate(n) ==
  /\ view # "about" /\ May /\ Turn
  /\ n \in Current.lists["promptSets"] /\ n # Current.active
  /\ Put([Current EXCEPT !.active = n])
  /\ UNCHANGED <<view, config, pod, writers, reading, copy, health, faults>>

(* The scenarios are saved whole.  The file takes them at once; Firestore  *)
(* reads what is there, deletes what is not wanted, then sets each one.    *)
Save(want) ==
  /\ view = "replace" /\ May /\ Turn
  /\ want # {} /\ Opens(pod)
  /\ IF Kind(pod) = "file"
     THEN Put([file EXCEPT !.lists["scenarios"] = want]) /\ UNCHANGED writers
     ELSE /\ writers' = {[w EXCEPT !.alone = FALSE] : w \in writers}
                        \union {[want |-> want, step |-> "read", drop |-> {}, put |-> want, alone |-> writers = {}, n |-> turns]}
          /\ UNCHANGED <<cloud, file, wrote, job>>
  /\ UNCHANGED <<view, config, pod, reading, copy, health, faults>>
KeepsAll(w) == \* (variant) what is not wanted stays
  {}
Unwanted(w) == cloud.lists["scenarios"] \ w.want
ReadsExisting(w) ==
  /\ w.step = "read"
  /\ writers' = (writers \ {w}) \union {[w EXCEPT !.step = "write", !.drop = Unwanted(w)]}
  /\ UNCHANGED <<view, config, pod, cloud, file, wrote, job, reading, copy, health, turns, faults>>
WritesOne(w) ==
  /\ w.step = "write"
  /\ \/ \E n \in w.drop :
          /\ cloud' = [cloud EXCEPT !.lists["scenarios"] = @ \ {n}]
          /\ writers' = (writers \ {w}) \union {[w EXCEPT !.drop = @ \ {n}]}
     \/ \E n \in w.put :
          /\ w.drop = {}
          /\ cloud' = [cloud EXCEPT !.lists["scenarios"] = @ \union {n}]
          /\ writers' = (writers \ {w}) \union {[w EXCEPT !.put = @ \ {n}, !.step = IF w.put = {n} THEN "done" ELSE "write"]}
  /\ Wrote("firestore")
  /\ UNCHANGED <<view, config, pod, file, job, reading, copy, health, turns, faults>>
Answered(w) ==
  /\ w.step = "done"
  /\ writers' = writers \ {w}
  /\ UNCHANGED <<view, config, pod, cloud, file, wrote, job, reading, copy, health, turns, faults>>
--------------------------------------------------------------------------------
(* Migration: reads Firestore itself, whichever store is in use, then the  *)
(* file; refuses a file that holds something; writes part by part; reads   *)
(* back and compares how many entries there are.                           *)
Migrate(force) ==
  /\ view = "migrate" /\ May /\ Turn
  /\ job.step = "none" /\ pod.project
  /\ \E fails \in BOOLEAN :
       /\ Fault(fails)
       /\ job' = IF fails THEN [NoJob EXCEPT !.step = "done", !.answer = "unread"]
                 ELSE [NoJob EXCEPT !.step = "look", !.force = force,
                                    !.src = [cloud EXCEPT !.legacy = @ /\ cloud.active = ""]]
  /\ UNCHANGED <<view, config, pod, cloud, file, wrote, writers, reading, copy, health>>
HasData == \E l \in Lists : file.lists[l] # {}
Parts(src) ==
  {<<"cameras", "">>, <<"scenarios", "">>} \union {<<"promptSets", n>> : n \in src.lists["promptSets"]}
  \union (IF src.legacy THEN {<<"prompt", "">>} ELSE {}) \union (IF src.active # "" THEN {<<"zactive", src.active>>} ELSE {})
Look(apply) ==
  /\ job.step = "look"
  /\ job' = IF HasData /\ ~job.force THEN [job EXCEPT !.step = "done", !.answer = "refused"]
            ELSE IF ~apply THEN [job EXCEPT !.step = "done", !.answer = "dry run"]
            ELSE [job EXCEPT !.step = "write", !.todo = Parts(job.src), !.touched = FALSE]
  /\ UNCHANGED <<view, config, pod, cloud, file, wrote, writers, reading, copy, health, turns, faults>>
(* The parts go in order: cameras, scenarios, sets, prompt, active.        *)
Order    == <<"cameras", "scenarios", "promptSets", "prompt", "zactive">>
Place(p) == CHOOSE i \in DOMAIN Order : Order[i] = p[1]
With(p) ==
  CASE p[1] \in {"cameras", "scenarios"} -> [file EXCEPT !.lists[p[1]] = job.src.lists[p[1]]]
    [] p[1] = "promptSets"               -> [file EXCEPT !.lists["promptSets"] = @ \union {p[2]}]
    [] p[1] = "prompt"                   -> [file EXCEPT !.legacy = TRUE]
    [] OTHER                             -> [file EXCEPT !.active = p[2]]
WritesPart ==
  /\ job.step = "write" /\ job.todo # {}
  /\ \E p \in job.todo :
       /\ \A q \in job.todo : Place(p) <= Place(q)
       /\ \E fails \in BOOLEAN :
            /\ Fault(fails)
            /\ file' = IF fails THEN file ELSE With(p)
            /\ job' = IF fails THEN [job EXCEPT !.step = "done", !.answer = "failed"]
                               ELSE [job EXCEPT !.todo = @ \ {p}]
  /\ UNCHANGED <<view, config, pod, cloud, wrote, writers, reading, copy, health, turns>>
TakesItsWord(src) == \* (variant) what was written is not read back
  TRUE
ReadsBack(src) == \A l \in Lists : Cardinality(file.lists[l]) = Cardinality(src.lists[l])
Verifies ==
  /\ job.step = "write" /\ job.todo = {}
  /\ job' = [job EXCEPT !.step = "done", !.answer = IF ReadsBack(job.src) THEN "verified" ELSE "differs"]
  /\ UNCHANGED <<view, config, pod, cloud, file, wrote, writers, reading, copy, health, turns, faults>>
MigrateEnds ==
  /\ job.step = "done"
  /\ job' = NoJob
  /\ UNCHANGED <<view, config, pod, cloud, file, wrote, writers, reading, copy, health, turns, faults>>

--------------------------------------------------------------------------------
(* Export: the four reads go together and are not one.  A read that fails  *)
(* fails the export.                                                       *)
Export ==
  /\ view = "copy"
  /\ ~reading.on /\ ~copy.saved /\ Opens(pod)
  /\ reading' = [NoRead EXCEPT !.on = TRUE]
  /\ UNCHANGED <<view, config, pod, cloud, file, wrote, writers, job, copy, health, turns, faults>>
ReadsList(l) ==
  /\ reading.on /\ l \in Lists \ reading.got
  /\ reading' = [reading EXCEPT !.got = @ \union {l}, !.lists[l] = Current.lists[l],
                                !.empty = IF Current.lists[l] = {} THEN @ \union {l} ELSE @]
  /\ UNCHANGED <<view, config, pod, cloud, file, wrote, writers, job, copy, health, turns, faults>>
ReadsActive ==
  /\ reading.on /\ "active" \notin reading.got
  /\ reading' = [reading EXCEPT !.got = @ \union {"active"}, !.active = Current.active]
  /\ UNCHANGED <<view, config, pod, cloud, file, wrote, writers, job, copy, health, turns, faults>>
AnswersEmpty(l) == \* (variant) a list that cannot be read is given as empty
  [reading EXCEPT !.got = @ \union {l}]
Unreadable(l) == NoRead
ReadFails(l) ==
  /\ reading.on /\ l \in Lists \ reading.got
  /\ Fault(TRUE)
  /\ reading' = Unreadable(l)
  /\ UNCHANGED <<view, config, pod, cloud, file, wrote, writers, job, copy, health, turns>>
Exported ==
  /\ reading.on /\ reading.got = Lists \union {"active"}
  /\ copy' = [saved |-> TRUE, lists |-> reading.lists, active |-> reading.active, empty |-> reading.empty]
  /\ reading' = NoRead
  /\ UNCHANGED <<view, config, pod, cloud, file, wrote, writers, job, health, turns, faults>>

(* planFill: each empty list the copy has entries for becomes the copy's;  *)
(* the active set only with the prompt sets that hold it.  The file only.  *)
OverAll(doc, src) == \* (variant) whatever the copy has entries for
  {l \in Lists : src.lists[l] # {}}
Fillable(doc, src) == {l \in Lists : src.lists[l] # {} /\ doc.lists[l] = {}}
FilledActive(doc, src) ==
  IF "promptSets" \in Fillable(doc, src) /\ doc.active = "" /\ src.active \in src.lists["promptSets"]
  THEN src.active ELSE doc.active
FilledFrom(doc, src) ==
  [doc EXCEPT !.lists = [l \in Lists |-> IF l \in Fillable(doc, src) THEN src.lists[l] ELSE doc.lists[l]],
              !.active = FilledActive(doc, src)]
Restore ==
  /\ view = "copy" /\ May /\ Turn
  /\ copy.saved /\ Kind(pod) = "file" /\ Fillable(file, copy) # {}
  /\ file' = FilledFrom(file, copy)
  /\ job' = [job EXCEPT !.touched = TRUE]
  /\ UNCHANGED <<view, config, pod, cloud, wrote, writers, reading, copy, health, faults>>
(* The store the box comes back to may have been emptied.                  *)
Emptied ==
  /\ view = "copy" /\ May /\ Turn
  /\ file.lists # Nothing
  /\ file' = [file EXCEPT !.lists["cameras"] = {}, !.lists["scenarios"] = {}]
  /\ job' = [job EXCEPT !.touched = TRUE]
  /\ UNCHANGED <<view, config, pod, cloud, wrote, writers, reading, copy, health, faults>>

(* /about: the health of the store this process uses.                      *)
FirestoreProbed(fails) == IF ~pod.project THEN "unconfigured" ELSE IF fails THEN "error" ELSE "ok"
FileProbed(fails)      == IF fails THEN "error" ELSE "ok"
Probed(fails) ==
  CASE Kind(pod) = "none"      -> "error"
    [] Kind(pod) = "firestore" -> FirestoreProbed(fails)
    [] OTHER                   -> FileProbed(fails)
About ==
  /\ view = "about"
  /\ \E fails \in BOOLEAN :
       /\ Fault(fails)
       /\ health' = [kind |-> IF Kind(pod) = "none" THEN "file" ELSE Kind(pod), status |-> Probed(fails)]
  /\ UNCHANGED <<view, config, pod, cloud, file, wrote, writers, job, reading, copy, turns>>

Next ==
  \/ Restart \/ WritesPart \/ Verifies \/ MigrateEnds \/ Export \/ ReadsActive \/ Exported \/ Restore \/ Emptied \/ About
  \/ \E s \in {"", "file", "firestore", "bad"} : SetStore(s)
  \/ \E n \in Names : Activate(n) \/ \E l \in Lists : Edit(l, n)
  \/ \E want \in SUBSET Names : Save(want)
  \/ \E w \in writers : ReadsExisting(w) \/ WritesOne(w) \/ Answered(w)
  \/ \E b \in BOOLEAN : Migrate(b) \/ Look(b)
  \/ \E l \in Lists : ReadsList(l) \/ ReadFails(l)

Spec == Init /\ [][Next]_vars

--------------------------------------------------------------------------------
TypeOK ==
  /\ view \in {"replace", "migrate", "copy", "about"} /\ config.store \in {"", "file", "firestore", "bad"} /\ turns \in 0 .. MaxTurns /\ faults \in 0 .. MaxFaults
  /\ \A d \in {cloud, file} : \A l \in Lists : d.lists[l] \subseteq Names
  /\ job.step \in {"none", "look", "write", "done"} /\ (job.todo # {} => job.step \in {"write", "done"})
  /\ reading.got \subseteq Lists \union {"active"}
  /\ health.status \in {"none", "ok", "unconfigured", "error"}

(* configStoreKind: where the deployment sets no store, every pod uses the *)
(* one that holds what was entered before in the same way.                 *)
UpgradesKeepTheStore == pod.store = "" /\ wrote # "none" => wrote = Kind(pod)

(* migrate: an answer "verified" means the lists of the file are the ones  *)
(* that were read, unless the file was edited while it was written.        *)
VerifiedMeansCopied == job.answer = "verified" /\ ~job.touched => file.lists = job.src.lists

(* export: an empty list in a copy was empty in the store, never unread.   *)
EmptyCopyWasEmpty == copy.saved => \A l \in Lists : copy.lists[l] = {} => l \in copy.empty

(* firestore.ts: a replacement that met no other ends with what it wanted. *)
ReplacesWhole == \A w \in writers : w.step = "done" /\ w.alone => cloud.lists["scenarios"] = w.want

(* fill.ts: a restore takes nothing from a list that holds something, and  *)
(* an active set it brings is one of the sets.                             *)
FillStep ==
  Restore =>
    /\ \A l \in Lists : file.lists[l] # {} => file'.lists[l] = file.lists[l]
    /\ file'.active # file.active => file'.active \in file'.lists["promptSets"]
FillsOnlyEmpty == [][FillStep]_vars
================================================================================
