----------------------------- MODULE ErrorBridge -----------------------------
(***************************************************************************)
(* The error bridge (lib/error-bridge.ts) reports failures of services it  *)
(* cannot instrument: messages on the pipelines' error topics, restarts of *)
(* containers and containers that wait in a crash loop.  Pods are listed   *)
(* namespace by namespace, every 45 s; whatever was reported within the    *)
(* last minute under the same key is not reported again, and pods of one   *)
(* Deployment have one key.                                                *)
(*                                                                         *)
(* A container is its namespace, its pod, the pod's name without what was  *)
(* generated, and its own name.  A pod whose name has nothing generated,   *)
(* as those of a StatefulSet, may be made anew under it.  A tick is taken  *)
(* to end before the next.                                                 *)
(***************************************************************************)
EXTENDS Integers, Sequences

CONSTANTS
  Containers,  \* records [ns, pod, base, name]
  Namespaces,  \* watchedNamespaces, in order
  Errors,      \* signatures of messages on the error topics
  Window,      \* DEDUPE_WINDOW_MS, in ticks
  Interval,    \* POD_POLL_INTERVAL_MS, in ticks
  MaxRestarts, \* bound: restarts of a container
  MaxEvents    \* bound: what befalls the cluster, and listings that fail

VARIABLES
  started, \* __errorBridgeStarted
  box,     \* container -> [restarts, waits]
  seen,    \* lastRestartCounts: container -> count, -1 for none
  last,    \* the dedupe maps: key -> age, for the keys there are
  poll,    \* [at: namespace being listed, 0 for none, since: ticks since the tick began]
  past     \* no state of the code: [told: report -> its age, -1 for none; now: reports
           \*  of the last step; owed: containers that restarted after they were listed;
           \*  known: containers listed since they were made; events]

vars == <<started, box, seen, last, poll, past>>

--------------------------------------------------------------------------------
(* A report is what it is about; its key is what the dedupe maps go by     *)
(* (podBaseName, captureContainerCrash, handleKafkaMessage).               *)
Report(c, kind) == [kind |-> kind, ns |-> c.ns, base |-> c.base, name |-> c.name]
OfTopic(e)      == [kind |-> "error", ns |-> "none", base |-> e, name |-> "none"]
Reports == {Report(c, k) : c \in Containers, k \in {"restart", "waits"}}
           \union {OfTopic(e) : e \in Errors}

KeyWithoutNamespace(r) == \* (variant) equal names in two namespaces are one
  [r EXCEPT !.ns = "none"]
Key(r) == r

(* DedupeWindow: an entry older than the window counts for nothing; the    *)
(* pods' map is swept of those after each tick, the topics' map never.     *)
NeverSuppressed(r) == \* (variant) the window is not looked at
  FALSE
ShouldSuppress(r) == Key(r) \in DOMAIN last /\ last[Key(r)] < Window
MaxAge == Window + 2 * Interval
Older(age, by) == IF age = -1 THEN -1 ELSE IF age + by > MaxAge THEN MaxAge ELSE age + by

Captured(reports) ==
  LET fresh == {r \in reports : ~ShouldSuppress(r)}
      keys  == {Key(r) : r \in fresh}
  IN [now  |-> fresh,
      map  |-> [k \in DOMAIN last \union keys |-> IF k \in keys THEN 0 ELSE last[k]],
      told |-> [r \in Reports |-> IF r \in fresh THEN 0 ELSE past.told[r]]]

SweepNothing(map) == \* (variant) entries stay for ever
  map
Sweep(map) == [k \in {k \in DOMAIN map : k.kind = "error" \/ map[k] < Window} |-> map[k]]

--------------------------------------------------------------------------------
Init ==
  /\ started = FALSE
  /\ box  = [c \in Containers |-> [restarts |-> 0, waits |-> FALSE]]
  /\ seen = [c \in Containers |-> -1]
  /\ last = [k \in {} |-> 0]
  /\ poll = [at |-> 0, since |-> 0]
  /\ past = [told |-> [r \in Reports |-> -1], now |-> {}, owed |-> {}, known |-> {}, events |-> 0]

Event == past.events < MaxEvents
Past(changes) == past' = [changes EXCEPT !.events = @ + 1, !.now = {}]

(* The cluster: a container restarts, waits in its crash loop or leaves    *)
(* it; its pod is made anew.                                               *)
Restart(c) ==
  /\ Event /\ box[c].restarts < MaxRestarts
  /\ box' = [box EXCEPT ![c].restarts = @ + 1]
  /\ Past([past EXCEPT !.owed = @ \union ({c} \intersect past.known)])
  /\ UNCHANGED <<started, seen, last, poll>>
Loop(c) ==
  /\ Event
  /\ box' = [box EXCEPT ![c].waits = ~@]
  /\ Past(past)
  /\ UNCHANGED <<started, seen, last, poll>>
Recreate(c) ==
  /\ Event /\ c.pod = c.base
  /\ box' = [box EXCEPT ![c] = [restarts |-> 0, waits |-> FALSE]]
  /\ Past([past EXCEPT !.owed = @ \ {c}, !.known = @ \ {c}])
  /\ UNCHANGED <<started, seen, last, poll>>

Message(e) ==
  /\ started /\ Event
  /\ LET out == Captured({OfTopic(e)})
     IN /\ last' = out.map
        /\ past' = [past EXCEPT !.told = out.told, !.now = out.now, !.events = @ + 1]
  /\ UNCHANGED <<started, box, seen, poll>>

(* startErrorBridge: the first tick is awaited, the others come of the     *)
(* interval.                                                               *)
Start ==
  /\ ~started
  /\ started' = TRUE
  /\ poll' = [at |-> 1, since |-> 0]
  /\ past' = [past EXCEPT !.now = {}]
  /\ UNCHANGED <<box, seen, last>>
Fire ==
  /\ started /\ poll.at = 0 /\ poll.since = Interval
  /\ poll' = [at |-> 1, since |-> 0]
  /\ past' = [past EXCEPT !.now = {}]
  /\ UNCHANGED <<started, box, seen, last>>
Time ==
  /\ started /\ poll.since < Interval
  /\ poll' = [poll EXCEPT !.since = @ + 1]
  /\ last' = [k \in DOMAIN last |-> Older(last[k], 1)]
  /\ past' = [past EXCEPT !.told = [r \in Reports |-> Older(@[r], 1)], !.now = {}]
  /\ UNCHANGED <<started, box, seen>>

(* pollNamespaceOnce; the tick ends with the last namespace.               *)
Here == {c \in Containers : c.ns = Namespaces[poll.at]}
OffByOne(c) == \* (variant) the first restart is taken for the baseline
  seen[c] # -1 /\ box[c].restarts > seen[c] + 1
Restarted(c) == seen[c] # -1 /\ box[c].restarts > seen[c]

Following == IF poll.at = Len(Namespaces) THEN 0 ELSE poll.at + 1
List ==
  /\ poll.at # 0
  /\ LET out == Captured({Report(c, "restart") : c \in {c \in Here : Restarted(c)}}
                         \union {Report(c, "waits") : c \in {c \in Here : box[c].waits}})
     IN /\ last' = IF Following = 0 THEN Sweep(out.map) ELSE out.map
        /\ past' = [past EXCEPT !.told = out.told, !.now = out.now,
                                !.owed = @ \ Here, !.known = @ \union Here]
  /\ seen' = [c \in Containers |-> IF c \in Here THEN box[c].restarts ELSE seen[c]]
  /\ poll' = [poll EXCEPT !.at = Following]
  /\ UNCHANGED <<started, box>>
ListFails ==
  /\ poll.at # 0 /\ Event
  /\ last' = IF Following = 0 THEN Sweep(last) ELSE last
  /\ poll' = [poll EXCEPT !.at = Following]
  /\ Past(past)
  /\ UNCHANGED <<started, box, seen>>

Next ==
  \/ \E c \in Containers : Restart(c) \/ Loop(c) \/ Recreate(c)
  \/ \E e \in Errors : Message(e)
  \/ Start \/ Fire \/ Time \/ List \/ ListFails
Spec == Init /\ [][Next]_vars

--------------------------------------------------------------------------------
Recent(age) == age \in 0 .. Window - 1

TypeOK ==
  /\ started \in BOOLEAN
  /\ \A c \in Containers : box[c].restarts \in 0 .. MaxRestarts /\ seen[c] \in -1 .. MaxRestarts
  /\ DOMAIN last \subseteq {Key(r) : r \in Reports}
  /\ poll.at \in 0 .. Len(Namespaces) /\ poll.since \in 0 .. Interval

(* The pods' map holds no more than what was reported within a window and  *)
(* two intervals (sweep), however long the console runs.                   *)
MapIsSwept ==
  \A k \in DOMAIN last : k.kind # "error" => last[k] < MaxAge

(* A crash looping service is reported once per window, not in a storm:    *)
(* nothing is reported while a report of the same is younger than that.    *)
SpacedStep == \A r \in past'.now : ~Recent(past.told[r])
Spaced == [][SpacedStep]_vars

(* A container that restarted after it was listed, or waits in a crash     *)
(* loop, has a report younger than a window once its namespace is listed:  *)
(* no failed listing, no earlier restart and no other pod's report hides   *)
(* it (pollNamespaceOnce).                                                 *)
ToldStep ==
  poll.at # 0 /\ poll'.at # poll.at /\ past'.events = past.events =>
    \A c \in Here : /\ c \in past.owed => Recent(past'.told[Report(c, "restart")])
                    /\ box[c].waits => Recent(past'.told[Report(c, "waits")])
FailuresTold == [][ToldStep]_vars
================================================================================
