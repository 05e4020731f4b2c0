---------------------------- MODULE StorageStats ----------------------------
(***************************************************************************)
(* What the console knows of a bucket: aws.ts walks it page by page,       *)
(* storage-substrate.ts keeps the totals and lists the bucket again in the *)
(* background, and the /storage page and the VST panel show them.          *)
(*                                                                         *)
(* A bucket is its set of keys; a page holds one, and the recordings grow  *)
(* and expire while they are walked.  "drift" counts the changes of a      *)
(* bucket since the walk of its totals began: it is no state of the code.  *)
(***************************************************************************)
EXTENDS Integers, Sequences, FiniteSets, FiniteSetsExt

CONSTANTS
  Buckets,    \* the buckets of the substrate
  Recordings, \* the one the VST panel counts
  Keys,       \* the keys, in listing order
  Contents,   \* what the buckets may hold at first: functions to sets of keys
  PageLimit,  \* BUCKET_SCAN_PAGE_LIMIT
  FreshFor,   \* FRESH_MS, in ticks
  Backoff,    \* FAILED_BACKOFF_MS, in ticks
  MaxChanges  \* bound: puts, expiries and outages

VARIABLES
  store,  \* [keys, dark: buckets that cannot be listed, changes]
  cache,  \* bucket -> [there, count, cut, drift, age, failed: ticks since a scan failed]
  walk,   \* bucket -> inflight: [on, pos, count, pages, drift]
  page,   \* the /storage page: [asking, shown, refreshing, missing, base]
  panel   \* the VST panel: [state, count]

vars == <<store, cache, walk, page, panel>>

--------------------------------------------------------------------------------
Idle   == [on |-> FALSE, pos |-> 0, count |-> 0, pages |-> 0, drift |-> 0]
Start  == [Idle EXCEPT !.on = TRUE]
NoStats == [there |-> FALSE, count |-> 0, cut |-> FALSE, drift |-> 0, age |-> 0, failed |-> Backoff]
After(b, pos) == {k \in store.keys[b] : k > pos}

(* statsSWR: a total is served whatever its age and listed again once it   *)
(* is not fresh; a bucket without one is listed unless that failed lately. *)
EagerRetry(b) == \* (variant) a failure is not remembered
  IF cache[b].there THEN cache[b].age >= FreshFor ELSE TRUE
Due(b) == IF cache[b].there THEN cache[b].age >= FreshFor ELSE cache[b].failed >= Backoff
Refreshing(b) == Due(b)

(* refreshBucket: a scan that is running is joined.                        *)
Refresh(due) == [b \in Buckets |-> IF b \in due /\ ~walk[b].on THEN Start ELSE walk[b]]
DueBuckets == {b \in Buckets : Due(b)}

(* bucketTotalsState.                                                      *)
ZeroIsComplete(b) == \* (variant) what is not counted yet is zero
  IF cache[b].there /\ cache[b].cut THEN "truncated" ELSE "complete"
TotalsState(b) ==
  IF cache[b].there THEN (IF cache[b].cut THEN "truncated" ELSE "complete")
  ELSE IF Refreshing(b) THEN "pending" ELSE "unavailable"

--------------------------------------------------------------------------------
Init ==
  /\ store \in [keys : Contents, dark : {{}}, changes : {0}]
  /\ cache = [b \in Buckets |-> NoStats]
  /\ walk  = [b \in Buckets |-> Idle]
  /\ page  = [asking |-> FALSE, shown |-> -1, refreshing |-> FALSE, missing |-> Buckets, base |-> -1]
  /\ panel = [state |-> "loading", count |-> 0]

(* The world: an object is written or expires, a bucket goes or comes.     *)
Drifts(b) ==
  /\ cache' = [cache EXCEPT ![b].drift = IF cache[b].there THEN @ + 1 ELSE @]
  /\ walk'  = [walk EXCEPT ![b].drift = IF walk[b].on THEN @ + 1 ELSE @]
Change(b, k) ==
  /\ store.changes < MaxChanges
  /\ store' = [store EXCEPT !.changes = @ + 1,
                            !.keys[b] = IF k \in @ THEN @ \ {k} ELSE @ \union {k}]
  /\ Drifts(b)
  /\ UNCHANGED <<page, panel>>
Outage(b) ==
  /\ store.changes < MaxChanges
  /\ store' = [store EXCEPT !.changes = @ + 1,
                            !.dark = IF b \in @ THEN @ \ {b} ELSE @ \union {b}]
  /\ UNCHANGED <<cache, walk, page, panel>>
Tick ==
  /\ cache' = [b \in Buckets |-> [cache[b] EXCEPT !.age = IF cache[b].there /\ @ < FreshFor THEN @ + 1 ELSE @,
                                                 !.failed = IF @ < Backoff THEN @ + 1 ELSE @]]
  /\ UNCHANGED <<store, walk, page, panel>>

(* s3SubstrateStats lists one page; the walk ends with the bucket, or at   *)
(* the limit with keys left to list.                                       *)
CutAtLimit(b, rest, pages) == \* (variant) a bucket that ends on the last page allowed is cut
  pages >= PageLimit
Cut(b, rest, pages) == rest # {} /\ pages >= PageLimit
ScanPage(b) ==
  /\ walk[b].on /\ b \notin store.dark
  /\ LET next  == After(b, walk[b].pos)
         key   == IF next = {} THEN walk[b].pos ELSE CHOOSE k \in next : \A j \in next : k <= j
         count == IF next = {} THEN walk[b].count ELSE walk[b].count + 1
         rest  == After(b, key)
         pages == walk[b].pages + 1
         cut   == Cut(b, rest, pages)
     IN IF rest # {} /\ ~cut
        THEN /\ walk' = [walk EXCEPT ![b] = [walk[b] EXCEPT !.pos = key, !.count = count, !.pages = pages]]
             /\ UNCHANGED cache
        ELSE /\ walk' = [walk EXCEPT ![b] = Idle]
             /\ cache' = [cache EXCEPT ![b] = [there |-> TRUE, count |-> count, cut |-> cut,
                                               drift |-> walk[b].drift, age |-> 0, failed |-> Backoff]]
  /\ UNCHANGED <<store, page, panel>>
ScanFails(b) ==
  /\ walk[b].on /\ b \in store.dark
  /\ walk' = [walk EXCEPT ![b] = Idle]
  /\ cache' = [cache EXCEPT ![b].failed = 0]
  /\ UNCHANGED <<store, page, panel>>

(* collectStorageSubstrate.  With nothing cached it lists every bucket,    *)
(* whatever failed, and waits a moment for the scans; then, or at once, it *)
(* answers with what there is.                                             *)
Cold == \A b \in Buckets : ~cache[b].there
PollCold ==
  /\ Cold /\ ~page.asking
  /\ walk' = Refresh(Buckets)
  /\ page' = [page EXCEPT !.asking = TRUE]
  /\ UNCHANGED <<store, cache, panel>>

(* The page counts growth from the first settled total there is.           *)
AnyBase(total, refreshing) == \* (variant) whatever comes first
  IF page.base = -1 THEN total ELSE page.base
Base(total, refreshing) ==
  IF page.base = -1 /\ ~refreshing /\ total > 0 THEN total ELSE page.base
Total == FoldSet(LAMBDA b, n : n + cache[b].count, 0, Buckets)
Answer ==
  /\ page.asking \/ ~Cold
  /\ page' = [asking |-> FALSE, shown |-> Total, refreshing |-> DueBuckets # {},
              missing |-> {b \in Buckets : ~cache[b].there}, base |-> Base(Total, DueBuckets # {})]
  /\ walk' = Refresh(DueBuckets)
  /\ UNCHANGED <<store, cache, panel>>

(* /api/storage/vst, and the overview: bucketStatsSettled waits for a cold *)
(* scan for a moment, which is a read before and a read after.             *)
ReadBucket(b) ==
  /\ walk' = IF Due(b) THEN Refresh({b}) ELSE walk
  /\ panel' = IF b = Recordings THEN [state |-> TotalsState(b), count |-> cache[b].count] ELSE panel
  /\ UNCHANGED <<store, cache, page>>

Next ==
  \/ \E b \in Buckets : \/ \E k \in Keys : Change(b, k)
                        \/ Outage(b) \/ ScanPage(b) \/ ScanFails(b) \/ ReadBucket(b)
  \/ Tick \/ PollCold \/ Answer

Fairness == \A b \in Buckets : WF_vars(ScanPage(b) \/ ScanFails(b))
Spec     == Init /\ [][Next]_vars
FairSpec == Spec /\ Fairness

--------------------------------------------------------------------------------
(* StoragePage: a card for every bucket that could be listed, and "live"   *)
(* unless a scan is due; the next poll is soon until then.                 *)
Cards == Buckets \ page.missing
Live  == page.shown # -1 /\ ~page.refreshing

TypeOK ==
  /\ store.changes \in 0 .. MaxChanges
  /\ \A b \in Buckets : /\ cache[b].age \in 0 .. FreshFor /\ cache[b].failed \in 0 .. Backoff
                        /\ walk[b].pages \in 0 .. PageLimit
  /\ panel.state \in {"loading", "complete", "truncated", "pending", "unavailable"}

(* A total that is not a floor is off by no more than what happened to the *)
(* bucket since its walk began, and a floor is as much as one walk counts. *)
CountIsClose ==
  \A b \in Buckets : cache[b].there =>
    LET now == Cardinality(store.keys[b])
    IN IF cache[b].cut THEN cache[b].count = PageLimit
       ELSE cache[b].count - now <= cache[b].drift /\ now - cache[b].count <= cache[b].drift

(* The VST panel never shows a figure for a bucket whose walk has not      *)
(* ended, and calls one exact only if the walk saw the bucket's end.       *)
PanelKnowsItsFigures ==
  panel.state \in {"complete", "truncated"} => cache[Recordings].there

(* While any bucket has totals, one that has none is listed at most once   *)
(* in FAILED_BACKOFF_MS.                                                   *)
BackoffStep ==
  \A b \in Buckets :
    ~Cold /\ ~cache[b].there /\ cache[b].failed < Backoff => ~(walk'[b].on /\ ~walk[b].on)
BacksOff == [][BackoffStep]_vars

(* "Since you opened this view" counts from a settled total: the base is   *)
(* set once, and never while a bucket that can be counted is not.          *)
BaseStep ==
  page'.base # page.base =>
    /\ page.base = -1
    /\ Live' /\ \A b \in Buckets \ Cards' : cache[b].failed < Backoff
BaseIsSettled == [][BaseStep]_vars

(* A walk that has begun ends, for better or worse.                        *)
ScansEnd == \A b \in Buckets : walk[b].on ~> ~walk[b].on
================================================================================
