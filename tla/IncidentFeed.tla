------------------------------ MODULE IncidentFeed -----------------------------
(***************************************************************************)
(* An incident's way from the alert bridge to the incidents page.  The     *)
(* route /api/incidents/live polls the bridge and pushes what it has not   *)
(* seen; useIncidentStream keeps a connection to it, with a back-off and a *)
(* last attempt after which the page polls /api/incidents itself; the page *)
(* merges what both bring into one list, and on the kiosk's wall shows a   *)
(* banner for the severe ones that came in live.                           *)
(*                                                                         *)
(* The bridge lists its newest incidents first.  An incident is a record   *)
(* of its id, the key by which the page tells incidents apart, its         *)
(* category and whether it is an anomaly.                                  *)
(***************************************************************************)
EXTENDS Naturals, FiniteSets, Sequences, SequencesExt

CONSTANTS
  Incidents,    \* what the bridge may come to list
  Window,       \* how many of them it lists (limit=50)
  MaxAttempts,  \* MAX_ATTEMPTS of the hook
  MaxBanners,   \* MAX_VISIBLE
  MaxVisits,    \* bound: how often the page is opened
  NoAnswer, NoIncident

VARIABLES
  bridge,   \* the incidents there are, newest first
  live,     \* the connection's server side: poll at, seen keys, primed, answer
  hook,     \* the connection's client side: its state, attempts, given up
  page,     \* the page: list, answers it waits for, visits; past, a
            \* history, holds what there was then and what was found since
  banners   \* the wall: the trigger, whether it was rendered, banners, timer

vars == <<bridge, live, hook, page, banners>>

Closed    == [at |-> "closed", seen |-> {}, primed |-> FALSE, answer |-> NoAnswer]
Unmounted == [es |-> "none", attempt |-> 0, failed |-> FALSE]
NoBanner  == [trigger |-> NoIncident, rendered |-> TRUE, up |-> <<>>, timer |-> NoIncident]

(* severityForCategory: the known categories, else by the anomaly flag.    *)
KnownSeverity == [theft |-> "high", forklift |-> "high", intrusion |-> "high",
                  restock |-> "low"]
Severity(i) ==
  IF i.category \in DOMAIN KnownSeverity THEN KnownSeverity[i.category]
  ELSE IF i.anomaly THEN "high" ELSE "medium"

Answers == {NoAnswer} \union UNION {[1 .. n -> Incidents] : n \in 0 .. Window}

TypeOK ==
  /\ Range(bridge) \subseteq Incidents
  /\ live.at \in {"closed", "asks", "waits"} /\ live.seen \subseteq Incidents
  /\ live.primed \in BOOLEAN /\ live.answer \in Answers
  /\ hook.es \in {"none", "opening", "open", "later"}
  /\ hook.attempt \in 0 .. MaxAttempts /\ hook.failed \in BOOLEAN
  /\ Range(page.list) \subseteq Incidents /\ page.first \in Answers
  /\ page.cached \in BOOLEAN
  /\ page.polled \in Answers
  /\ page.visits \in 0 .. MaxVisits
  /\ page.past \subseteq Incidents
  /\ banners.trigger \in Incidents \union {NoIncident} /\ banners.rendered \in BOOLEAN
  /\ Range(banners.up) \subseteq Incidents
  /\ banners.timer \in Incidents \union {NoIncident}

Init ==
  /\ bridge = <<>>
  /\ live = Closed
  /\ hook = Unmounted
  /\ page = [list |-> <<>>, first |-> NoAnswer, cached |-> FALSE, polled |-> NoAnswer,
             visits |-> 0, here |-> FALSE, past |-> {}]
  /\ banners = NoBanner

Listed == SubSeq(bridge, 1, IF Len(bridge) < Window THEN Len(bridge) ELSE Window)

Happens(i) ==
  /\ i \notin Range(bridge)
  /\ bridge' = <<i>> \o bridge
  /\ UNCHANGED <<live, hook, page, banners>>

--------------------------------------------------------------------------------
(* GET /api/incidents/live                                                 *)

(* poll: the bridge is asked, and lists what there is now.                 *)
PollAsks ==
  /\ live.at = "waits"
  /\ live' = [live EXCEPT !.at = "asks", !.answer = Listed]
  /\ UNCHANGED <<bridge, hook, page, banners>>

(* A poll that fails: the next tick tries again.                           *)
PollFails ==
  /\ live.at = "asks"
  /\ live' = [live EXCEPT !.at = "waits", !.answer = NoAnswer]
  /\ UNCHANGED <<bridge, hook, page, banners>>

Key(i) == i.key
(* mergeIncident: in front, unless one of its time and sensor is there.    *)
Merge(list, i) ==
  IF \E k \in DOMAIN list : Key(list[k]) = Key(i) THEN list ELSE <<i>> \o list
MergeAll(list, seq) ==
  LET merged[n \in 0 .. Len(seq)] == IF n = 0 THEN list ELSE Merge(merged[n - 1], seq[n])
  IN merged[Len(seq)]

(* filter: the members of a list that are in a set, in order.              *)
Filter(list, some) ==
  LET kept[n \in 0 .. Len(list)] ==
        IF n = 0 THEN <<>>
        ELSE IF list[n] \in some THEN Append(kept[n - 1], list[n]) ELSE kept[n - 1]
  IN kept[Len(list)]

Unseen(answer) == Filter(Reverse(answer), Incidents \ live.seen)

(* The events a page gets, oldest first: each is merged, and the last of   *)
(* those that are severe becomes the trigger of a banner; any message says *)
(* that the connection is healthy.                                         *)
Receive(events) ==
  LET severe == Filter(events, {i \in Incidents : Severity(i) = "high"})
  IN /\ page' = [page EXCEPT !.list = MergeAll(@, events), !.past = @ \union Range(live.answer)]
     /\ hook' = IF events = <<>> THEN hook
                ELSE [hook EXCEPT !.attempt = 0, !.failed = FALSE, !.es = "open"]
     /\ banners' = IF severe = <<>> THEN banners
                   ELSE [banners EXCEPT !.trigger = severe[Len(severe)], !.rendered = FALSE]

\* (variant) the first poll pushes what it finds, as the later ones do
PollPushesBacklog ==
  /\ live.at = "asks"
  /\ Receive(Unseen(live.answer))
  /\ live' = [live EXCEPT !.at = "waits", !.primed = TRUE, !.answer = NoAnswer,
                          !.seen = @ \union Range(live.answer)]
  /\ UNCHANGED bridge

(* The answer: what is new is remembered and, after the first answer,      *)
(* pushed, oldest first.                                                   *)
PollAnswers ==
  /\ live.at = "asks"
  /\ Receive(IF live.primed THEN Unseen(live.answer) ELSE <<>>)
  /\ live' = [live EXCEPT !.at = "waits", !.primed = TRUE, !.answer = NoAnswer,
                          !.seen = @ \union Range(live.answer)]
  /\ UNCHANGED bridge

--------------------------------------------------------------------------------
(* useIncidentStream                                                       *)

Connect ==
  /\ hook.es = "later"
  /\ hook' = [hook EXCEPT !.es = "opening"]
  /\ UNCHANGED <<bridge, live, page, banners>>

(* onopen: the server has begun its first poll.                            *)
Opens ==
  /\ hook.es = "opening"
  /\ hook' = [es |-> "open", attempt |-> 0, failed |-> FALSE]
  /\ live' = [Closed EXCEPT !.at = "waits"]
  /\ UNCHANGED <<bridge, page, banners>>

(* onerror: closed, and tried again later unless that was the last attempt.*)
Breaks ==
  /\ hook.es \in {"opening", "open"}
  /\ hook' = IF hook.attempt >= MaxAttempts
             THEN [hook EXCEPT !.es = "none", !.failed = TRUE]
             ELSE [hook EXCEPT !.es = "later", !.attempt = @ + 1]
  /\ live' = Closed
  /\ UNCHANGED <<bridge, page, banners>>

--------------------------------------------------------------------------------
(* The page                                                                *)

(* It is opened: the connection is begun, and the first list is asked for, *)
(* unless an earlier visit's answer is still cached: staleTime is Infinity.*)
Visit ==
  /\ ~page.here /\ page.visits < MaxVisits
  /\ page' = [page EXCEPT !.here = TRUE, !.visits = @ + 1, !.list = <<>>, !.past = Range(bridge),
                          !.first = IF page.cached THEN NoAnswer ELSE Listed]
  /\ hook' = [Unmounted EXCEPT !.es = "opening"]
  /\ UNCHANGED <<bridge, live, banners>>

(* The first list replaces what is there.                                  *)
InitialAnswers ==
  /\ page.here /\ page.first # NoAnswer
  /\ page' = [page EXCEPT !.list = page.first, !.first = NoAnswer, !.cached = TRUE]
  /\ UNCHANGED <<bridge, live, hook, banners>>

(* The route answers an error: the page is left with what the stream says. *)
InitialFails ==
  /\ page.here /\ page.first # NoAnswer
  /\ page' = [page EXCEPT !.first = NoAnswer]
  /\ UNCHANGED <<bridge, live, hook, banners>>

(* The fallback, enabled while the hook has given up.                      *)
PagePolls ==
  /\ page.here /\ hook.failed /\ page.polled = NoAnswer
  /\ page' = [page EXCEPT !.polled = Listed]
  /\ UNCHANGED <<bridge, live, hook, banners>>

PagePollAnswers ==
  /\ page.here /\ page.polled # NoAnswer
  /\ page' = [page EXCEPT !.list = MergeAll(@, page.polled), !.polled = NoAnswer]
  /\ UNCHANGED <<bridge, live, hook, banners>>

Quit ==
  /\ page.here
  /\ page' = [page EXCEPT !.here = FALSE, !.list = <<>>, !.polled = NoAnswer,
                          !.first = NoAnswer]
  /\ hook' = Unmounted
  /\ live' = Closed
  /\ banners' = NoBanner
  /\ UNCHANGED bridge

--------------------------------------------------------------------------------
(* HighSeverityToast                                                       *)

\* (variant) a banner is pushed for every trigger
RenderAgain ==
  /\ page.here /\ ~banners.rendered
  /\ banners' = [banners EXCEPT
       !.rendered = TRUE, !.timer = banners.trigger, !.up = Append(@, banners.trigger)]
  /\ UNCHANGED <<bridge, live, hook, page>>

(* The effect of a new trigger: the timer of the one before is cleared; a  *)
(* banner is added unless it is up, the oldest going when there are enough.*)
Render ==
  /\ page.here /\ ~banners.rendered
  /\ banners' = [banners EXCEPT
       !.rendered = TRUE, !.timer = banners.trigger,
       !.up = IF banners.trigger \in Range(@) THEN @
              ELSE Append(IF Len(@) >= MaxBanners
                          THEN SubSeq(@, Len(@) - MaxBanners + 2, Len(@)) ELSE @,
                          banners.trigger)]
  /\ UNCHANGED <<bridge, live, hook, page>>

Without(up, i) == Filter(up, Incidents \ {i})

TimerEnds ==
  /\ banners.timer # NoIncident
  /\ banners' = [banners EXCEPT !.up = Without(@, banners.timer), !.timer = NoIncident]
  /\ UNCHANGED <<bridge, live, hook, page>>

Dismiss(i) ==
  /\ i \in Range(banners.up)
  /\ banners' = [banners EXCEPT !.up = Without(@, i)]
  /\ UNCHANGED <<bridge, live, hook, page>>

Server == PollAsks \/ PollFails \/ PollAnswers
Screen == \/ Connect \/ Opens \/ Breaks \/ InitialAnswers \/ InitialFails
          \/ PagePolls \/ PagePollAnswers \/ Render \/ TimerEnds
Viewer == \/ Visit \/ Quit
          \/ \E i \in Range(banners.up) : Dismiss(i)

Next == (\E i \in Incidents : Happens(i)) \/ Server \/ Screen \/ Viewer

Spec == Init /\ [][Next]_vars

--------------------------------------------------------------------------------
(* A banner is asked for by an incident that is news: neither the backlog  *)
(* a connection finds nor a reconnection asks for one, and none does twice *)
(* (page.tsx: "so old incidents don't pop toasts on page load or           *)
(* reconnect").                                                            *)
Asked     == ~banners'.rendered /\ (banners.rendered \/ banners'.trigger # banners.trigger)
NewsStep  == Asked => banners'.trigger \notin page.past
OnlyNewsIsAnnounced == [][NewsStep]_vars

(* There are no more banners than the cap, and none is up twice.           *)
BannersCapped == Len(banners.up) <= MaxBanners /\ IsInjective(banners.up)

(* What the page shows stays until the visit ends, except when the first   *)
(* list comes later than the stream's first incidents.                     *)
StaysStep == page.here /\ page'.here /\ page.first = page'.first
               => Range(page.list) \subseteq Range(page'.list)
ShownStays == [][StaysStep]_vars
================================================================================
