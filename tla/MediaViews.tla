------------------------------- MODULE MediaViews ------------------------------
(***************************************************************************)
(* What the console shows of recordings: the player of an incident's clip  *)
(* (ClipPlayer.tsx) and of a camera (LiveFeedPlayer.tsx), stills of the    *)
(* clips an agent's answer refers to (media-thumb, media, media-guard.ts), *)
(* and the probe that reads a window of VST's timeline back.               *)
(*                                                                         *)
(* A source is its form and path, a sequence of segments the last of which *)
(* stands for its extension; times of the probe are minutes.               *)
(***************************************************************************)
EXTENDS Integers, Sequences, FiniteSets, SequencesExt

CONSTANTS Statuses,   \* clipStatus the players are given; "none" for none
          Sources,    \* [form, path] a reply refers to
          Timelines,  \* [stream -> its segments], as VST answers
          ProbedAt,   \* when the probe is made
          MaxRetries, \* MAX_RETRIES
          Ttl         \* CLIP_CACHE_TTL_MS, in ticks

VARIABLES
  view,   \* the view a behaviour is of: they share nothing
  player, \* [status, video: mounted, hls, error, ready, retries, timer, reason]
  live,   \* [eip, frame: "none", "still", "failed"]: the camera's row
  still,  \* [src, step, file, age]: the cached still of a source and a request
  probe   \* [timelines, registered, answer, verdict]

vars == <<view, player, live, still, probe>>

NoSource    == [form |-> "none", path |-> <<>>]
NoTimelines == [s1 |-> <<>>, s2 |-> <<>>]
NoWindow    == [stream |-> "none", start |-> 0, stop |-> 0]

--------------------------------------------------------------------------------
(* ClipPlayer.  A pending clip, or one of which nothing is known, may yet  *)
(* come: it is tried again.                                                *)
Transient(p) == p.status \in {"pending", "none"} /\ p.retries < MaxRetries
\* (variant) an error is final whatever is known of the clip
ErrorIsFinal(p) ==
  IF p.status = "failed" \/ p.error THEN "card" ELSE "video"

Shown(p) ==
  IF p.status = "failed" THEN "card"
  ELSE IF ~p.error THEN "video"
  ELSE IF Transient(p) THEN "spinner" ELSE "card"

(* After a render the video element is there or not; the load effect finds *)
(* it or returns.                                                          *)
Rendered(p) == [p EXCEPT !.video = Shown(p) = "video"]
Loaded(p)   == IF p.status = "failed" \/ ~p.video THEN [p EXCEPT !.hls = FALSE]
               ELSE [p EXCEPT !.hls = TRUE, !.error = FALSE, !.ready = FALSE]
NewPlayer(s) == Loaded(Rendered([status |-> s, video |-> FALSE, hls |-> FALSE, error |-> FALSE,
                                 ready |-> FALSE, retries |-> 0, timer |-> FALSE, reason |-> "none"]))

Init ==
  /\ view \in {"player", "live", "still", "probe"}
  /\ \E s \in Statuses : player = NewPlayer(s)
  /\ live \in [eip : BOOLEAN, frame : {"none"}, asked : {FALSE}]
  /\ still = [src |-> NoSource, step |-> "idle", file |-> FALSE, age |-> 0, answer |-> "none"]
  /\ probe = [timelines |-> NoTimelines, registered |-> {}, window |-> NoWindow, verdict |-> "none"]

(* MANIFEST_PARSED, and a fatal ERROR: the render takes the element away.  *)
(* The retry timer is set when "error and transient" becomes true.         *)
ManifestParsed ==
  /\ player.hls /\ ~player.error /\ ~player.ready
  /\ player' = [player EXCEPT !.ready = TRUE]
  /\ UNCHANGED <<live, still, probe>>
FatalError ==
  /\ player.hls /\ ~player.error
  /\ player' = Rendered([player EXCEPT !.error = TRUE, !.timer = Transient(player)])
  /\ UNCHANGED <<live, still, probe>>

(* The timer: the count goes up and the load effect runs again; the timer  *)
(* is not set anew as long as the clip stays transient.                    *)
RetryDue ==
  /\ player.timer
  /\ LET p == [player EXCEPT !.retries = @ + 1, !.timer = FALSE]
     IN player' = Rendered(Loaded(Rendered(p)))
  /\ UNCHANGED <<live, still, probe>>

(* The clip route's reason, asked for once the card is shown; an answer of *)
(* 200 explains nothing.                                                   *)
Explain(code) ==
  /\ Shown(player) = "card" /\ player.reason = "none"
  /\ player' = [player EXCEPT !.reason = CASE code = "ok" -> "none" [] code = "404" -> "diagnosed"
                                           [] OTHER -> "unreachable"]
  /\ UNCHANGED <<live, still, probe>>

(* The worker's verdict on the clip arrives with the incident's update.    *)
StatusComes(s) ==
  /\ player.status = "pending" /\ s \in {"ready", "failed"}
  /\ LET p == Rendered([player EXCEPT !.status = s, !.timer = FALSE])
     IN player' = IF s = "failed" THEN Loaded(p) ELSE p
  /\ UNCHANGED <<live, still, probe>>

(* A camera of the simulator host is played from there; of another a still *)
(* of a minute ago is asked for every half minute.  The thumb route never  *)
(* answers an error, but a transparent picture, and to no session a 401.   *)
FrameTick ==
  /\ ~live.eip /\ live.frame # "failed" /\ ~live.asked
  /\ live' = [live EXCEPT !.asked = TRUE]
  /\ UNCHANGED <<player, still, probe>>
FrameComes(ok) ==
  /\ live.asked
  /\ live' = [live EXCEPT !.asked = FALSE, !.frame = IF ok THEN "still" ELSE "failed"]
  /\ UNCHANGED <<player, still, probe>>
HlsBreaks ==
  /\ live.eip /\ live.frame = "none"
  /\ live' = [live EXCEPT !.frame = "failed"]
  /\ UNCHANGED <<player, still, probe>>

--------------------------------------------------------------------------------
(* media-guard: a full URL of the media origin only, the console's own     *)
(* prefix taken off; no dot or separator in a segment, and below the       *)
(* storage root.                                                           *)
Video == {"mp4", "webm", "mov", "mkv", "ts"}
Image == {"jpg", "jpeg", "png", "webp", "gif"}
Types == Video \union Image \union {"m3u8"}

\* (variant) a URL of any host
AnyHost(s) == s.path
ParseMediaSrc(s) ==
  IF s.form \in {"no scheme", "foreign"} \/ s.path = <<>> THEN <<>>
  ELSE IF Len(s.path) > 2 /\ SubSeq(s.path, 1, 2) = <<"api", "media">>
       THEN SubSeq(s.path, 3, Len(s.path)) ELSE s.path
ResolveVstMediaPath(path) ==
  /\ path # <<>> /\ \A i \in DOMAIN path : path[i] \notin {"..", ".", "a/b"}
  /\ Len(path) > 2 /\ path[1] = "vst" /\ path[2] = "storage"
Extension(path) == path[Len(path)]

(* GET media: 400, 415, what the upstream says, or the bytes.              *)
MediaAnswer(path, upstream) ==
  IF ~ResolveVstMediaPath(path) THEN "400"
  ELSE IF Extension(path) \notin Types THEN "415"
  ELSE CASE upstream = "ok" -> "bytes" [] upstream = "404" -> "404"
         [] upstream = "down" -> "503" [] OTHER -> "502"

Media(s, upstream) ==
  /\ still.step = "idle"
  /\ still' = [still EXCEPT !.src = s, !.file = FALSE, !.age = 0,
                            !.answer = MediaAnswer(s.path, upstream)]
  /\ UNCHANGED <<player, live, probe>>

(* GET media-thumb of one source: refused, from the cache, or fetched.     *)
Thumb(s) ==
  /\ still.step = "idle"
  /\ LET path == ParseMediaSrc(s)
         mine == still.src = s /\ still.file
     IN still' =
          CASE ~ResolveVstMediaPath(path) \/ Extension(path) \notin Video \union Image ->
                 [still EXCEPT !.src = s, !.file = mine, !.age = IF mine THEN @ ELSE 0, !.answer = "404"]
            [] OTHER ->
                 IF mine /\ still.age < Ttl THEN [still EXCEPT !.answer = "hit"]
                 ELSE [still EXCEPT !.src = s, !.file = mine, !.age = IF mine THEN @ ELSE 0,
                                    !.step = "fetch", !.answer = "none"]
  /\ UNCHANGED <<player, live, probe>>

(* An image is kept as it is, a clip of bounded size goes through ffmpeg,  *)
(* and whatever fails is answered with the placeholder.                    *)
Fetched(ok) ==
  /\ still.step = "fetch"
  /\ still' = IF ~ok THEN [still EXCEPT !.step = "idle", !.answer = "placeholder"]
              ELSE IF Extension(still.src.path) \in Image
              THEN [still EXCEPT !.step = "idle", !.file = TRUE, !.age = 0, !.answer = "miss"]
              ELSE [still EXCEPT !.step = "extract"]
  /\ UNCHANGED <<player, live, probe>>
Extracted(ok) ==
  /\ still.step = "extract"
  /\ still' = IF ok THEN [still EXCEPT !.step = "idle", !.file = TRUE, !.age = 0, !.answer = "miss"]
              ELSE [still EXCEPT !.step = "idle", !.answer = "placeholder"]
  /\ UNCHANGED <<player, live, probe>>
StillAges == /\ still.file /\ still.age < Ttl
             /\ still' = [still EXCEPT !.age = @ + 1, !.answer = "none"]
             /\ UNCHANGED <<player, live, probe>>

--------------------------------------------------------------------------------
(* pickPlaybackWindow: of the streams that may be read, the last segment   *)
(* that ends last, in the last ten minutes, with room for a minute before  *)
(* its last minute.                                                        *)
LastSegments(tl, registered) ==
  {[stream |-> s, seg |-> tl[s][Len(tl[s])]] :
     s \in {t \in DOMAIN tl : tl[t] # <<>> /\ (registered # {} => t \in registered)}}
RecentEnough(tl, registered) ==
  {c \in LastSegments(tl, registered) : ProbedAt - c.seg.stop <= 10 /\ c.seg.stop - c.seg.start >= 2}
\* (variant) of all streams VST keeps a timeline of
AnyStream(tl, registered) ==
  {[stream |-> c.stream, start |-> c.seg.stop - 2, stop |-> c.seg.stop - 1] : c \in RecentEnough(tl, {})}
PlaybackWindows(tl, registered) ==
  {[stream |-> c.stream, start |-> c.seg.stop - 2, stop |-> c.seg.stop - 1] :
     c \in {d \in RecentEnough(tl, registered) : \A e \in RecentEnough(tl, registered) : e.seg.stop <= d.seg.stop}}

ClassifyPlayback(code) ==
  CASE code = "200" -> "ok" [] code = "404" -> "warn" [] OTHER -> "error"

(* probePlayback: the timelines may be refused; a list of sensors that     *)
(* failed is an empty one and restricts nothing.                           *)
Probe(tl, registered, code) ==
  /\ LET windows == PlaybackWindows(tl, registered)
     IN \/ /\ windows = {}
           /\ probe' = [timelines |-> tl, registered |-> registered, window |-> NoWindow, verdict |-> "warn"]
        \/ \E w \in windows :
             probe' = [timelines |-> tl, registered |-> registered, window |-> w,
                       verdict |-> ClassifyPlayback(code)]
  /\ UNCHANGED <<player, live, still>>
TimelinesRefused ==
  /\ probe' = [timelines |-> NoTimelines, registered |-> {}, window |-> NoWindow, verdict |-> "error"]
  /\ UNCHANGED <<player, live, still>>

Player == \/ ManifestParsed \/ FatalError \/ RetryDue
          \/ \E code \in {"ok", "404", "down"} : Explain(code)
          \/ \E s \in Statuses : StatusComes(s)
Row    == FrameTick \/ HlsBreaks \/ \E ok \in BOOLEAN : FrameComes(ok)
Stills == \/ \E s \in Sources : Thumb(s) \/ \E up \in {"ok", "404", "down", "500"} : Media(s, up)
          \/ StillAges \/ \E ok \in BOOLEAN : Fetched(ok) \/ Extracted(ok)
Probes == \/ \E tl \in Timelines, reg \in SUBSET {"s1", "s2"}, code \in {"200", "404", "500"} :
               Probe(tl, reg, code)
          \/ TimelinesRefused

Next ==
  /\ UNCHANGED view
  /\ \/ view = "player" /\ Player
     \/ view = "live" /\ Row
     \/ view = "still" /\ Stills
     \/ view = "probe" /\ Probes

Spec == Init /\ [][Next]_vars

--------------------------------------------------------------------------------
TypeOK ==
  /\ player.status \in Statuses /\ player.retries \in 0 .. MaxRetries
  /\ live.frame \in {"none", "still", "failed"}
  /\ still.step \in {"idle", "fetch", "extract"} /\ still.age \in 0 .. Ttl
  /\ probe.verdict \in {"none", "ok", "warn", "error"}

(* A clip that may yet come is not called unavailable ("renders the        *)
(* preparing spinner on error instead of the permanent fallback"), and     *)
(* nothing plays beside the card or the spinner.                           *)
PendingIsNotLost ==
  /\ Shown(player) = "card" => player.status \in {"failed", "ready"}
  /\ player.video <=> Shown(player) = "video"

(* Nothing is fetched but what lies below the storage root of VST's media  *)
(* origin, whatever form the reference has.                                *)
OnlyStorageIsFetched ==
  still.step # "idle" =>
    /\ still.src.form \in {"own", "path"}
    /\ \E i \in 1 .. 3 : Len(still.src.path) > i + 1 /\ SubSeq(still.src.path, i, i + 1) = <<"vst", "storage">>

(* The window read back lies in what its stream's timeline lists, on a     *)
(* stream of a registered sensor when any is registered, and no readable   *)
(* stream was recorded later.                                              *)
ProbesALiveStream ==
  probe.window # NoWindow =>
    LET w == probe.window
        s == probe.timelines[w.stream]
    IN /\ probe.registered # {} => w.stream \in probe.registered
       /\ \E i \in DOMAIN s : s[i].start <= w.start /\ w.stop < s[i].stop
       /\ ProbedAt - w.stop <= 11
================================================================================
