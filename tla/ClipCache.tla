------------------------------- MODULE ClipCache -------------------------------
(***************************************************************************)
(* The cache of incident clips on the console's volume: the playlist route *)
(* (serve-clip.ts), the preload and thumbnail routes that fill it too, and *)
(* the eviction.  A clip is an incident's sensor, its time and the end of  *)
(* its span, zero for none; times are seconds, ages are counted in ticks   *)
(* and sizes in units of the file system's bound.                          *)
(*                                                                         *)
(* ffmpeg writes the playlist anew with each segment it finishes, so that  *)
(* a playlist can be read while it is in part.                             *)
(***************************************************************************)
EXTENDS Integers, Sequences, FiniteSets, SequencesExt

CONSTANTS Clips, VstLists, Jobs, Ttl, MaxBytes,
  MaxMishaps,  \* bound: ffmpeg processes that fail
  MaxRequests  \* bound: requests that the cache cannot answer

VARIABLES
  vst,      \* sensors VST lists, in order: [name, state, timeline, id]
  cache,    \* the directory of each clip
  job,      \* the requests under way
  answer,   \* the last answer from the cache or of a finished transcoding
  rest      \* [due: an eviction is scheduled, mishaps: what went wrong so far, requests]

vars == <<vst, cache, job, answer, rest>>

--------------------------------------------------------------------------------
(* clipWindow: five seconds around, or the span padded by two and capped   *)
(* at sixty, of which the thumbnail shows the middle.                      *)
IsSpan(c) == c.end > c.ts
SmallerOf(m, n) == IF m < n THEN m ELSE n
ClipWindow(c) ==
  IF IsSpan(c) THEN [start |-> c.ts - 2, stop |-> SmallerOf(c.end + 2, c.ts + 58)]
               ELSE [start |-> c.ts - 5, stop |-> c.ts + 5]
ThumbAt(c) == IF IsSpan(c) THEN (ClipWindow(c).stop - ClipWindow(c).start) \div 2 ELSE 0

(* resolveStreamId: stale entries of the name are passed over for the      *)
(* first that is online and has a timeline; 0 for none of the name.        *)
Named(list, n)   == {i \in DOMAIN list : list[i].name = n}
Serving(list, n) == {i \in Named(list, n) : list[i].state = "online" /\ list[i].timeline}
FirstIn(S)       == CHOOSE i \in S : \A k \in S : i <= k
EntryOf(list, n) == IF Serving(list, n) # {} THEN FirstIn(Serving(list, n))
                    ELSE IF Named(list, n) # {} THEN FirstIn(Named(list, n)) ELSE 0

--------------------------------------------------------------------------------
NoDir == [there |-> FALSE, list |-> "none", age |-> 0,
          thumb |-> FALSE, thumbAge |-> 0]
Idle  == [kind |-> "none", todo |-> <<>>, step |-> "idle", disturbed |-> FALSE]
Asked(kind, todo) == [kind |-> kind, todo |-> todo, step |-> "resolve", disturbed |-> FALSE]
NoAnswer == [clip |-> "none", file |-> "none", cached |-> FALSE, age |-> 0]

Init == /\ vst \in VstLists
        /\ cache = [c \in Clips |-> NoDir]
        /\ job = [j \in Jobs |-> Idle]
        /\ answer = NoAnswer
        /\ rest = [due |-> FALSE, mishaps |-> 0, requests |-> 0]

Clip(j) == Head(job[j].todo)
Transcodes(j, c) == job[j].step = "transcode" /\ Clip(j) = c

\* (variant) whatever is there is a hit
StaleToo(c) == cache[c].list # "none"
(* isCacheFresh of the playlist; that of the thumbnail.                    *)
ListFresh(c)  == cache[c].list # "none" /\ cache[c].age < Ttl
ThumbFresh(c) == cache[c].thumb /\ cache[c].thumbAge < Ttl

Answers(c, file, cached, age) ==
  answer' = [clip |-> c, file |-> file, cached |-> cached, age |-> age]

(* Time goes by.                                                           *)
Older(e) == [e EXCEPT !.age = IF e.list # "none" /\ @ < Ttl THEN @ + 1 ELSE @,
                      !.thumbAge = IF e.thumb /\ @ < Ttl THEN @ + 1 ELSE @]
Tick == /\ cache' = [c \in Clips |-> Older(cache[c])]
        /\ answer' = NoAnswer
        /\ UNCHANGED <<vst, job, rest>>

--------------------------------------------------------------------------------
(* GET .../index.m3u8, .../segNNN.ts and .../thumb, POST preload.          *)
PlaylistHit(c) ==
  /\ ListFresh(c) /\ Answers(c, "list", TRUE, cache[c].age)
  /\ UNCHANGED <<vst, cache, job, rest>>
Segment(c) ==
  /\ ListFresh(c) /\ Answers(c, "segment", TRUE, cache[c].age)
  /\ UNCHANGED <<vst, cache, job, rest>>
ThumbHit(c) ==
  /\ ThumbFresh(c) /\ Answers(c, "thumb", TRUE, cache[c].thumbAge)
  /\ UNCHANGED <<vst, cache, job, rest>>

Begin(j, kind, clips) ==
  /\ job[j].step = "idle" /\ rest.requests < MaxRequests
  /\ kind = "serve" => ~ListFresh(Head(clips))
  /\ kind = "thumb" => ~ThumbFresh(Head(clips))
  /\ job' = [job EXCEPT ![j] = Asked(kind, clips)]
  /\ rest' = [rest EXCEPT !.requests = @ + 1]
  /\ answer' = NoAnswer
  /\ UNCHANGED <<vst, cache>>

(* The next clip of a preload; after the last an eviction, whatever came   *)
(* of the clips.  A playlist request schedules one only when it succeeds.  *)
NextOf(j) ==
  IF job[j].kind = "warm" /\ Len(job[j].todo) > 1
  THEN [job EXCEPT ![j] = Asked("warm", Tail(job[j].todo))]
  ELSE [job EXCEPT ![j] = Idle]
WarmDone(j) == job[j].kind = "warm" /\ Len(job[j].todo) = 1

Leaves(j) == /\ job' = NextOf(j)
             /\ rest' = [rest EXCEPT !.due = @ \/ WarmDone(j)]

(* The footages a request may come by: the manifest's unless the clip is a *)
(* span, that of its window, and for a playlist the last recorded.         *)
Footages(j) ==
  {f \in {"manifest", "window", "recent"} :
     /\ job[j].kind = "warm" => ~ListFresh(Clip(j))
     /\ f = "manifest" => ~IsSpan(Clip(j)) /\ job[j].kind # "thumb"
     /\ f # "manifest" => EntryOf(vst, Clip(j).sensor) # 0
     /\ f = "recent"   => job[j].kind = "serve"}

(* Another ffmpeg that writes to the same directory is disturbed, and so   *)
(* is this one.                                                            *)
Resolve(j) ==
  /\ job[j].step = "resolve"
  /\ Footages(j) # {}
  /\ LET c == Clip(j)
         others == {k \in Jobs : Transcodes(k, c)}
         starts == job[j].kind # "thumb"
     IN /\ cache' = [cache EXCEPT ![c].there = TRUE]
        /\ job' = [k \in Jobs |->
             CASE k = j -> [job[j] EXCEPT !.step = IF starts THEN "transcode" ELSE "still",
                                          !.disturbed = others # {}]
               [] k \in others /\ starts -> [job[k] EXCEPT !.disturbed = TRUE]
               [] OTHER -> job[k]]
  /\ answer' = NoAnswer
  /\ UNCHANGED <<vst, rest>>

(* A preload passes over what is fresh; nothing found is a 404, nothing,   *)
(* or the transparent placeholder.                                         *)
FindsNothing(j) == job[j].step = "resolve" /\ Leaves(j) /\ answer' = NoAnswer /\ UNCHANGED <<vst, cache>>
ThumbFromSegment(j) ==
  /\ job[j].step = "resolve" /\ job[j].kind = "thumb" /\ cache[Clip(j)].list # "none"
  /\ job' = [job EXCEPT ![j].step = "still"]
  /\ answer' = NoAnswer
  /\ UNCHANGED <<vst, cache, rest>>

(* transcodeToHls: a segment more, the end, a failure.                     *)
Writes(c, l) == cache' = [cache EXCEPT ![c].list = l, ![c].age = 0]
WritesSegment(j) ==
  /\ job[j].step = "transcode" /\ cache[Clip(j)].there
  /\ Writes(Clip(j), "part")
  /\ answer' = NoAnswer
  /\ UNCHANGED <<vst, job, rest>>
TranscodeEnds(j) ==
  /\ job[j].step = "transcode" /\ cache[Clip(j)].there
  /\ \E l \in IF job[j].disturbed THEN {"part", "whole"} ELSE {"whole"} : Writes(Clip(j), l)
  /\ rest' = [rest EXCEPT !.mishaps = IF job[j].disturbed THEN MaxMishaps + 1 ELSE @]
  /\ job' = [job EXCEPT ![j].step = "still"]
  /\ answer' = NoAnswer
  /\ UNCHANGED vst
Fails(j) ==
  /\ job[j].step \in {"transcode", "still"}
  /\ IF cache[Clip(j)].there /\ job[j].step = "transcode"
     THEN rest.mishaps < MaxMishaps /\ rest' = [rest EXCEPT !.mishaps = @ + 1, !.due = @ \/ WarmDone(j)]
     ELSE rest' = [rest EXCEPT !.due = @ \/ WarmDone(j)]
  /\ job' = NextOf(j)
  /\ answer' = NoAnswer
  /\ UNCHANGED <<vst, cache>>

(* extractThumbnail, which makes no file when the offset lies behind the   *)
(* end; then the answer, with whatever playlist is there by now.           *)
Still(j) ==
  /\ job[j].step = "still" /\ cache[Clip(j)].there
  /\ \E made \in BOOLEAN :
       cache' = IF made THEN [cache EXCEPT ![Clip(j)].thumb = TRUE, ![Clip(j)].thumbAge = 0] ELSE cache
  /\ CASE job[j].kind = "serve" /\ cache[Clip(j)].list # "none" -> Answers(Clip(j), "list", FALSE, 0)
       [] OTHER -> answer' = NoAnswer
  /\ job' = NextOf(j)
  /\ rest' = [rest EXCEPT !.due = @ \/ job[j].kind = "serve" \/ WarmDone(j)]
  /\ UNCHANGED vst

--------------------------------------------------------------------------------
(* doEvictLru: from the oldest directory on, until the rest is within the  *)
(* bound.  Removals succeed here; one that does not is passed over.        *)
Size(e)  == (CASE e.list = "whole" -> 2 [] e.list = "part" -> 1 [] OTHER -> 0)
            + (IF e.thumb THEN 1 ELSE 0)
Newest(e) == IF e.thumb /\ (e.list = "none" \/ e.thumbAge < e.age) THEN e.thumbAge ELSE e.age
Dirs     == {c \in Clips : cache[c].there}
Total(S) == Cardinality(UNION {{c} \X (1 .. Size(cache[c])) : c \in S})
Orders   == {o \in [1 .. Cardinality(Dirs) -> Dirs] :
               /\ \A c \in Dirs : \E i \in DOMAIN o : o[i] = c
               /\ \A i, k \in DOMAIN o : i < k => Newest(cache[o[i]]) >= Newest(cache[o[k]])}

FirstOf(order, n) == {order[i] : i \in 1 .. n}
Suffices(order, n) == Total(Dirs \ FirstOf(order, n)) <= MaxBytes
Evicted(order) ==
  FirstOf(order, CHOOSE n \in 0 .. Cardinality(Dirs) :
                   Suffices(order, n) /\ \A m \in 0 .. n - 1 : ~Suffices(order, m))

Evict ==
  /\ rest.due
  /\ \E order \in Orders :
       LET gone == Evicted(order)
       IN /\ cache' = [c \in Clips |-> IF c \in gone THEN NoDir ELSE cache[c]]
          /\ job' = [j \in Jobs |-> IF job[j].step = "transcode" /\ Clip(j) \in gone
                                    THEN [job[j] EXCEPT !.disturbed = TRUE] ELSE job[j]]
  /\ rest' = [rest EXCEPT !.due = FALSE]
  /\ answer' = NoAnswer
  /\ UNCHANGED vst

Next ==
  \/ Tick
  \/ \E c \in Clips : PlaylistHit(c) \/ Segment(c) \/ ThumbHit(c)
  \/ \E j \in Jobs, c \in Clips, kind \in {"serve", "warm", "thumb"} : Begin(j, kind, <<c>>)
  \/ \E j \in Jobs, clips \in SetToSeqs(Clips) : Begin(j, "warm", clips)
  \/ \E j \in Jobs : \/ Resolve(j) \/ FindsNothing(j) \/ ThumbFromSegment(j) \/ WritesSegment(j)
                     \/ TranscodeEnds(j) \/ Fails(j) \/ Still(j)
  \/ Evict

Spec == Init /\ [][Next]_vars

--------------------------------------------------------------------------------
TypeOK ==
  /\ vst \in VstLists
  /\ \A c \in Clips : /\ cache[c].list \in {"none", "part", "whole"}
                      /\ cache[c].list # "none" \/ cache[c].thumb => cache[c].there
                      /\ cache[c].age \in 0 .. Ttl /\ cache[c].thumbAge \in 0 .. Ttl
  /\ \A j \in Jobs : job[j].step \in {"idle", "resolve", "transcode", "still"}
  /\ rest.due \in BOOLEAN /\ rest.mishaps \in 0 .. MaxMishaps + 1

(* What is served from the cache is younger than a day: footage of another *)
(* time, or half a playlist, is not served for an incident for good.       *)
ServedIsFresh == answer.cached => answer.age < Ttl

(* A half-written playlist with nobody writing it comes of a failed ffmpeg *)
(* or of two requests, or a request and an eviction, that met.             *)
HalvesComeOfMishaps ==
  \A c \in Clips : cache[c].list = "part" =>
    (\E j \in Jobs : Transcodes(j, c)) \/ rest.mishaps > 0

(* The window fetched, and so the thumbnail in it, is never longer than a  *)
(* minute, and of the sensors of the name one that is online is asked      *)
(* before a stale one.                                                     *)
AsksTheRightStream ==
  \A c \in Clips :
    /\ ClipWindow(c).start + ThumbAt(c) \in ClipWindow(c).start .. ClipWindow(c).stop
    /\ ClipWindow(c).stop - ClipWindow(c).start <= 60
    /\ \A i \in Named(vst, c.sensor) :
         LET found == EntryOf(vst, c.sensor)
         IN /\ found \in Named(vst, c.sensor)
            /\ vst[i].state = "online" /\ vst[i].timeline =>
                 vst[found].state = "online" /\ vst[found].timeline

(* An eviction leaves no more than the bound, and takes no directory that  *)
(* is newer than one it leaves.                                            *)
EvictStep ==
  rest.due /\ ~rest'.due =>
    LET gone == {c \in Dirs : ~cache'[c].there}
        left == Dirs \ gone
    IN /\ Total(left) <= MaxBytes
       /\ \A c \in gone, d \in left : Newest(cache[c]) >= Newest(cache[d])
EvictsTheOldest == [][EvictStep]_vars
================================================================================
