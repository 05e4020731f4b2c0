------------------------------ MODULE ChatAgent ------------------------------
(***************************************************************************)
(* The chat page and what answers it (app/chat/page.tsx, lib/use-voice.ts, *)
(* app/api/chat, lib/chat-search-routing.ts), and the search page beside   *)
(* it.  The page keeps the transcript and a conversation id; the agent     *)
(* keeps a thread of its own under that id; asks for the archive go to the *)
(* caption index and never reach the agent.                                *)
(*                                                                         *)
(* The microphone button hands the recognizer the send() of the render it  *)
(* was clicked in, with that render's transcript; the hands-free loop goes *)
(* through a reference that always holds the latest one.  A turn is known  *)
(* by its number.                                                          *)
(***************************************************************************)
EXTENDS Integers, Sequences, FiniteSets

CONSTANTS
  MaxTurns,  \* bound: questions asked
  MaxClears  \* bound: transcripts cleared

VARIABLES
  chat,    \* [lines, loading, error, probe, turns, conv, clears, since]: "since" is no
           \* state of the page, the last turn before the transcript was cleared
  wires,   \* requests under way: [turn, what, ask, conv, spoken, at]
  threads, \* conversation id -> the turns the agent remembers, in order
  mic,     \* [open, listening, flag, mode, heard]: recognizers, voiceOriginatedRef
  speech,  \* what is being said: [turn, loop, stage]
  search   \* the search page: [here, asked, pending, hits, searched, runs]

vars == <<chat, wires, threads, mic, speech, search>>

--------------------------------------------------------------------------------
Asks    == {"talk", "search"}
Replies == {"good", "short", "canned", "empty", "malformed"}
Line(role, turn) == [role |-> role, turn |-> turn]
Convs   == 1 .. MaxClears + 1

(* detectSearchIntent: only clear asks for the footage go to the index.    *)
ToIndex(w) == w.ask = "search"

(* isCannedFailure, and the probe's minimal length.                        *)
CannedPasses(reply) == \* (variant) the canned apology is long enough to pass
  reply \in {"good", "canned"}
Coherent(reply) == reply = "good"

(* The links of a reply: rewriteMediaUrls puts the agent's media host      *)
(* behind the console's own address, isSafeUrl lets through http(s) and    *)
(* rooted paths, VIDEO_URL_PATTERN makes of a link a still that plays.     *)
Urls == [scheme : {"http", "rooted", "script"}, host : {"agent", "other"}, video : BOOLEAN]
Unrewritten(u) == \* (variant) the agent's address is left in the reply
  u
Rewritten(u) == IF u.scheme = "http" /\ u.host = "agent" THEN [u EXCEPT !.scheme = "rooted"] ELSE u
Element(tag, u) ==
  IF u.scheme = "script" THEN "text"
  ELSE IF u.video THEN IF tag = "img" THEN "still" ELSE "still that plays"
  ELSE IF tag = "img" THEN "image" ELSE "link"

--------------------------------------------------------------------------------
Init ==
  /\ chat = [lines |-> <<>>, loading |-> FALSE, error |-> FALSE, probe |-> "idle", turns |-> 0,
             conv |-> 0, clears |-> 0, since |-> 0]
  /\ wires = {}
  /\ threads = [c \in Convs |-> <<>>]
  /\ mic = [open |-> {}, listening |-> FALSE, flag |-> FALSE, mode |-> FALSE, heard |-> 0]
  /\ speech = {}
  /\ \E here \in BOOLEAN : search = [here |-> here, asked |-> 0, pending |-> {}, hits |-> 0, searched |-> FALSE, runs |-> 0]

(* ensureConversationId.                                                   *)
Conversation == IF chat.conv = 0 THEN chat.clears + 1 ELSE chat.conv

(* send(), with the transcript and the busy flag of the render it belongs  *)
(* to: the question is added to that transcript.                           *)
FlagStays(spoken) == \* (variant) the flag is not taken down
  mic.flag \/ spoken
FlagAfter(spoken) == FALSE
Asked(lines, ask, spoken) ==
  LET turn == chat.turns + 1 IN
  /\ chat.turns < MaxTurns
  /\ chat' = [chat EXCEPT !.lines = Append(lines, Line("user", turn)), !.loading = TRUE,
                          !.error = FALSE, !.turns = turn, !.conv = Conversation]
  /\ wires' = wires \union {[turn |-> turn, what |-> "send", ask |-> ask, conv |-> Conversation,
                             spoken |-> spoken, at |-> "console"]}

Send(ask) ==
  /\ ~chat.loading
  /\ Asked(chat.lines, ask, mic.flag)
  /\ mic' = [mic EXCEPT !.flag = FlagAfter(mic.flag)]
  /\ UNCHANGED <<threads, speech, search>>

(* runG4aProbe, in the conversation of the page.                           *)
Probe ==
  /\ ~chat.loading /\ chat.probe # "running" /\ chat.turns < MaxTurns
  /\ chat' = [chat EXCEPT !.probe = "running", !.turns = @ + 1, !.conv = Conversation]
  /\ wires' = wires \union {[turn |-> chat.turns + 1, what |-> "probe", ask |-> "talk",
                             conv |-> Conversation, spoken |-> FALSE, at |-> "console"]}
  /\ UNCHANGED <<threads, mic, speech, search>>

(* POST /api/chat: the index answers, or the agent takes the turn into its *)
(* thread.                                                                 *)
Route(w) ==
  /\ w \in wires /\ w.at = "console" /\ ~ToIndex(w)
  /\ wires' = (wires \ {w}) \union {[w EXCEPT !.at = "agent"]}
  /\ threads' = [threads EXCEPT ![w.conv] = Append(@, w.turn)]
  /\ UNCHANGED <<chat, mic, speech, search>>

Said(turn) == {[turn |-> turn, loop |-> mic.mode, stage |-> s] : s \in {"fetch", "voice"}}
(* speak(): the browser's voice takes the place of what it was saying; the *)
(* on-box voice is fetched, after what was being said is stopped.          *)
Silenced == {s \in speech : s.stage = "fetch"}
BrowserSays(s) == {r \in speech : r.stage # "voice"} \union {s}

Answerable(w) == w.at = "agent" \/ ToIndex(w)
Busy == \* (variant) what is thought about is not given up when the answer is no answer
  TRUE
Settled == FALSE
Reply(w, reply) ==
  /\ w \in wires /\ w.what = "send" /\ Answerable(w) /\ (ToIndex(w) => reply = "good")
  /\ wires' = wires \ {w}
  /\ \/ /\ reply # "malformed"
        /\ chat' = [chat EXCEPT !.lines = Append(@, Line("assistant", w.turn)), !.loading = FALSE]
        /\ \/ (~w.spoken \/ reply = "empty") /\ UNCHANGED speech
           \/ /\ w.spoken /\ reply # "empty"
              /\ \E s \in Said(w.turn) :
                   speech' = IF s.stage = "fetch" THEN Silenced \union {s} ELSE BrowserSays(s)
     \/ reply = "malformed" /\ chat' = [chat EXCEPT !.error = TRUE, !.loading = Settled] /\ UNCHANGED speech
  /\ UNCHANGED <<threads, mic, search>>

ProbeReply(w, reply) ==
  /\ w \in wires /\ w.what = "probe" /\ w.at = "agent"
  /\ wires' = wires \ {w}
  /\ IF Coherent(reply)
     THEN chat' = [chat EXCEPT !.lines = @ \o <<Line("user", w.turn), Line("assistant", w.turn)>>,
                               !.probe = "pass"]
     ELSE chat' = [chat EXCEPT !.probe = "fail"]
  /\ UNCHANGED <<threads, mic, speech, search>>

(* The agent refuses, is not reached, or takes longer than 300 s.          *)
Fail(w) ==
  /\ w \in wires
  /\ wires' = wires \ {w}
  /\ chat' = IF w.what = "probe" THEN [chat EXCEPT !.probe = "fail"]
             ELSE [chat EXCEPT !.error = TRUE, !.loading = Settled]
  /\ UNCHANGED <<threads, mic, speech, search>>

(* clear(): the next question begins another conversation.                 *)
SameThread == \* (variant) the conversation id outlives the transcript
  chat.conv
NewThread == 0
Clear ==
  /\ chat.lines # <<>> /\ chat.clears < MaxClears
  /\ chat' = [chat EXCEPT !.lines = <<>>, !.error = FALSE, !.conv = NewThread, !.clears = @ + 1,
                          !.since = chat.turns]
  /\ UNCHANGED <<wires, threads, mic, speech, search>>

--------------------------------------------------------------------------------
(* startListening: one recognizer; the one before is aborted.              *)
KeepBoth(r) == \* (variant) the recognizer before is left open
  mic.open \union {r}
Opened(r) == {r}
Listener(how) == [how |-> how, lines |-> IF how = "click" THEN chat.lines ELSE <<>>]
Listen ==
  /\ ~chat.loading /\ ~mic.listening
  /\ mic' = [mic EXCEPT !.open = Opened(Listener("click"))]
  /\ UNCHANGED <<chat, wires, threads, speech, search>>
Started ==
  /\ mic.open # {} /\ mic' = [mic EXCEPT !.listening = TRUE]
  /\ UNCHANGED <<chat, wires, threads, speech, search>>
(* onend or onerror, of this recognizer or late of the aborted one.        *)
Ended ==
  /\ mic' = [mic EXCEPT !.listening = FALSE, !.open = {}]
  /\ UNCHANGED <<chat, wires, threads, speech, search>>
EndedLate ==
  /\ mic.listening /\ mic' = [mic EXCEPT !.listening = FALSE]
  /\ UNCHANGED <<chat, wires, threads, speech, search>>

(* onresult: the clicked send() sees the transcript of its render and an   *)
(* idle page; the loop's sees the page as it is, and drops what it hears   *)
(* while the page is busy, with the flag up.                               *)
Heard(r, ask) ==
  /\ r \in mic.open /\ mic.listening /\ mic.heard < MaxTurns
  /\ \/ /\ r.how = "click" /\ Asked(r.lines, ask, TRUE)
        /\ mic' = [mic EXCEPT !.flag = FlagAfter(TRUE), !.heard = @ + 1]
     \/ /\ r.how = "loop" /\ ~chat.loading /\ Asked(chat.lines, ask, TRUE)
        /\ mic' = [mic EXCEPT !.flag = FlagAfter(TRUE), !.heard = @ + 1]
     \/ /\ r.how = "loop" /\ chat.loading
        /\ mic' = [mic EXCEPT !.flag = TRUE, !.heard = @ + 1]
        /\ UNCHANGED <<chat, wires>>
  /\ UNCHANGED <<threads, speech, search>>
Mode ==
  /\ mic' = [mic EXCEPT !.mode = ~@]
  /\ UNCHANGED <<chat, wires, threads, speech, search>>

(* The fetched clip plays, or the browser's voice says it instead.         *)
Fetched(s) ==
  /\ s \in speech /\ s.stage = "fetch"
  /\ \/ speech' = (speech \ {s}) \union {[s EXCEPT !.stage = "clip"]}
     \/ speech' = {r \in speech : r.stage # "voice" /\ r # s} \union {[s EXCEPT !.stage = "voice"]}
  /\ UNCHANGED <<chat, wires, threads, mic, search>>
Spoken(s) ==
  /\ s \in speech /\ s.stage # "fetch"
  /\ speech' = speech \ {s}
  /\ mic' = IF s.loop THEN [mic EXCEPT !.open = Opened(Listener("loop"))] ELSE mic
  /\ UNCHANGED <<chat, wires, threads, search>>

--------------------------------------------------------------------------------
(* The search page: the form and the examples are not usable while a       *)
(* search runs.                                                            *)
AnyTime == \* (variant) the form stays usable
  TRUE
CanSearch == search.pending = {}
Search ==
  /\ CanSearch /\ search.runs < MaxTurns
  /\ search' = [search EXCEPT !.asked = search.runs + 1, !.pending = @ \union {search.runs + 1},
                              !.hits = 0, !.searched = TRUE, !.runs = @ + 1]
  /\ UNCHANGED <<chat, wires, threads, mic, speech>>
Found(q) ==
  /\ q \in search.pending
  /\ \E hits \in {0, q} : search' = [search EXCEPT !.pending = @ \ {q}, !.hits = hits]
  /\ UNCHANGED <<chat, wires, threads, mic, speech>>

(* One of the two pages is open.                                           *)
Next ==
  \/ /\ ~search.here
     /\ \/ \E ask \in Asks : Send(ask) \/ \E r \in mic.open : Heard(r, ask)
        \/ \E w \in wires :
             Route(w) \/ Fail(w) \/ \E reply \in Replies : Reply(w, reply) \/ ProbeReply(w, reply)
        \/ Probe \/ Clear \/ Listen \/ Started \/ Ended \/ EndedLate \/ Mode
        \/ \E s \in speech : Fetched(s) \/ Spoken(s)
  \/ search.here /\ (Search \/ \E q \in search.pending : Found(q))

Spec == Init /\ [][Next]_vars

--------------------------------------------------------------------------------
TypeOK ==
  /\ chat.turns \in 0 .. MaxTurns /\ chat.conv \in {0} \union Convs /\ chat.loading \in BOOLEAN
  /\ \A w \in wires : w.at \in {"console", "agent"} /\ w.conv \in Convs
  /\ \A s \in speech : s.stage \in {"fetch", "clip", "voice"}
  /\ search.asked \in 0 .. MaxTurns

(* page.tsx, clear(): the agent's thread of the page's conversation holds  *)
(* no turn asked before the transcript was last cleared.                   *)
ClearedStaysOut ==
  chat.conv # 0 => \A i \in DOMAIN threads[chat.conv] : threads[chat.conv][i] > chat.since

(* page.tsx: the page waits only for an exchange that is under way.        *)
ThinkingIsReal == chat.loading => \E w \in wires : w.what = "send"

(* page.tsx: at most as many answers are spoken, or to be spoken, as       *)
(* questions were heard.                                                   *)
SpokenWereAsked ==
  Cardinality({w.turn : w \in {x \in wires : x.spoken}} \union {s.turn : s \in speech}) <= mic.heard

(* use-voice.ts: one recognizer at a time; the browser's voice says one    *)
(* thing at a time.                                                        *)
OneRecognizer ==
  /\ Cardinality(mic.open) <= 1
  /\ Cardinality({s \in speech : s.stage = "voice"}) <= 1

(* page.tsx: the probe passes only on a coherent answer, and the console's *)
(* readers never see the agent's own address or follow an unsafe link.     *)
OnlySoundAnswers ==
  /\ \A reply \in Replies : Coherent(reply) => reply \notin {"canned", "short", "empty"}
  /\ \A u \in Urls, tag \in {"img", "a"} :
       Element(tag, Rewritten(u)) # "text" =>
         u.scheme # "script" /\ ~(Rewritten(u).scheme = "http" /\ u.host = "agent")

(* search/page.tsx: the hits on the page are those of the last question.   *)
HitsAreOfTheQuestion == search.hits \in {0, search.asked}
================================================================================
