---------------------------- MODULE ServiceParts -----------------------------
(***************************************************************************)
(* The services and pages of the console, beside the recovery of           *)
(* recordings: each shares no state with the others and a behaviour is one *)
(* of one part.                                                            *)
(***************************************************************************)
EXTENDS RecordingRecovery, WatchingParts, ServingParts, AnsweringParts

all == <<part, vars, registers>>

--------------------------------------------------------------------------------
PartsInit ==
  /\ Init
  /\ \/ part = "recovery" /\ From1
     \/ part = "streams" /\ Streams!Init /\ From3
     \/ part = "feed" /\ Feed!Init /\ From6
     \/ part = "pipeline" /\ Pipeline!Init /\ From7
     \/ part = "topology" /\ Graph!Init /\ From6
     \/ part = "clips" /\ Footage!Init /\ From6
     \/ part = "media" /\ Media!Init /\ From6
     \/ part = "gpu" /\ Gpu!Init /\ From5
     \/ part = "storage" /\ Storage!Init /\ From6
     \/ part = "health" /\ Guards!Init /\ From6
     \/ part = "tuning" /\ Tuning!Init /\ From7
     \/ part = "chat" /\ Chat!Init /\ From7
     \/ part = "agent" /\ Agent!Init /\ From6
     \/ part = "secrets" /\ Secrets!Init /\ From8
     \/ part = "overview" /\ Home!Init /\ From8
     \/ part = "diagnostics" /\ Doctor!Init /\ From7
     \/ part = "evidence" /\ Vault!Init /\ From9
     \/ part = "transfer" /\ Transfer!Init
     \/ part = "reports" /\ Reports!Init /\ From7
     \/ part = "copies" /\ Copies!Init /\ From6
     \/ part = "race" /\ Race!Init /\ From4

(* A step of the part the behaviour is of.                                 *)
ServiceNext ==
  \/ part = "streams" /\ Streams!Next /\ Keeps3
  \/ part = "feed" /\ Feed!Next /\ Keeps6
  \/ part = "pipeline" /\ Pipeline!Next /\ Keeps7
  \/ part = "topology" /\ Graph!Next /\ Keeps6
  \/ part = "clips" /\ Footage!Next /\ Keeps6
  \/ part = "media" /\ Media!Next /\ Keeps6
  \/ part = "gpu" /\ Gpu!Next /\ Keeps5
  \/ part = "storage" /\ Storage!Next /\ Keeps6
  \/ part = "health" /\ Guards!Next /\ Keeps6
  \/ part = "tuning" /\ Tuning!Next /\ Keeps7
  \/ part = "chat" /\ Chat!Next /\ Keeps7
  \/ part = "agent" /\ Agent!Next /\ Keeps6
  \/ part = "secrets" /\ Secrets!Next /\ Keeps8
  \/ part = "overview" /\ Home!Next /\ Keeps8
  \/ part = "diagnostics" /\ Doctor!Next /\ Keeps7
  \/ part = "evidence" /\ Vault!Next /\ Keeps9
  \/ part = "transfer" /\ Transfer!Next
  \/ part = "reports" /\ Reports!Next /\ Keeps7
  \/ part = "copies" /\ Copies!Next /\ Keeps6
  \/ part = "race" /\ Race!Next /\ Keeps4

PartsNext ==
  /\ UNCHANGED part
  /\ \/ part = "recovery" /\ Next /\ UNCHANGED registers
     \/ part # "recovery" /\ UNCHANGED vars /\ ServiceNext

PartsSpec == PartsInit /\ [][PartsNext]_all

--------------------------------------------------------------------------------
(* Each part keeps to its types and to the limits the code sets: open      *)
(* consumers (sse.ts), banners (HighSeverityToast), recognizers            *)
(* (chat/page.tsx), deadlines (connectivity.ts), ages of cached probes and *)
(* of reports (error-bridge.ts); a view that waits is being served or says *)
(* that it failed.                                                         *)
PartsInBounds ==
  /\ Own("streams") => Streams!TypeOK /\ Streams!ConsumersCapped /\ Streams!LeaksOnlyFromStart
  /\ Own("feed") => Feed!TypeOK /\ Feed!BannersCapped
  /\ Own("pipeline") => Pipeline!TypeOK
  /\ Own("topology") => Graph!TypeOK /\ Graph!NeverBlind
  /\ Own("clips") => Footage!TypeOK
  /\ Own("media") => Media!TypeOK /\ Media!PendingIsNotLost
  /\ Own("gpu") => Gpu!TypeOK /\ Gpu!RemoteAges
  /\ Own("storage") => Storage!TypeOK
  /\ Own("health") => Guards!TypeOK
  /\ Own("tuning") => Tuning!TypeOK
  /\ Own("chat") => Chat!TypeOK /\ Chat!OneRecognizer
  /\ Own("agent") => Agent!TypeOK
  /\ Own("secrets") => Secrets!TypeOK
  /\ Own("overview") => Home!TypeOK
  /\ Own("diagnostics") => Doctor!TypeOK /\ Doctor!BudgetsHold /\ Doctor!SpinningEnds
  /\ Own("evidence") => Vault!TypeOK
  /\ Own("transfer") => Transfer!TypeOK
  /\ Own("reports") => Reports!TypeOK /\ Reports!MapIsSwept
  /\ Own("copies") => Copies!TypeOK
  /\ Own("race") => Race!TypeOK

(* What a page shows agrees with the other figures made of the same        *)
(* answers and with what was there to be found: a worst pod, a sum, a      *)
(* verdict or a blamed link; and what is not known is not shown as zero,   *)
(* idle or calm.                                                           *)
FiguresAgree ==
  /\ Own("pipeline") => Pipeline!WorstPodShows
  /\ Own("topology") => Graph!CamerasOnce /\ Graph!NoDanglingEdge /\ Graph!LayoutSeparates
  /\ Own("gpu") => Gpu!AllocationAddsUp /\ Gpu!ExclusiveMeansWhole /\ Gpu!VerdictIsMonotone
  /\ Own("storage") => Storage!CountIsClose /\ Storage!PanelKnowsItsFigures
  /\ Own("health") => /\ Guards!SurfacesAgree /\ Guards!SilenceIsNotIdle
                      /\ Guards!SampleIsNewest /\ Guards!PercentilesAreGaps
  /\ Own("overview") => Home!NoFalseZero /\ Home!CalmIsEarned /\ Home!CountsAgree /\ Home!IngestingAreKnown
  /\ Own("tuning") => Tuning!CooldownNeverShortens
  /\ Own("agent") => Agent!EnvNamedOnce
  /\ Own("diagnostics") => Doctor!BlameIsExplained /\ Doctor!DriftIsBlamed
  /\ Own("race") => Race!RaceIsFair /\ Race!GrowthIsSeen

(* When one step of several fails, the answer, the audit log or the page   *)
(* says which, and what is called done, verified, whole or empty is.       *)
FailuresAreNamed ==
  /\ Own("tuning") => Tuning!LostIsNamed /\ Tuning!FormsSendWhatRoutesTake
  /\ Own("secrets") => Secrets!ReadersFollow /\ Secrets!RotationsAreNoted /\ Secrets!HalvesAreNamed
  /\ Own("diagnostics") => Doctor!ResultsAreNoted
  /\ Own("evidence") => Vault!VerdictsAreEarned /\ Vault!EmptyIsExplained /\ Vault!WarningsAreWhole
  /\ Own("transfer") => Transfer!VerifiedMeansCopied /\ Transfer!EmptyCopyWasEmpty
  /\ Own("copies") => Copies!NoCopyOfAnOutage

(* An answer is that of the question, the clip, the stream, the incident   *)
(* or the store it is given for, also when answers come late, out of       *)
(* order, from a cache or after a restart.                                 *)
AnswersBelong ==
  /\ Own("clips") => Footage!ServedIsFresh /\ Footage!HalvesComeOfMishaps /\ Footage!AsksTheRightStream
  /\ Own("media") => Media!OnlyStorageIsFetched /\ Media!ProbesALiveStream
  /\ Own("chat") => /\ Chat!ClearedStaysOut /\ Chat!ThinkingIsReal /\ Chat!SpokenWereAsked
                    /\ Chat!OnlySoundAnswers /\ Chat!HitsAreOfTheQuestion
  /\ Own("evidence") => Vault!SealedStays /\ Vault!ProbesNeverStray
  /\ Own("transfer") => Transfer!UpgradesKeepTheStore /\ Transfer!ReplacesWhole

(* A save writes what it was asked to and leaves alone what others hold:   *)
(* the other keys of a document, the other writer's fields, text that is   *)
(* being typed, a list that is not empty, a stored report, a newer clip;   *)
(* and none begins while the box is away or before it is noted.            *)
SavesKeepOthersStep ==
  /\ Own("tuning") => Tuning!MapStep /\ Tuning!SaveStep /\ Tuning!TypedStep
  /\ Own("agent") => Agent!WriteStep /\ Agent!AnswerStep /\ Agent!ProbeStep
  /\ Own("secrets") => Secrets!BeginStep
  /\ Own("overview") => Home!RevealStep
  /\ Own("evidence") => Vault!ReuseStep
  /\ Own("transfer") => Transfer!FillStep
  /\ Own("clips") => Footage!EvictStep
  /\ Own("copies") => Copies!SignedStep /\ Copies!ExtrasStep
SavesKeepOthers == [][SavesKeepOthersStep]_all

(* What is announced, sampled or refreshed is new: an incident is          *)
(* announced once, a failure is reported, and once in a while, a rate is   *)
(* of what came since the sample before, a cached answer or a failed scan  *)
(* is not asked again before its time, and an older answer never replaces  *)
(* a newer one.                                                            *)
OnlyNewsIsToldStep ==
  /\ Own("feed") => Feed!NewsStep /\ Feed!StaysStep
  /\ Own("pipeline") => Pipeline!PutRateStep /\ Pipeline!RateStep
  /\ Own("gpu") => Gpu!MissingStep /\ Gpu!RemoteStep
  /\ Own("storage") => Storage!BackoffStep /\ Storage!BaseStep
  /\ Own("health") => Guards!PreflightStep /\ Guards!NewestStep
  /\ Own("reports") => Reports!SpacedStep /\ Reports!ToldStep
OnlyNewsIsTold == [][OnlyNewsIsToldStep]_all
================================================================================
