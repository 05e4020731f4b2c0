----------------------------- MODULE AnsweringParts ----------------------------
(***************************************************************************)
(* The parts that answer the operator: clips and media, the chat and the   *)
(* agent's configuration.  What each is given stands in a record of its    *)
(* constants.                                                              *)
(***************************************************************************)
EXTENDS PartRegisters, Integers, FiniteSets, Sequences

CONSTANTS FootageGiven, MediaGiven, ChatGiven, AgentGiven

(* What is given to a part: bounds are numbers, a player gives up after    *)
(* more than one try (ClipPlayer.tsx), and what the comment on a constant  *)
(* says of it holds.                                                       *)
ASSUME AgentAssumption == AgentGiven.MaxTurns \in Nat
ASSUME ChatAssumption == ChatGiven.MaxTurns \in Nat /\ ChatGiven.MaxClears \in Nat
ASSUME FootageAssumption ==
  /\ IsFiniteSet(FootageGiven.Clips) /\ FootageGiven.Clips # {}
  /\ \A c \in FootageGiven.Clips : c.ts \in Int /\ c.end \in Int
  /\ \A l \in FootageGiven.VstLists : IsList(l)
  /\ FootageGiven.Ttl \in Nat /\ FootageGiven.MaxBytes \in Nat /\ FootageGiven.MaxMishaps \in Nat
ASSUME MediaAssumption ==
  /\ MediaGiven.Statuses \subseteq {"pending", "none", "ready", "failed"}
  /\ \A s \in MediaGiven.Sources :
       s.form \in {"own", "path", "no scheme", "foreign"} /\ IsList(s.path)
  /\ \A tl \in MediaGiven.Timelines : \A s \in DOMAIN tl : tl[s] \in Seq([start : Int, stop : Int])
  /\ MediaGiven.ProbedAt \in Int /\ MediaGiven.MaxRetries \in Nat \ {0, 1} /\ MediaGiven.Ttl \in Nat

Footage == INSTANCE ClipCache WITH
  vst <- v1, cache <- v2, job <- v3, answer <- v4, rest <- v5, Clips <- FootageGiven.Clips,
  VstLists <- FootageGiven.VstLists, Jobs <- FootageGiven.Jobs, Ttl <- FootageGiven.Ttl,
  MaxBytes <- FootageGiven.MaxBytes, MaxMishaps <- FootageGiven.MaxMishaps,
  MaxRequests <- FootageGiven.MaxRequests
Media == INSTANCE MediaViews WITH
  view <- v1, player <- v2, live <- v3, still <- v4, probe <- v5,
  Statuses <- MediaGiven.Statuses, Sources <- MediaGiven.Sources,
  Timelines <- MediaGiven.Timelines, ProbedAt <- MediaGiven.ProbedAt, MaxRetries <- MediaGiven.MaxRetries,
  Ttl <- MediaGiven.Ttl
Chat == INSTANCE ChatAgent WITH
  chat <- v1, wires <- v2, threads <- v3, mic <- v4, speech <- v5, search <- v6,
  MaxTurns <- ChatGiven.MaxTurns, MaxClears <- ChatGiven.MaxClears
Agent == INSTANCE AgentConfig WITH
  cluster <- v1, runs <- v2, form <- v3, req <- v4, turns <- v5, Users <- AgentGiven.Users,
  MaxTurns <- AgentGiven.MaxTurns
================================================================================
