---------------------------- MODULE WatchingProofs -----------------------------
(***************************************************************************)
(* What is proved of the parts that watch: each keeps an invariant of its  *)
(* own, for every value of what it is given, and what it promises follows  *)
(* from it.  The variables of a part are v1, v2, ... in the order          *)
(* WatchingParts gives them to it.                                         *)
(***************************************************************************)
EXTENDS WatchingParts, FiniteSetTheorems, WellFoundedInduction, TLAPS

--------------------------------------------------------------------------------
(* The KV-cache race (lib/kvcache.ts): v1 the model and its bucket, v2 the *)
(* races, v3 the faults.                                                   *)

LEMMA RaceCounts == \A S : Race!Cardinality(S) = Cardinality(S)
BY DEF Race!Cardinality, Cardinality

Contestants == RaceGiven.Races
RaceSteps   == {"idle", "before", "cold", "pause", "warm", "done", "failed"}
RaceRecords == [step : RaceSteps, nonce : Race!Prompts, waited : 0 .. RaceGiven.Pause,
                before : 0 .. Cardinality(Race!Prompts), after : 0 .. Cardinality(Race!Prompts),
                cold : {"none", "hit", "miss"}, warm : {"none", "hit", "miss"}, blind : BOOLEAN]

(* The types in full.                                                      *)
RaceTyped ==
  /\ v1 \in [served : [Race!Prompts -> -1 .. RaceGiven.Offload], bucket : SUBSET Race!Prompts]
  /\ v2 \in [Contestants -> RaceRecords]
  /\ v3 \in 0 .. RaceGiven.MaxFaults

(* A race sends its own prompt, which nobody has sent before it does; the  *)
(* blocks are in the bucket before the pause is over unless something      *)
(* expired; and the bucket had no fewer other blocks when they were        *)
(* counted than it has now.                                                *)
RaceFits(r, c, m) ==
  /\ c.step \notin {"idle", "failed"} => c.nonce = r
  /\ c.step \in {"idle", "before", "cold"} => m.served[r] = -1 /\ r \notin m.bucket
  /\ c.step \in {"idle", "before", "cold"} => c.waited = 0
  /\ c.step = "pause" /\ ~c.blind => \/ r \in m.bucket
                                     \/ m.served[r] = c.waited
  /\ c.step \in {"warm", "done"} /\ ~c.blind => r \in m.bucket
  /\ c.step \in {"cold", "pause"} /\ ~c.blind => c.before <= Cardinality(m.bucket \ {r})
  /\ c.step \in {"warm", "done"} /\ ~c.blind => c.before < c.after
  /\ c.cold # "hit"
  /\ c.step = "done" /\ ~c.blind => c.warm = "hit"
RaceInv == RaceTyped /\ \A r \in Contestants : RaceFits(r, v2[r], v1)

LEMMA RacePromises == RaceInv => Race!TypeOK /\ Race!RaceIsFair /\ Race!GrowthIsSeen
BY RaceCounts DEF RaceInv, RaceTyped, RaceFits, RaceRecords, RaceSteps, Contestants, Race!TypeOK,
   Race!RaceIsFair, Race!GrowthIsSeen

LEMMA PromptsFinite ==
  /\ IsFiniteSet(Race!Prompts)
  /\ \A S \in SUBSET Race!Prompts :
       IsFiniteSet(S) /\ Cardinality(S) \in 0 .. Cardinality(Race!Prompts)
<1>1. IsFiniteSet(Race!Prompts)
  BY RaceAssumption, FS_AddElement DEF Race!Prompts
<1> QED  BY <1>1, FS_Subset, FS_CardinalityType

(* The blocks of the others are no fewer when a block lands.               *)
LEMMA OthersGrow ==
  ASSUME NEW S \in SUBSET Race!Prompts, NEW p \in Race!Prompts, NEW r
  PROVE  Cardinality(S \ {r}) <= Cardinality((S \union {p}) \ {r})
<1>1. S \ {r} \subseteq (S \union {p}) \ {r} /\ (S \union {p}) \ {r} \in SUBSET Race!Prompts
  OBVIOUS
<1> QED  BY <1>1, PromptsFinite, FS_Subset

LEMMA RaceStart == Race!Init => RaceInv
<1> SUFFICES ASSUME Race!Init PROVE RaceInv
  OBVIOUS
<1>1. RaceTyped
  BY RaceAssumption, PromptsFinite
     DEF Race!Init, RaceTyped, RaceRecords, RaceSteps, Race!Waiting, Race!Prompts, Contestants
<1>2. ASSUME NEW r \in Contestants PROVE RaceFits(r, v2[r], v1)
  BY <1>2, RaceAssumption DEF Race!Init, RaceFits, Race!Waiting, Race!Prompts, Contestants
<1> QED  BY <1>1, <1>2 DEF RaceInv

(* A step that leaves a race alone leaves its prompt unsent, its blocks    *)
(* where they are and their number to grow.                                *)
LEMMA RaceStays ==
  ASSUME RaceInv, RaceTyped', NEW r \in Contestants, v2'[r] = v2[r],
         v1.served[r] = v1'.served[r], r \in v1.bucket <=> r \in v1'.bucket,
         v1.bucket \subseteq v1'.bucket
  PROVE  RaceFits(r, v2[r], v1)'
<1>1. Cardinality(v1.bucket \ {r}) <= Cardinality(v1'.bucket \ {r})
  <2>1. v1.bucket \ {r} \subseteq v1'.bucket \ {r} /\ v1'.bucket \ {r} \in SUBSET Race!Prompts
    BY DEF RaceTyped
  <2> QED  BY <2>1, PromptsFinite, FS_Subset
<1>2. /\ Cardinality(v1.bucket \ {r}) \in Nat /\ Cardinality(v1'.bucket \ {r}) \in Nat
      /\ v2[r].before \in Nat
  <2>1. v1.bucket \ {r} \in SUBSET Race!Prompts /\ v1'.bucket \ {r} \in SUBSET Race!Prompts
    BY DEF RaceInv, RaceTyped
  <2>2. Cardinality(Race!Prompts) \in Nat
    BY PromptsFinite, FS_CardinalityType
  <2> QED  BY <2>1, <2>2, PromptsFinite DEF RaceInv, RaceTyped, RaceRecords
<1> QED  BY <1>1, <1>2 DEF RaceInv, RaceFits

LEMMA RaceStep == ASSUME RaceInv, [Race!Next]_(Race!vars) PROVE RaceInv'
<1> USE RaceAssumption DEF RaceInv
<1>a. /\ v1.served \in [Race!Prompts -> -1 .. RaceGiven.Offload]
      /\ v1.bucket \in SUBSET Race!Prompts
      /\ v1 = [served |-> v1.served, bucket |-> v1.bucket]
      /\ Contestants \subseteq Race!Prompts
      /\ \A r \in Contestants : v2[r] \in RaceRecords
  BY DEF RaceTyped, Race!Prompts, Contestants
<1>b. /\ Cardinality(v1.bucket) \in 0 .. Cardinality(Race!Prompts)
      /\ Cardinality(Race!Prompts) \in Nat
      /\ Race!Objects = Cardinality(v1.bucket)
      /\ 0 \in 0 .. Cardinality(Race!Prompts) /\ 0 \in 0 .. RaceGiven.Pause
  BY <1>a, RaceCounts, PromptsFinite, FS_CardinalityType DEF Race!Objects
<1>1. CASE UNCHANGED Race!vars
  BY <1>1 DEF Race!vars, RaceTyped
<1>2. ASSUME NEW p \in Race!Prompts, Race!Land(p) PROVE RaceInv'
  <2>1. /\ v1'.bucket = v1.bucket \union {p} /\ v1'.served = v1.served
        /\ v2' = v2 /\ v3' = v3 /\ v1.served[p] # -1
        /\ v1' = [served |-> v1.served, bucket |-> v1.bucket \union {p}]
    BY <1>2, <1>a DEF Race!Land
  <2>2. RaceTyped'
    BY <2>1, <1>a DEF RaceTyped
  <2>3. ASSUME NEW r \in Contestants PROVE RaceFits(r, v2[r], v1)'
    <3>1. CASE r # p
      BY <3>1, <2>1, <2>2, RaceStays DEF RaceTyped
    <3>2. CASE r = p
      <4>1. v1'.bucket \ {r} = v1.bucket \ {r}
        BY <3>2, <2>1
      <4> QED  BY <4>1, <3>2, <2>1 DEF RaceFits
    <3> QED  BY <3>1, <3>2
  <2> QED  BY <2>2, <2>3
<1>3. ASSUME NEW p \in Race!Prompts, Race!Expire(p) PROVE RaceInv'
  <2>1. /\ v1'.bucket = v1.bucket \ {p} /\ v1'.served = [v1.served EXCEPT ![p] = -1]
        /\ v1' = [served |-> [v1.served EXCEPT ![p] = -1], bucket |-> v1.bucket \ {p}]
        /\ v2' = [r \in Contestants |-> [v2[r] EXCEPT !.blind = TRUE]]
        /\ v3 < RaceGiven.MaxFaults /\ v3' = v3 + 1
    BY <1>3 DEF Race!Expire, Race!Fault, Contestants
  <2>2. \A r \in Contestants : [v2[r] EXCEPT !.blind = TRUE] \in RaceRecords
    BY <1>a DEF RaceRecords
  <2>3. RaceTyped'
    BY <2>1, <2>2, <1>a DEF RaceTyped
  <2>4. ASSUME NEW r \in Contestants PROVE RaceFits(r, v2[r], v1)'
    <3>1. v2'[r].blind /\ \A f \in {"step", "nonce", "waited", "cold"} : v2'[r][f] = v2[r][f]
      BY <2>1, <1>a DEF RaceRecords
    <3> QED  BY <3>1, <2>1, <1>a DEF RaceFits
  <2> QED  BY <2>3, <2>4
<1>4. CASE Race!Tick
  <2>1. /\ v1'.bucket = v1.bucket /\ v3' = v3
        /\ v1'.served = [p \in Race!Prompts |-> IF v1.served[p] \in 0 .. RaceGiven.Offload - 1
                                                THEN v1.served[p] + 1 ELSE v1.served[p]]
        /\ v1' = [served |-> v1'.served, bucket |-> v1.bucket]
        /\ \A p \in Race!Prompts : v1.served[p] = RaceGiven.Offload => p \in v1.bucket
    BY <1>4, <1>a DEF Race!Tick
  <2>2. \A r \in Contestants : v2'[r] = IF v2[r].step = "pause" /\ v2[r].waited < RaceGiven.Pause
                                        THEN [v2[r] EXCEPT !.waited = v2[r].waited + 1] ELSE v2[r]
    BY <1>4 DEF Race!Tick, Contestants
  <2>3. RaceTyped'
    <3>1. v2' \in [Contestants -> RaceRecords]
      <4>1. \A r \in Contestants : v2'[r] \in RaceRecords
        <5> SUFFICES ASSUME NEW r \in Contestants PROVE v2'[r] \in RaceRecords
          OBVIOUS
        <5>1. v2[r].waited < RaceGiven.Pause => v2[r].waited + 1 \in 0 .. RaceGiven.Pause
          BY <1>a DEF RaceRecords
        <5>2. \A w \in 0 .. RaceGiven.Pause : [v2[r] EXCEPT !.waited = w] \in RaceRecords
          BY <1>a DEF RaceRecords
        <5> QED  BY <5>1, <5>2, <2>2, <1>a
      <4> QED  BY <4>1, <1>4 DEF Race!Tick, Contestants
    <3> QED  BY <3>1, <2>1, <1>a DEF RaceTyped
  <2>4. ASSUME NEW r \in Contestants PROVE RaceFits(r, v2[r], v1)'
    <3>1. CASE v2[r].step = "pause"
      <4>1. v2'[r].step = "pause" /\ v2'[r].blind = v2[r].blind /\ v2'[r].before = v2[r].before
            /\ v2'[r].cold = v2[r].cold /\ v2'[r].nonce = v2[r].nonce
        BY <2>2, <3>1, <1>a DEF RaceRecords
      <4>2. ASSUME r \notin v1.bucket, ~v2[r].blind PROVE v1'.served[r] = v2'[r].waited
        <5>1. v1.served[r] = v2[r].waited /\ v1.served[r] \in 0 .. RaceGiven.Offload - 1
          BY <4>2, <3>1, <2>1, <1>a DEF RaceFits, RaceRecords
        <5>2. v2[r].waited < RaceGiven.Pause
          BY <5>1
        <5>3. v1'.served[r] = v1.served[r] + 1
          BY <5>1, <2>1, <1>a
        <5>4. v2'[r].waited = v2[r].waited + 1
          BY <5>2, <3>1, <2>2, <1>a DEF RaceRecords
        <5> QED  BY <5>1, <5>3, <5>4
      <4> QED  BY <4>1, <4>2, <3>1, <2>1 DEF RaceFits
    <3>2. CASE v2[r].step # "pause"
      <4>1. v2'[r] = v2[r]
        BY <3>2, <2>2
      <4>2. v1.served[r] = -1 => v1'.served[r] = -1
        BY <2>1, <1>a
      <4> QED  BY <3>2, <4>1, <4>2, <2>1 DEF RaceFits
    <3> QED  BY <3>1, <3>2
  <2> QED  BY <2>3, <2>4
<1>5. ASSUME NEW r \in Contestants,
             \/ Race!Begin(r) \/ Race!CountBefore(r) \/ Race!Cold(r)
             \/ Race!CountAfter(r) \/ Race!Warm(r) \/ Race!Fails(r)
      PROVE  RaceInv'
  <2>1. /\ v2' = [v2 EXCEPT ![r] = v2'[r]] /\ v3' \in 0 .. RaceGiven.MaxFaults
    <3>1. v3' \in 0 .. RaceGiven.MaxFaults
      BY <1>5 DEF Race!Begin, Race!CountBefore, Race!Cold, Race!CountAfter, Race!Warm, Race!Fails,
                  Race!Fault, RaceTyped
    <3>2. v2' = [v2 EXCEPT ![r] = v2'[r]]
      BY <1>5 DEF Race!Begin, Race!CountBefore, Race!Cold, Race!CountAfter, Race!Warm, Race!Fails,
                  RaceTyped
    <3> QED  BY <3>1, <3>2
  <2> DEFINE Sent == [served |-> [v1.served EXCEPT ![r] = 0], bucket |-> v1.bucket]
             Goal == /\ v2'[r] \in RaceRecords /\ RaceFits(r, v2'[r], v1')
                     /\ v1' = v1 \/ v1' = Sent
  <2>a. v2[r] \in RaceRecords /\ RaceFits(r, v2[r], v1) /\ v2 \in [Contestants -> RaceRecords]
    BY DEF RaceTyped
  <2>2. Goal
    <3>1. CASE Race!Begin(r)
      <4>1. v2'[r] = [Race!Waiting EXCEPT !.step = "before", !.nonce = r] /\ v1' = v1
        BY <3>1, <2>a DEF Race!Begin, Race!Nonce
      <4>2. v2'[r] \in RaceRecords
        <5>1. v2'[r] = [step |-> "before", nonce |-> r, waited |-> 0, before |-> 0, after |-> 0,
                        cold |-> "none", warm |-> "none", blind |-> FALSE]
          BY <4>1 DEF Race!Waiting
        <5> HIDE DEF RaceInv
        <5> QED  BY <5>1, <1>a, <1>b DEF RaceRecords, RaceSteps
      <4> QED  BY <4>1, <4>2, <3>1, <2>a DEF Race!Begin, Race!Waiting, RaceFits
    <3>2. CASE Race!CountBefore(r)
      <4>1. v1' = v1 /\ v2[r].step = "before" /\ r \notin v1.bucket
        BY <3>2, <2>a DEF Race!CountBefore, RaceFits
      <4>5. Cardinality(v1.bucket \ {r}) = Cardinality(v1.bucket)
        BY <4>1, <1>a, PromptsFinite, FS_RemoveElement
      <4>2. \/ v2'[r] = [v2[r] EXCEPT !.step = "cold", !.before = Cardinality(v1.bucket)]
            \/ v2'[r] = [v2[r] EXCEPT !.step = "cold", !.before = 0, !.blind = TRUE]
        BY <3>2, <2>a, <1>b DEF Race!CountBefore
      <4>3. v2'[r] \in RaceRecords
        <5>1. \A n \in 0 .. Cardinality(Race!Prompts) :
                /\ [v2[r] EXCEPT !.step = "cold", !.before = n] \in RaceRecords
                /\ [v2[r] EXCEPT !.step = "cold", !.before = n, !.blind = TRUE] \in RaceRecords
          BY <2>a DEF RaceRecords, RaceSteps
        <5> HIDE DEF RaceInv
        <5> QED  BY <5>1, <4>2, <1>b, Zenon
      <4>4. /\ v2'[r].step = "cold" /\ v2'[r].nonce = v2[r].nonce /\ v2'[r].waited = v2[r].waited
            /\ v2'[r].cold = v2[r].cold
            /\ v2'[r].blind \/ v2'[r].before = Cardinality(v1.bucket)
        <5> HIDE DEF RaceInv
        <5> QED  BY ONLY <4>2, <2>a DEF RaceRecords
      <4> QED  BY <4>1, <4>3, <4>4, <4>5, <2>a, <1>b DEF RaceFits
    <3>3. CASE Race!Cold(r)
      <4>1. v2'[r] = [v2[r] EXCEPT !.step = "pause", !.cold = "miss"]
        BY <3>3, <2>a DEF Race!Cold, Race!There, RaceFits
      <4>2. v1' = Sent
        BY <3>3, <2>a, <1>a DEF Race!Cold, Race!Answered, RaceFits
      <4>3. v2'[r] \in RaceRecords
        BY <4>1, <2>a DEF RaceRecords, RaceSteps
      <4>4. /\ v2'[r].step = "pause" /\ v2'[r].nonce = r /\ v2'[r].waited = 0
            /\ v2'[r].cold = "miss" /\ v2'[r].blind = v2[r].blind
            /\ v2'[r].before = v2[r].before /\ v2[r].step = "cold"
        BY <3>3, <4>1, <2>a DEF Race!Cold, RaceFits, RaceRecords
      <4>5. v1'.bucket = v1.bucket /\ v1'.served[r] = 0
        BY <4>2, <1>a
      <4> QED  BY <4>2, <4>3, <4>4, <4>5, <2>a DEF RaceFits
    <3>4. CASE Race!CountAfter(r)
      <4>1. v1' = v1 /\ v2[r].step = "pause" /\ v2[r].waited = RaceGiven.Pause
        BY <3>4, <2>a DEF Race!CountAfter, Race!Rested, RaceRecords
      <4>2. \/ v2'[r] = [v2[r] EXCEPT !.step = "warm", !.after = Cardinality(v1.bucket)]
            \/ v2'[r] = [v2[r] EXCEPT !.step = "warm", !.after = 0, !.blind = TRUE]
        BY <3>4, <2>a, <1>b DEF Race!CountAfter
      <4>3. v2'[r] \in RaceRecords
        <5>1. \A n \in 0 .. Cardinality(Race!Prompts) :
                /\ [v2[r] EXCEPT !.step = "warm", !.after = n] \in RaceRecords
                /\ [v2[r] EXCEPT !.step = "warm", !.after = n, !.blind = TRUE] \in RaceRecords
          BY <2>a DEF RaceRecords, RaceSteps
        <5> HIDE DEF RaceInv
        <5> QED  BY <5>1, <4>2, <1>b, Zenon
      <4>4. ~v2[r].blind => r \in v1.bucket
        BY <4>1, <2>a, <1>a DEF RaceFits
      <4>5. r \in v1.bucket => Cardinality(v1.bucket \ {r}) = Cardinality(v1.bucket) - 1
        BY <1>a, PromptsFinite, FS_RemoveElement
      <4>6. /\ v2'[r].step = "warm" /\ v2'[r].nonce = v2[r].nonce /\ v2'[r].cold = v2[r].cold
            /\ v2'[r].before = v2[r].before /\ (~v2'[r].blind => ~v2[r].blind)
            /\ v2'[r].blind \/ v2'[r].after = Cardinality(v1.bucket)
            /\ v2[r].before \in Nat
        <5>1. v2[r].before \in Nat /\ v2[r].blind \in BOOLEAN
          BY <2>a, <1>b DEF RaceRecords
        <5>2. CASE v2'[r] = [v2[r] EXCEPT !.step = "warm", !.after = Cardinality(v1.bucket)]
          BY <5>1, <5>2, <2>a DEF RaceRecords
        <5>3. CASE v2'[r] = [v2[r] EXCEPT !.step = "warm", !.after = 0, !.blind = TRUE]
          BY <5>1, <5>3, <2>a DEF RaceRecords
        <5> QED  BY <4>2, <5>2, <5>3
      <4>7. ~v2'[r].blind => v2[r].before < Cardinality(v1.bucket)
        BY <4>1, <4>4, <4>5, <4>6, <2>a, <1>b DEF RaceFits
      <4> QED  BY <4>1, <4>3, <4>4, <4>6, <4>7, <2>a DEF RaceFits
    <3>5. CASE Race!Warm(r)
      <4>1. v2'[r] = [v2[r] EXCEPT !.step = "done",
                                   !.warm = IF r \in v1.bucket THEN "hit" ELSE "miss"]
        BY <3>5, <2>a DEF Race!Warm, RaceFits
      <4>2. v1' = v1 \/ v1' = Sent
        BY <3>5, <2>a, <1>a DEF Race!Warm, Race!Answered, RaceFits
      <4>3. v2'[r] \in RaceRecords
        BY <4>1, <2>a DEF RaceRecords, RaceSteps
      <4> QED  BY <3>5, <4>1, <4>2, <4>3, <2>a, <1>a DEF Race!Warm, RaceFits, RaceRecords
    <3>6. CASE Race!Fails(r)
      <4>1. v2'[r] = [v2[r] EXCEPT !.step = "failed"] /\ v1' = v1
        BY <3>6, <2>a DEF Race!Fails
      <4>2. v2'[r] \in RaceRecords
        BY <4>1, <2>a DEF RaceRecords, RaceSteps
      <4> QED  BY <3>6, <4>1, <4>2, <2>a DEF RaceFits, RaceRecords
    <3> QED  BY <1>5, <3>1, <3>2, <3>3, <3>4, <3>5, <3>6
  <2>3. v1' = v1 \/ v1' = Sent
    BY <2>2
  <2>4. RaceTyped'
    BY <2>1, <2>2, <2>3, <1>a DEF RaceTyped
  <2>5. ASSUME NEW q \in Contestants PROVE RaceFits(q, v2[q], v1)'
    <3>1. CASE q = r
      BY <3>1, <2>1, <2>2 DEF RaceTyped
    <3>2. CASE q # r
      BY <3>2, <2>1, <2>3, <2>4, <1>a, RaceStays DEF RaceTyped
    <3> QED  BY <3>1, <3>2
  <2> QED  BY <2>4, <2>5
<1> QED
  BY <1>1, <1>2, <1>3, <1>4, <1>5 DEF Race!Next, Contestants

--------------------------------------------------------------------------------
(* The event streams (lib/streams/sse.ts, kafka-sse.ts): v1 the            *)
(* connections, v2 whether the process was told to end.                    *)

LEMMA StreamCounts == \A S : Streams!Cardinality(S) = Cardinality(S)
BY DEF Streams!Cardinality, Cardinality

Clients     == StreamsGiven.Conns
Connections == [kind : Streams!Kinds \union {"none"}, here : BOOLEAN,
                at : {"none", "open", "over"} \union Streams!Starting,
                noticed : {"no", "starting", "open"},
                beats : BOOLEAN, cleanup : BOOLEAN, held : BOOLEAN]

(* What a connection waits for says what it is for; one that is open can   *)
(* be cleaned up; and one that is gone, with no heartbeat left, went while *)
(* it was starting, unless it left nothing behind.                         *)
StreamKinds(r) ==
  /\ r.at = "none" => r.kind = "none" /\ ~r.held /\ ~r.beats /\ ~r.cleanup
  /\ r.at \in {"connect", "subscribe", "run"} => r.kind = "topic"
  /\ r.at = "prime" => r.kind = "incidents"
  /\ r.at = "attach" => r.kind = "logs"
  /\ r.at = "open" => r.cleanup
  /\ r.at = "over" /\ r.held => r.kind = "topic"
StreamGone(r) ==
  /\ r.at \in Streams!Starting /\ ~r.here /\ ~r.beats => r.noticed = "starting"
  /\ r.at = "open" /\ ~r.here /\ ~r.beats /\ r.held => r.noticed = "starting"
StreamFits(r) == StreamKinds(r) /\ StreamGone(r)
StreamsInv == /\ Streams!TypeOK /\ Streams!ConsumersCapped
              /\ \A c \in Clients : StreamFits(v1[c])

LEMMA StreamsPromise == StreamsInv => Streams!ConsumersCapped /\ Streams!LeaksOnlyFromStart
BY DEF StreamsInv, StreamFits, StreamKinds, StreamGone, Streams!LeaksOnlyFromStart, Clients

LEMMA StreamsStart == Streams!Init => StreamsInv
<1> SUFFICES ASSUME Streams!Init PROVE StreamsInv
  OBVIOUS
<1>1. Streams!TypeOK
  BY DEF Streams!Init, Streams!TypeOK, Streams!Unmade, Streams!Kinds, Streams!Starting
<1>2. \A c \in Clients : StreamFits(v1[c])
  BY DEF Streams!Init, StreamFits, StreamKinds, StreamGone, Clients, Streams!Unmade, Streams!Starting
<1>3. Streams!ActiveConsumers = {}
  BY DEF Streams!ActiveConsumers, Streams!Init, Streams!Unmade
<1> QED
  BY <1>1, <1>2, <1>3, StreamCounts, FS_EmptySet, StreamsAssumption
     DEF StreamsInv, Streams!ConsumersCapped

RoundCounted(r) == r.kind = "topic" /\ r.held

(* A connection that is replaced by one that fits keeps the cap, if it is  *)
(* not counted anew or there is a place left.                              *)
LEMMA ConnectionSet ==
  ASSUME StreamsInv, NEW c \in Clients, NEW r \in Connections, StreamFits(r),
         Streams!Set(c, r), v2' \in BOOLEAN,
         \/ RoundCounted(r) => RoundCounted(v1[c])
         \/ Cardinality(Streams!ActiveConsumers) < StreamsGiven.MaxConsumers
  PROVE  StreamsInv'
<1> DEFINE A == Streams!ActiveConsumers
           B == Streams!ActiveConsumers'
<1>1. v1 \in [Clients -> Connections] /\ v1' = [v1 EXCEPT ![c] = r]
  BY DEF StreamsInv, Streams!TypeOK, Streams!Set, Clients, Connections
<1>2. Streams!TypeOK' /\ \A d \in Clients : StreamFits(v1[d])'
  BY <1>1 DEF StreamsInv, Streams!TypeOK, Clients, Connections, StreamFits
<1>3. IsFiniteSet(Clients) /\ StreamsGiven.MaxConsumers \in Nat /\ A \in SUBSET Clients
      /\ B \subseteq A \union {c} /\ A \union {c} \in SUBSET Clients
  BY <1>1, StreamsAssumption DEF Streams!ActiveConsumers, Clients
<1>4. IsFiniteSet(A) /\ Cardinality(A) \in Nat /\ Cardinality(A) <= StreamsGiven.MaxConsumers
  BY <1>3, FS_Subset, FS_CardinalityType, StreamCounts DEF StreamsInv, Streams!ConsumersCapped
<1>5. CASE RoundCounted(r) => RoundCounted(v1[c])
  <2>1. B \in SUBSET A
    BY <1>1, <1>5 DEF Streams!ActiveConsumers, RoundCounted, Clients
  <2>2. Cardinality(B) <= Cardinality(A) /\ Cardinality(B) \in Nat
    BY <2>1, <1>4, FS_Subset, FS_CardinalityType
  <2> QED  BY <2>2, <1>2, <1>3, <1>4, StreamCounts DEF StreamsInv, Streams!ConsumersCapped
<1>6. CASE Cardinality(A) < StreamsGiven.MaxConsumers
  <2>1. IsFiniteSet(A \union {c}) /\ Cardinality(A \union {c}) <= Cardinality(A) + 1
    <3>1. /\ IsFiniteSet(A \union {c})
          /\ Cardinality(A \union {c}) = IF c \in A THEN Cardinality(A) ELSE Cardinality(A) + 1
      BY <1>4, FS_AddElement
    <3> QED  BY <3>1, <1>4
  <2>2. Cardinality(B) <= Cardinality(A \union {c}) /\ Cardinality(B) \in Nat
    BY <2>1, <1>3, FS_Subset, FS_CardinalityType
  <2>3. Cardinality(A \union {c}) \in Nat
    BY <2>1, FS_CardinalityType
  <2> QED
    BY <2>1, <2>2, <2>3, <1>2, <1>3, <1>4, <1>6, StreamCounts
       DEF StreamsInv, Streams!ConsumersCapped
<1> QED  BY <1>5, <1>6

(* stop: what it leaves fits, and holds no more than there was.            *)
LEMMA StopFits ==
  ASSUME NEW r \in Connections, StreamKinds(r), r.at # "none"
  PROVE  /\ Streams!Stop(r) \in Connections /\ StreamFits(Streams!Stop(r))
         /\ RoundCounted(Streams!Stop(r)) => RoundCounted(r)
<1> DEFINE s == Streams!Stop(r)
<1>1. s \in Connections
  BY DEF Streams!Stop, Connections, Streams!Starting
<1>2. /\ s.at = r.at /\ s.kind = r.kind /\ s.cleanup = r.cleanup /\ s.here = r.here
      /\ s.noticed = IF r.at \in Streams!Starting THEN "starting" ELSE "open"
  BY DEF Streams!Stop, Connections
<1>3. ~s.beats /\ (s.held <=> r.held /\ ~r.cleanup)
  BY DEF Streams!Stop, Connections
<1> QED  BY <1>1, <1>2, <1>3 DEF StreamFits, StreamKinds, StreamGone, Streams!Starting, RoundCounted

(* A stream that failed: closed, its consumer's place maybe kept.          *)
LEMMA FailedFits ==
  ASSUME NEW r \in Connections, r.held => r.kind = "topic"
  PROVE  /\ Streams!Failed(r) \in Connections /\ StreamFits(Streams!Failed(r))
         /\ RoundCounted(Streams!Failed(r)) => RoundCounted(r)
<1> DEFINE s == Streams!Failed(r)
<1>1. s \in Connections
  BY DEF Streams!Failed, Streams!Stop, Connections, Streams!Starting
<1>2. s.at = "over" /\ s.kind = r.kind
  BY DEF Streams!Failed, Streams!Stop, Connections
<1>3. s.held <=> r.held /\ ~r.cleanup
  BY DEF Streams!Failed, Streams!Stop, Connections
<1> QED  BY <1>1, <1>2, <1>3 DEF StreamFits, StreamKinds, StreamGone, Streams!Starting, RoundCounted

LEMMA OpenFits ==
  ASSUME StreamsInv, NEW c \in Clients, Streams!Open(c) PROVE StreamsInv'
<1>1. v1[c] \in Connections /\ v1[c].at = "none" /\ StreamKinds(v1[c])
  BY DEF StreamsInv, Streams!TypeOK, Clients, Connections, StreamFits, Streams!Open,
         Streams!OpenTopic, Streams!OpenIncidents, Streams!OpenLog, Streams!OpenPipeline
<1>2. v2' \in BOOLEAN
  BY DEF StreamsInv, Streams!TypeOK, Streams!Open, Streams!OpenTopic, Streams!OpenIncidents,
         Streams!OpenLog, Streams!OpenPipeline
<1>b. StreamsGiven.MaxConsumers \in Nat /\ Cardinality(Streams!ActiveConsumers) \in Nat
  <2>1. Streams!ActiveConsumers \in SUBSET Clients
    BY DEF Streams!ActiveConsumers, Clients
  <2> QED  BY <2>1, StreamsAssumption, FS_Subset, FS_CardinalityType DEF Clients
<1>3. ASSUME NEW k \in Streams!Kinds
      PROVE  /\ Streams!Opened(c, k) \in Connections /\ Streams!Opened(c, k).kind = k
             /\ Streams!Opened(c, k).beats /\ ~Streams!Opened(c, k).held
             /\ Streams!Opened(c, k).here = v1[c].here
  BY <1>1 DEF Streams!Opened, Connections, StreamKinds
<1> USE DEF StreamFits, StreamKinds, StreamGone, RoundCounted
<1>4. CASE Streams!OpenTopic(c)
  <2> DEFINE q == Streams!Opened(c, "topic")
             r == [q EXCEPT !.at = "connect", !.held = TRUE]
  <2>1. q \in Connections /\ q.kind = "topic" /\ q.beats /\ ~q.held
    BY <1>3 DEF Streams!Kinds
  <2> HIDE DEF q
  <2>2. r \in Connections /\ r.at = "connect" /\ r.kind = "topic" /\ r.beats
    BY <2>1 DEF Connections, Streams!Starting
  <2>3. CASE Cardinality(Streams!ActiveConsumers) < StreamsGiven.MaxConsumers
    <3>1. Streams!Set(c, r)
      BY <1>4, <2>3, <1>b, StreamCounts DEF Streams!OpenTopic, q
    <3>2. StreamFits(r)
      BY <2>2
    <3> HIDE DEF r
    <3> QED  BY <2>2, <2>3, <3>1, <3>2, <1>2, ConnectionSet
  <2>4. CASE ~(Cardinality(Streams!ActiveConsumers) < StreamsGiven.MaxConsumers)
    <3>1. Streams!Set(c, Streams!Failed(q))
      BY <1>4, <2>4, <1>b, StreamCounts DEF Streams!OpenTopic, q
    <3> QED  BY <2>1, <3>1, <1>2, ConnectionSet, FailedFits
  <2> QED  BY <2>3, <2>4
<1>5. CASE Streams!OpenIncidents(c)
  <2> DEFINE q == Streams!Opened(c, "incidents")
             r == [q EXCEPT !.at = "prime"]
  <2>1. q \in Connections /\ q.kind = "incidents" /\ q.beats /\ ~q.held
    BY <1>3 DEF Streams!Kinds
  <2>2. Streams!Set(c, r)
    BY <1>5 DEF Streams!OpenIncidents
  <2> HIDE DEF q
  <2>3. r \in Connections /\ r.at = "prime" /\ r.kind = "incidents" /\ r.beats
    BY <2>1 DEF Connections, Streams!Starting
  <2> HIDE DEF r
  <2>4. StreamFits(r) /\ ~RoundCounted(r)
    BY <2>3
  <2> QED  BY <2>2, <2>3, <2>4, <1>2, ConnectionSet
<1>6. CASE Streams!OpenLog(c)
  <2> DEFINE q == Streams!Opened(c, "logs")
             r == [q EXCEPT !.at = "attach"]
  <2>1. q \in Connections /\ q.kind = "logs" /\ q.beats /\ ~q.held
    BY <1>3 DEF Streams!Kinds
  <2>2. Streams!Set(c, r)
    BY <1>6 DEF Streams!OpenLog
  <2> HIDE DEF q
  <2>3. r \in Connections /\ r.at = "attach" /\ r.kind = "logs" /\ r.beats
    BY <2>1 DEF Connections, Streams!Starting
  <2> HIDE DEF r
  <2>4. StreamFits(r) /\ ~RoundCounted(r)
    BY <2>3
  <2> QED  BY <2>2, <2>3, <2>4, <1>2, ConnectionSet
<1>7. CASE Streams!OpenPipeline(c)
  <2> DEFINE q == Streams!Opened(c, "pipeline")
             r == [q EXCEPT !.at = "open", !.cleanup = TRUE, !.held = v1[c].here]
  <2>1. q \in Connections /\ q.kind = "pipeline" /\ q.beats /\ v1[c].here \in BOOLEAN
    BY <1>1, <1>3 DEF Streams!Kinds, Connections
  <2>2. Streams!Set(c, r)
    BY <1>7 DEF Streams!OpenPipeline
  <2> HIDE DEF q
  <2>3. r \in Connections /\ r.at = "open" /\ r.kind = "pipeline" /\ r.beats /\ r.cleanup
    BY <2>1 DEF Connections
  <2> HIDE DEF r
  <2>4. StreamFits(r) /\ ~RoundCounted(r)
    BY <2>3 DEF Streams!Starting
  <2> QED  BY <2>2, <2>3, <2>4, <1>2, ConnectionSet
<1> QED
  BY <1>4, <1>5, <1>6, <1>7 DEF Streams!Open

(* The awaits of a producer, the end of a log, and the client's leaving.   *)
LEMMA ProceedFits ==
  ASSUME StreamsInv, NEW c \in Clients,
         Streams!Proceed(c) \/ Streams!LogEnds(c) \/ Streams!Leave(c)
  PROVE  StreamsInv'
<1> DEFINE p == v1[c]
<1>1. p \in Connections /\ StreamFits(p) /\ StreamKinds(p)
  BY DEF StreamsInv, Streams!TypeOK, Clients, Connections, StreamFits
<1>2. v2' \in BOOLEAN
  BY DEF StreamsInv, Streams!TypeOK, Streams!Proceed, Streams!Connects, Streams!Subscribes,
         Streams!Consumes, Streams!Primes, Streams!Attaches, Streams!Beat, Streams!LogEnds,
         Streams!Leave
<1>3. ASSUME NEW r \in Connections, StreamFits(r), RoundCounted(r) => RoundCounted(p), Streams!Set(c, r)
      PROVE  StreamsInv'
  BY <1>2, <1>3, ConnectionSet
<1> HIDE DEF p
<1>4. CASE Streams!Connects(c)
  <2> DEFINE r == [p EXCEPT !.at = "subscribe"]
             q == [p EXCEPT !.held = FALSE]
  <2>1. \/ Streams!Set(c, r)
        \/ Streams!Set(c, Streams!Failed(q))
    BY <1>4 DEF Streams!Connects, p
  <2>2. r \in Connections /\ StreamFits(r) /\ (RoundCounted(r) => RoundCounted(p))
    <3>1. /\ r \in Connections /\ r.at = "subscribe" /\ r.kind = p.kind /\ r.here = p.here
          /\ r.beats = p.beats /\ r.noticed = p.noticed /\ r.held = p.held /\ p.at = "connect"
      BY <1>1, <1>4 DEF Connections, Streams!Starting, Streams!Connects, p
    <3> HIDE DEF r
    <3> QED  BY <1>1, <3>1 DEF StreamFits, StreamKinds, StreamGone, RoundCounted, Streams!Starting
  <2>3. q \in Connections /\ ~q.held
    BY <1>1 DEF Connections
  <2> HIDE DEF r, q
  <2>4. Streams!Failed(q) \in Connections /\ StreamFits(Streams!Failed(q)) /\ ~RoundCounted(Streams!Failed(q))
    BY <2>3, FailedFits DEF RoundCounted
  <2> QED  BY <2>1, <2>2, <2>4, <1>3
<1>5. CASE Streams!Subscribes(c)
  <2> DEFINE r == [p EXCEPT !.at = "run"]
  <2>1. \/ Streams!Set(c, r) /\ p.at = "subscribe"
        \/ Streams!Set(c, Streams!Failed(p)) /\ p.at \in {"subscribe", "run"}
    BY <1>5 DEF Streams!Subscribes, p
  <2>2. ASSUME p.at = "subscribe"
        PROVE  r \in Connections /\ StreamFits(r) /\ (RoundCounted(r) => RoundCounted(p))
    <3>1. /\ r \in Connections /\ r.at = "run" /\ r.kind = p.kind /\ r.here = p.here
          /\ r.beats = p.beats /\ r.noticed = p.noticed /\ r.held = p.held
      BY <1>1 DEF Connections, Streams!Starting
    <3> HIDE DEF r
    <3> QED  BY <1>1, <2>2, <3>1 DEF StreamFits, StreamKinds, StreamGone, RoundCounted, Streams!Starting
  <2> HIDE DEF r
  <2>3. p.at \in {"subscribe", "run"} => p.kind = "topic"
    BY <1>1 DEF StreamKinds
  <2> QED  BY <2>1, <2>2, <2>3, <1>1, <1>3, FailedFits
<1>6. CASE Streams!Consumes(c)
  <2> DEFINE r == [p EXCEPT !.at = "open", !.cleanup = TRUE]
  <2>1. Streams!Set(c, r) /\ p.at = "run"
    BY <1>6 DEF Streams!Consumes, p
  <2>2. /\ r \in Connections /\ r.at = "open" /\ r.kind = p.kind /\ r.here = p.here
        /\ r.beats = p.beats /\ r.noticed = p.noticed /\ r.held = p.held /\ r.cleanup
    BY <1>1 DEF Connections
  <2> HIDE DEF r
  <2>3. StreamFits(r) /\ (RoundCounted(r) => RoundCounted(p))
    BY <1>1, <2>1, <2>2 DEF StreamFits, StreamKinds, StreamGone, RoundCounted, Streams!Starting
  <2> QED  BY <2>1, <2>2, <2>3, <1>3
<1>7. CASE Streams!Primes(c)
  <2> DEFINE r == [p EXCEPT !.at = "open", !.cleanup = TRUE, !.held = TRUE]
  <2>1. Streams!Set(c, r) /\ p.at = "prime"
    BY <1>7 DEF Streams!Primes, p
  <2>2. /\ r \in Connections /\ r.at = "open" /\ r.kind = p.kind /\ r.here = p.here
        /\ r.beats = p.beats /\ r.noticed = p.noticed /\ r.cleanup
    BY <1>1 DEF Connections
  <2> HIDE DEF r
  <2>3. StreamFits(r) /\ ~RoundCounted(r)
    BY <1>1, <2>1, <2>2 DEF StreamFits, StreamKinds, StreamGone, RoundCounted, Streams!Starting
  <2> QED  BY <2>1, <2>2, <2>3, <1>3
<1>8. CASE Streams!Attaches(c)
  <2> DEFINE r(ok) == [p EXCEPT !.at = "open", !.cleanup = TRUE, !.held = ok]
  <2>1. PICK ok \in BOOLEAN : Streams!Set(c, r(ok)) /\ p.at = "attach"
    BY <1>8 DEF Streams!Attaches, p
  <2>2. /\ r(ok) \in Connections /\ r(ok).at = "open" /\ r(ok).kind = p.kind /\ r(ok).here = p.here
        /\ r(ok).beats = p.beats /\ r(ok).noticed = p.noticed /\ r(ok).cleanup
    BY <1>1 DEF Connections
  <2> HIDE DEF r
  <2>3. StreamFits(r(ok)) /\ ~RoundCounted(r(ok))
    BY <1>1, <2>1, <2>2 DEF StreamFits, StreamKinds, StreamGone, RoundCounted, Streams!Starting
  <2> QED  BY <2>1, <2>2, <2>3, <1>3
<1>9. CASE Streams!LogEnds(c)
  <2> DEFINE r == [p EXCEPT !.held = FALSE]
  <2>1. Streams!Set(c, r) /\ p.at = "open"
    BY <1>9 DEF Streams!LogEnds, p
  <2>2. r \in Connections /\ r.at = p.at /\ r.cleanup = p.cleanup /\ ~r.held
    BY <1>1 DEF Connections
  <2> HIDE DEF r
  <2>3. StreamFits(r) /\ ~RoundCounted(r)
    BY <1>1, <2>1, <2>2 DEF StreamFits, StreamKinds, StreamGone, RoundCounted, Streams!Starting
  <2> QED  BY <2>1, <2>2, <2>3, <1>3
<1>10. CASE Streams!Beat(c)
  <2>1. Streams!Set(c, Streams!Stop(p)) /\ p.at # "none"
    BY <1>1, <1>10 DEF Streams!Beat, p, StreamKinds
  <2> QED  BY <2>1, <1>1, <1>3, StopFits
<1>11. CASE Streams!Leave(c)
  <2> DEFINE r == [p EXCEPT !.here = FALSE]
  <2>1. Streams!Set(c, IF p.at = "none" THEN r ELSE Streams!Stop(r))
    BY <1>11 DEF Streams!Leave, p
  <2>2. /\ r \in Connections /\ r.at = p.at /\ r.kind = p.kind /\ r.held = p.held
        /\ r.cleanup = p.cleanup /\ r.beats = p.beats /\ r.noticed = p.noticed
    BY <1>1 DEF Connections
  <2> HIDE DEF r
  <2>3. StreamKinds(r) /\ (RoundCounted(r) <=> RoundCounted(p))
    BY <1>1, <2>2 DEF StreamKinds, RoundCounted
  <2>4. r.at = "none" => StreamFits(r)
    BY <2>3 DEF StreamFits, StreamGone, Streams!Starting
  <2> QED  BY <2>1, <2>2, <2>3, <2>4, <1>3, StopFits
<1> QED
  BY <1>4, <1>5, <1>6, <1>7, <1>8, <1>9, <1>10, <1>11 DEF Streams!Proceed

LEMMA StreamsStep == ASSUME StreamsInv, [Streams!Next]_(Streams!vars) PROVE StreamsInv'
<1>1. CASE UNCHANGED Streams!vars
  BY <1>1 DEF Streams!vars, StreamsInv, Streams!TypeOK, Streams!ConsumersCapped,
              Streams!ActiveConsumers, StreamFits, StreamKinds, StreamGone
<1>2. CASE Streams!Drain
  <2> DEFINE r(c) == [v1[c] EXCEPT !.held = v1[c].held /\ v1[c].kind # "topic"]
  <2>1. v1 \in [Clients -> Connections] /\ v1' = [c \in Clients |-> r(c)] /\ v2' = TRUE
    BY <1>2 DEF StreamsInv, Streams!TypeOK, Streams!Drain, Clients, Connections
  <2>2. ASSUME NEW c \in Clients PROVE r(c) \in Connections /\ StreamFits(r(c)) /\ ~RoundCounted(r(c))
    <3>1. v1[c] \in Connections /\ StreamFits(v1[c])
      BY <2>1 DEF StreamsInv
    <3>2. r(c) \in Connections
      BY <3>1 DEF Connections
    <3>3. /\ r(c).at = v1[c].at /\ r(c).kind = v1[c].kind /\ r(c).noticed = v1[c].noticed
          /\ r(c).here = v1[c].here /\ r(c).beats = v1[c].beats /\ r(c).cleanup = v1[c].cleanup
      BY <3>1 DEF Connections
    <3>4. r(c).held => v1[c].held /\ v1[c].kind # "topic"
      BY <3>1 DEF Connections
    <3> HIDE DEF r
    <3> QED
      BY <3>1, <3>2, <3>3, <3>4 DEF StreamFits, StreamKinds, StreamGone, RoundCounted, Connections
  <2> HIDE DEF r
  <2>3. Streams!TypeOK' /\ \A c \in Clients : StreamFits(v1'[c]) /\ ~RoundCounted(v1'[c])
    BY <2>1, <2>2 DEF Streams!TypeOK, Clients, Connections
  <2>4. Streams!ActiveConsumers' = {}
    BY <2>3 DEF Streams!ActiveConsumers, RoundCounted, Clients
  <2> QED
    BY <2>3, <2>4, StreamCounts, FS_EmptySet, StreamsAssumption
       DEF StreamsInv, Streams!ConsumersCapped
<1>3. ASSUME NEW c \in Clients, Streams!Open(c) PROVE StreamsInv'
  BY <1>3, OpenFits
<1>4. ASSUME NEW c \in Clients, Streams!Proceed(c) \/ Streams!LogEnds(c) \/ Streams!Leave(c)
      PROVE  StreamsInv'
  BY <1>4, ProceedFits
<1> QED
  BY <1>1, <1>2, <1>3, <1>4 DEF Streams!Next, Clients

--------------------------------------------------------------------------------
(* The error bridge (lib/error-bridge.ts): v1 whether it has started, v2   *)
(* the containers, v3 the counts last seen, v4 the dedupe maps, v5 the     *)
(* poll, v6 what was told and what is owed.                                *)

ReportsAges == 0 .. Reports!MaxAge
Pasts == [told : [Reports!Reports -> -1 .. Reports!MaxAge], now : SUBSET Reports!Reports,
          owed : SUBSET ReportsGiven.Containers, known : SUBSET ReportsGiven.Containers,
          events : Nat]

(* The types in full.                                                      *)
BoxTyped  == v2 \in [ReportsGiven.Containers -> [restarts : 0 .. ReportsGiven.MaxRestarts, waits : BOOLEAN]]
SeenTyped == v3 \in [ReportsGiven.Containers -> -1 .. ReportsGiven.MaxRestarts]
MapTyped  == DOMAIN v4 \in SUBSET Reports!Reports /\ v4 \in [DOMAIN v4 -> ReportsAges]
PollTyped == v5 \in [at : 0 .. Len(ReportsGiven.Namespaces), since : 0 .. ReportsGiven.Interval]
PastTyped == v6 \in Pasts

(* The maps hold the age of the last report, of every report younger than  *)
(* the window.                                                             *)
MapIsTold ==
  /\ \A k \in DOMAIN v4 : v4[k] = v6.told[k]
  /\ \A r \in Reports!Reports : Reports!Recent(v6.told[r]) => r \in DOMAIN v4

(* Between ticks an entry is younger than the window was at the last sweep *)
(* and what has passed; in a tick, an interval more.                       *)
SweptSince == ReportsGiven.Window + v5.since + (IF v5.at = 0 THEN 0 ELSE ReportsGiven.Interval)
MapIsYoung == \A k \in DOMAIN v4 : k.kind # "error" => v4[k] < SweptSince
NotStarted == ~v1 => DOMAIN v4 = {} /\ v5.at = 0

(* What was listed has a count no higher than its own, and what is owed a  *)
(* report, a lower one.                                                    *)
Owing ==
  /\ \A c \in v6.known : v3[c] # -1 /\ v3[c] <= v2[c].restarts
  /\ \A c \in v6.owed : c \in v6.known /\ v3[c] < v2[c].restarts

ReportsInv ==
  /\ v1 \in BOOLEAN /\ BoxTyped /\ SeenTyped /\ MapTyped /\ PollTyped /\ PastTyped
  /\ MapIsTold /\ MapIsYoung /\ NotStarted /\ Owing

LEMMA ReportsPromise == ReportsInv => Reports!TypeOK /\ Reports!MapIsSwept
<1> USE ReportsAssumption
<1> SUFFICES ASSUME ReportsInv PROVE Reports!TypeOK /\ Reports!MapIsSwept
  OBVIOUS
<1>1. Reports!TypeOK
  BY DEF ReportsInv, BoxTyped, SeenTyped, MapTyped, PollTyped, Reports!TypeOK, Reports!Key
<1>2. Reports!MapIsSwept
  <2>1. SweptSince <= Reports!MaxAge
    BY DEF ReportsInv, PollTyped, SweptSince, Reports!MaxAge
  <2>2. SweptSince \in Nat /\ Reports!MaxAge \in Nat /\ \A k \in DOMAIN v4 : v4[k] \in Nat
    BY DEF ReportsInv, PollTyped, SweptSince, Reports!MaxAge, MapTyped, ReportsAges
  <2> QED  BY <2>1, <2>2 DEF ReportsInv, MapIsYoung, Reports!MapIsSwept
<1> QED  BY <1>1, <1>2

LEMMA ReportsStart == Reports!Init => ReportsInv
<1> SUFFICES ASSUME Reports!Init PROVE ReportsInv
  OBVIOUS
<1> USE ReportsAssumption DEF Reports!Init
<1>0. Reports!MaxAge \in Nat /\ DOMAIN v4 = {}
  BY DEF Reports!MaxAge
<1>1. v1 \in BOOLEAN /\ BoxTyped /\ SeenTyped /\ PollTyped
  <2>1. v1 \in BOOLEAN
    BY ONLY Reports!Init DEF Reports!Init
  <2>4. PollTyped
    BY DEF PollTyped
  <2>2. BoxTyped
    BY DEF BoxTyped
  <2>3. SeenTyped
    <3>1. -1 \in -1 .. ReportsGiven.MaxRestarts
      OBVIOUS
    <3> QED  BY <3>1 DEF SeenTyped
  <2> QED  BY <2>1, <2>2, <2>3, <2>4
<1>2. PastTyped
  BY <1>0 DEF PastTyped, Pasts
<1>3. MapTyped /\ MapIsYoung /\ NotStarted /\ MapIsTold
  BY <1>0 DEF MapTyped, MapIsYoung, NotStarted, MapIsTold, ReportsAges, Reports!Recent
<1>4. Owing
  BY DEF Owing
<1> QED  BY <1>1, <1>2, <1>3, <1>4 DEF ReportsInv

(* What capturing reports makes of the maps: those that were not told      *)
(* within the window are told now, and all of them are young after it.     *)
CapturedFits(R, out) ==
  /\ out.now \in SUBSET R /\ \A r \in out.now : ~Reports!Recent(v6.told[r])
  /\ out.told \in [Reports!Reports -> -1 .. Reports!MaxAge]
  /\ DOMAIN out.map = DOMAIN v4 \union out.now /\ out.map \in [DOMAIN out.map -> ReportsAges]
  /\ \A k \in DOMAIN out.map : /\ out.map[k] = IF k \in out.now THEN 0 ELSE v4[k]
                               /\ out.map[k] = out.told[k]
  /\ \A r \in Reports!Reports : Reports!Recent(out.told[r]) => r \in DOMAIN out.map
  /\ \A r \in R : Reports!Recent(out.told[r])

LEMMA CapturedHolds ==
  ASSUME MapTyped, PastTyped, MapIsTold, NEW R \in SUBSET Reports!Reports
  PROVE  CapturedFits(R, Reports!Captured(R))
<1> USE ReportsAssumption
<1> DEFINE out   == Reports!Captured(R)
           fresh == {r \in R : ~Reports!ShouldSuppress(r)}
<1>1. {Reports!Key(r) : r \in fresh} = fresh
  BY DEF Reports!Key
<1>2. /\ out.now = fresh
      /\ out.map = [k \in DOMAIN v4 \union fresh |-> IF k \in fresh THEN 0 ELSE v4[k]]
      /\ out.told = [r \in Reports!Reports |-> IF r \in fresh THEN 0 ELSE v6.told[r]]
  BY <1>1 DEF Reports!Captured
<1> HIDE DEF out
<1>3. Reports!MaxAge \in Nat /\ v6.told \in [Reports!Reports -> -1 .. Reports!MaxAge]
  BY DEF Reports!MaxAge, PastTyped, Pasts
<1>4. \A r \in R : r \in fresh <=> ~Reports!Recent(v6.told[r])
  BY <1>3 DEF Reports!ShouldSuppress, Reports!Key, Reports!Recent, MapIsTold, MapTyped, ReportsAges
<1>5. 0 \in ReportsAges /\ 0 \in -1 .. Reports!MaxAge /\ Reports!Recent(0) /\ fresh \subseteq R
  BY <1>3 DEF ReportsAges, Reports!Recent
<1> HIDE DEF fresh
<1>6. out.told \in [Reports!Reports -> -1 .. Reports!MaxAge]
  BY <1>2, <1>3, <1>5
<1>7. DOMAIN out.map = DOMAIN v4 \union out.now /\ out.map \in [DOMAIN out.map -> ReportsAges]
  BY <1>2, <1>5 DEF MapTyped
<1>8. \A k \in DOMAIN out.map : /\ out.map[k] = IF k \in out.now THEN 0 ELSE v4[k]
                               /\ out.map[k] = out.told[k]
  BY <1>2, <1>5, <1>7 DEF MapIsTold, MapTyped
<1>9. \A r \in Reports!Reports : Reports!Recent(out.told[r]) => r \in DOMAIN out.map
  BY <1>2, <1>7 DEF MapIsTold
<1>10. \A r \in R : Reports!Recent(out.told[r])
  BY <1>2, <1>4, <1>5
<1> QED
  BY <1>2, <1>4, <1>5, <1>6, <1>7, <1>8, <1>9, <1>10 DEF CapturedFits, out

(* A sweep drops no report younger than the window.                        *)
SweepFits(m, told, s) ==
  /\ DOMAIN s \in SUBSET DOMAIN m /\ s \in [DOMAIN s -> ReportsAges]
  /\ \A k \in DOMAIN s : s[k] = m[k] /\ (k.kind # "error" => s[k] < ReportsGiven.Window)
  /\ \A r \in Reports!Reports : Reports!Recent(told[r]) => r \in DOMAIN s

LEMMA SweepHolds ==
  ASSUME NEW m, NEW told, DOMAIN m \in SUBSET Reports!Reports, m \in [DOMAIN m -> ReportsAges],
         \A k \in DOMAIN m : m[k] = told[k],
         \A r \in Reports!Reports : Reports!Recent(told[r]) => r \in DOMAIN m
  PROVE  SweepFits(m, told, Reports!Sweep(m))
BY ReportsAssumption DEF Reports!Sweep, Reports!Recent, SweepFits

(* An event of the cluster changes no map and tells nothing.               *)
LEMMA MapsStay ==
  ASSUME ReportsInv, UNCHANGED <<v1, v3, v4>>, v6'.told = v6.told, v5'.at = v5.at,
         v5.since = v5'.since
  PROVE  MapTyped' /\ MapIsTold' /\ MapIsYoung' /\ NotStarted'
<1>1. MapTyped'
  BY DEF ReportsInv, MapTyped
<1>2. MapIsTold'
  BY DEF ReportsInv, MapIsTold
<1>3. MapIsYoung' /\ NotStarted'
  BY DEF ReportsInv, MapIsYoung, NotStarted, SweptSince
<1> QED  BY <1>1, <1>2, <1>3

LEMMA ClusterStep ==
  ASSUME ReportsInv, NEW c \in ReportsGiven.Containers,
         Reports!Restart(c) \/ Reports!Loop(c) \/ Reports!Recreate(c)
  PROVE  ReportsInv' /\ v6'.now = {} /\ v5' = v5
<1> USE ReportsAssumption
<1> DEFINE C == ReportsGiven.Containers
<1>1. /\ v6 \in Pasts /\ v1 \in BOOLEAN /\ SeenTyped /\ PollTyped
      /\ v2 \in [C -> [restarts : 0 .. ReportsGiven.MaxRestarts, waits : BOOLEAN]]
  BY DEF ReportsInv, PastTyped, BoxTyped
<1>2. UNCHANGED <<v1, v3, v4, v5>>
  BY DEF Reports!Restart, Reports!Loop, Reports!Recreate
<1>3. ASSUME NEW owed \in SUBSET C, NEW known \in SUBSET C,
             v6' = [[v6 EXCEPT !.owed = owed, !.known = known] EXCEPT !.events = @ + 1, !.now = {}]
      PROVE  v6' \in Pasts /\ v6'.told = v6.told /\ v6'.now = {}
             /\ v6'.owed = owed /\ v6'.known = known
  <2>1. /\ v6.events + 1 \in Nat /\ v6.told \in [Reports!Reports -> -1 .. Reports!MaxAge]
        /\ {} \in SUBSET Reports!Reports
    BY <1>1 DEF Pasts
  <2>2. v6' = [told |-> v6.told, now |-> {}, owed |-> owed, known |-> known,
               events |-> v6.events + 1]
    BY <1>1, <1>3 DEF Pasts
  <2> QED  BY <2>1, <2>2, <1>3 DEF Pasts
<1>4. CASE Reports!Restart(c)
  <2>1. v6' = [[v6 EXCEPT !.owed = v6.owed \union ({c} \intersect v6.known), !.known = v6.known]
                EXCEPT !.events = @ + 1, !.now = {}]
    BY <1>1, <1>4 DEF Reports!Restart, Reports!Past, Pasts
  <2>2. /\ v2[c].restarts + 1 \in 0 .. ReportsGiven.MaxRestarts
        /\ v2' = [v2 EXCEPT ![c] = [v2[c] EXCEPT !.restarts = v2[c].restarts + 1]]
    BY <1>1, <1>4 DEF Reports!Restart
  <2>3. BoxTyped'
    BY <1>1, <2>2 DEF BoxTyped
  <2>4. /\ v6' \in Pasts /\ v6'.told = v6.told /\ v6'.now = {} /\ v6'.known = v6.known
        /\ v6'.owed = v6.owed \union ({c} \intersect v6.known)
    <3>1. v6.owed \union ({c} \intersect v6.known) \in SUBSET C /\ v6.known \in SUBSET C
      BY <1>1 DEF Pasts
    <3> QED  BY <1>3, <2>1, <3>1
  <2>5. Owing'
    <3>1. \A d \in C : v2'[d].restarts = IF d = c THEN v2[c].restarts + 1 ELSE v2[d].restarts
      BY <1>1, <2>2
    <3>2. \A d \in C : v3[d] \in Int /\ v2[d].restarts \in Int
      BY <1>1 DEF SeenTyped
    <3>3. v6.owed \subseteq C /\ v6.known \subseteq C
      BY <1>1 DEF Pasts
    <3> QED  BY <1>2, <2>4, <3>1, <3>2, <3>3 DEF ReportsInv, Owing
  <2> QED
    BY <1>1, <1>2, <2>3, <2>4, <2>5, MapsStay DEF ReportsInv, SeenTyped, PollTyped, PastTyped
<1>5. CASE Reports!Loop(c)
  <2>1. v6' = [[v6 EXCEPT !.owed = v6.owed, !.known = v6.known] EXCEPT !.events = @ + 1, !.now = {}]
    BY <1>1, <1>5 DEF Reports!Loop, Reports!Past, Pasts
  <2>2. v2' = [v2 EXCEPT ![c] = [v2[c] EXCEPT !.waits = ~v2[c].waits]]
    BY <1>1, <1>5 DEF Reports!Loop
  <2>3. BoxTyped' /\ \A d \in C : v2'[d].restarts = v2[d].restarts
    BY <1>1, <2>2 DEF BoxTyped
  <2>4. /\ v6' \in Pasts /\ v6'.told = v6.told /\ v6'.now = {} /\ v6'.known = v6.known
        /\ v6'.owed = v6.owed
    <3>1. v6.owed \in SUBSET C /\ v6.known \in SUBSET C
      BY <1>1 DEF Pasts
    <3> QED  BY <1>3, <2>1, <3>1
  <2>5. Owing'
    <3>1. v6.owed \subseteq C /\ v6.known \subseteq C
      BY <1>1 DEF Pasts
    <3> QED  BY <1>2, <2>3, <2>4, <3>1 DEF ReportsInv, Owing
  <2> QED
    BY <1>1, <1>2, <2>3, <2>4, <2>5, MapsStay DEF ReportsInv, SeenTyped, PollTyped, PastTyped
<1>6. CASE Reports!Recreate(c)
  <2>1. v6' = [[v6 EXCEPT !.owed = v6.owed \ {c}, !.known = v6.known \ {c}]
                EXCEPT !.events = @ + 1, !.now = {}]
    BY <1>1, <1>6 DEF Reports!Recreate, Reports!Past, Pasts
  <2>2. v2' = [v2 EXCEPT ![c] = [restarts |-> 0, waits |-> FALSE]]
    BY <1>1, <1>6 DEF Reports!Recreate
  <2>3. BoxTyped' /\ \A d \in C \ {c} : v2'[d] = v2[d]
    BY <1>1, <2>2 DEF BoxTyped
  <2>4. /\ v6' \in Pasts /\ v6'.told = v6.told /\ v6'.now = {} /\ v6'.known = v6.known \ {c}
        /\ v6'.owed = v6.owed \ {c}
    <3>1. v6.owed \ {c} \in SUBSET C /\ v6.known \ {c} \in SUBSET C
      BY <1>1 DEF Pasts
    <3> QED  BY <1>3, <2>1, <3>1
  <2>5. Owing'
    <3>1. v6.owed \subseteq C /\ v6.known \subseteq C
      BY <1>1 DEF Pasts
    <3> QED  BY <1>2, <2>3, <2>4, <3>1 DEF ReportsInv, Owing
  <2> QED
    BY <1>1, <1>2, <2>3, <2>4, <2>5, MapsStay DEF ReportsInv, SeenTyped, PollTyped, PastTyped
<1> QED  BY <1>2, <1>4, <1>5, <1>6

LEMMA MessageStep ==
  ASSUME ReportsInv, NEW e \in ReportsGiven.Errors, Reports!Message(e)
  PROVE  ReportsInv' /\ Reports!SpacedStep /\ v5' = v5
<1> USE ReportsAssumption
<1> DEFINE R   == {Reports!OfTopic(e)}
           out == Reports!Captured(R)
<1>1. /\ v6 \in Pasts /\ v1 \in BOOLEAN /\ BoxTyped /\ SeenTyped /\ MapTyped /\ PollTyped /\ PastTyped
      /\ MapIsTold /\ MapIsYoung /\ NotStarted /\ Owing
  BY DEF ReportsInv, PastTyped
<1>2. /\ R \in SUBSET Reports!Reports /\ \A r \in R : r.kind = "error"
  BY DEF Reports!Reports, Reports!OfTopic
<1>3. CapturedFits(R, out)
  <2> HIDE DEF R
  <2> QED  BY <1>1, <1>2, CapturedHolds
<1>4. /\ v1 /\ UNCHANGED <<v1, v2, v3, v5>> /\ v4' = out.map
      /\ v6' = [v6 EXCEPT !.told = out.told, !.now = out.now, !.events = @ + 1]
  BY DEF Reports!Message
<1> HIDE DEF R, out
<1>5. /\ v6' \in Pasts /\ v6'.told = out.told /\ v6'.now = out.now
      /\ v6'.owed = v6.owed /\ v6'.known = v6.known
  <2>1. /\ v6.events + 1 \in Nat /\ out.told \in [Reports!Reports -> -1 .. Reports!MaxAge]
        /\ out.now \in SUBSET Reports!Reports
    BY <1>1, <1>2, <1>3 DEF Pasts, CapturedFits
  <2>2. v6' = [told |-> out.told, now |-> out.now, owed |-> v6.owed, known |-> v6.known,
               events |-> v6.events + 1]
    BY <1>1, <1>4 DEF Pasts
  <2> QED  BY <1>1, <2>1, <2>2 DEF Pasts
<1>6. MapTyped' /\ MapIsTold'
  BY <1>1, <1>2, <1>3, <1>4, <1>5 DEF CapturedFits, MapTyped, MapIsTold
<1>7. MapIsYoung'
  BY <1>1, <1>2, <1>3, <1>4 DEF CapturedFits, MapIsYoung, SweptSince
<1>8. Owing'
  BY <1>1, <1>4, <1>5 DEF Owing
<1>9. Reports!SpacedStep
  BY <1>3, <1>5 DEF CapturedFits, Reports!SpacedStep
<1> QED
  BY <1>1, <1>4, <1>5, <1>6, <1>7, <1>8, <1>9
  DEF ReportsInv, BoxTyped, SeenTyped, PollTyped, PastTyped, NotStarted

(* The start and the firing of the interval begin a tick.                  *)
LEMMA BeginStep ==
  ASSUME ReportsInv, Reports!Start \/ Reports!Fire
  PROVE  ReportsInv' /\ Reports!SpacedStep /\ v5.at = 0
<1> USE ReportsAssumption
<1>1. /\ v6 \in Pasts /\ v1 \in BOOLEAN /\ BoxTyped /\ SeenTyped /\ MapTyped /\ PollTyped /\ PastTyped
      /\ MapIsTold /\ MapIsYoung /\ NotStarted /\ Owing
  BY DEF ReportsInv, PastTyped
<1>2. /\ v1' = TRUE /\ UNCHANGED <<v2, v3, v4>> /\ v5' = [at |-> 1, since |-> 0]
      /\ v6' = [v6 EXCEPT !.now = {}]
  BY <1>1 DEF Reports!Start, Reports!Fire
<1>3. /\ v6' \in Pasts /\ v6'.told = v6.told /\ v6'.now = {}
      /\ v6'.owed = v6.owed /\ v6'.known = v6.known
  BY <1>1, <1>2 DEF Pasts
<1>4. v5.at = 0 /\ (DOMAIN v4 = {} \/ v5.since = ReportsGiven.Interval)
  BY <1>1 DEF Reports!Start, Reports!Fire, NotStarted
<1>5. MapTyped' /\ MapIsTold' /\ Owing'
  BY <1>1, <1>2, <1>3 DEF MapTyped, MapIsTold, Owing
<1>6. MapIsYoung'
  BY <1>1, <1>2, <1>4 DEF MapIsYoung, SweptSince, MapTyped, ReportsAges
<1>7. PollTyped' /\ NotStarted' /\ PastTyped' /\ Reports!SpacedStep
  BY <1>2, <1>3 DEF PollTyped, NotStarted, PastTyped, Reports!SpacedStep
<1> QED
  BY <1>1, <1>2, <1>4, <1>5, <1>6, <1>7 DEF ReportsInv, BoxTyped, SeenTyped

LEMMA TimeStep ==
  ASSUME ReportsInv, Reports!Time
  PROVE  ReportsInv' /\ Reports!SpacedStep /\ v5'.at = v5.at
<1> USE ReportsAssumption
<1>1. /\ v6 \in Pasts /\ v1 \in BOOLEAN /\ BoxTyped /\ SeenTyped /\ MapTyped /\ PollTyped /\ PastTyped
      /\ MapIsTold /\ MapIsYoung /\ NotStarted /\ Owing
  BY DEF ReportsInv, PastTyped
<1> DEFINE told == [r \in Reports!Reports |-> Reports!Older(v6.told[r], 1)]
<1>2. /\ v1 /\ v5.since < ReportsGiven.Interval /\ UNCHANGED <<v1, v2, v3>>
      /\ v5' = [v5 EXCEPT !.since = @ + 1]
      /\ v4' = [k \in DOMAIN v4 |-> Reports!Older(v4[k], 1)]
      /\ v6' = [v6 EXCEPT !.told = told, !.now = {}]
  BY DEF Reports!Time
<1>3. Reports!MaxAge \in Nat
  BY DEF Reports!MaxAge
<1>4. \A a \in -1 .. Reports!MaxAge :
         /\ Reports!Older(a, 1) \in -1 .. Reports!MaxAge
         /\ a >= 0 => Reports!Older(a, 1) \in ReportsAges /\ Reports!Older(a, 1) <= a + 1
         /\ Reports!Recent(Reports!Older(a, 1)) => Reports!Recent(a)
  BY <1>3 DEF Reports!Older, ReportsAges, Reports!Recent, Reports!MaxAge
<1>5. told \in [Reports!Reports -> -1 .. Reports!MaxAge]
  BY <1>1, <1>4 DEF Pasts
<1> HIDE DEF told
<1>6. /\ v6' \in Pasts /\ v6'.told = told /\ v6'.now = {}
      /\ v6'.owed = v6.owed /\ v6'.known = v6.known
  BY <1>1, <1>2, <1>5 DEF Pasts
<1>7. /\ v5' \in [at : 0 .. Len(ReportsGiven.Namespaces), since : 0 .. ReportsGiven.Interval]
      /\ v5'.at = v5.at /\ v5'.since = v5.since + 1
  BY <1>1, <1>2 DEF PollTyped
<1>8. MapTyped'
  BY <1>1, <1>2, <1>4 DEF MapTyped, ReportsAges
<1>9. MapIsTold'
  <2>1. \A k \in DOMAIN v4 : v4'[k] = told[k]
    BY <1>1, <1>2 DEF MapIsTold, MapTyped, told
  <2>2. \A r \in Reports!Reports : Reports!Recent(told[r]) => Reports!Recent(v6.told[r])
    BY <1>1, <1>4 DEF told, Pasts
  <2> QED  BY <1>1, <1>2, <1>6, <2>1, <2>2 DEF MapIsTold
<1>10. MapIsYoung'
  <2>1. SweptSince \in Int /\ SweptSince' = SweptSince + 1
    BY <1>1, <1>7 DEF SweptSince, PollTyped
  <2>2. \A k \in DOMAIN v4 : /\ v4[k] \in ReportsAges /\ v4'[k] \in ReportsAges
                             /\ v4'[k] <= v4[k] + 1
    BY <1>1, <1>2, <1>4 DEF MapTyped, ReportsAges
  <2>3. DOMAIN v4' = DOMAIN v4
    BY <1>2
  <2>4. \A k \in DOMAIN v4 : v4[k] < SweptSince => v4'[k] < SweptSince'
    BY <1>3, <2>1, <2>2 DEF ReportsAges
  <2> QED  BY <1>1, <2>3, <2>4 DEF MapIsYoung
<1>11. Owing' /\ NotStarted' /\ Reports!SpacedStep
  BY <1>1, <1>2, <1>6 DEF Owing, NotStarted, Reports!SpacedStep
<1> QED
  BY <1>1, <1>2, <1>6, <1>7, <1>8, <1>9, <1>10, <1>11
  DEF ReportsInv, BoxTyped, SeenTyped, PollTyped, PastTyped

(* A namespace is listed: what restarted since it was listed last, or waits *)
(* in its crash loop, is captured.                                         *)
LEMMA ListStep ==
  ASSUME ReportsInv, Reports!List
  PROVE  ReportsInv' /\ Reports!SpacedStep /\ Reports!ToldStep
<1> USE ReportsAssumption
<1> DEFINE C   == ReportsGiven.Containers
           R   == {Reports!Report(c, "restart") : c \in {c \in Reports!Here : Reports!Restarted(c)}}
                  \union {Reports!Report(c, "waits") : c \in {c \in Reports!Here : v2[c].waits}}
           out == Reports!Captured(R)
<1>1. /\ v6 \in Pasts /\ v1 \in BOOLEAN /\ BoxTyped /\ SeenTyped /\ MapTyped /\ PollTyped /\ PastTyped
      /\ MapIsTold /\ MapIsYoung /\ NotStarted /\ Owing
  BY DEF ReportsInv, PastTyped
<1>2. R \in SUBSET Reports!Reports
  BY DEF Reports!Reports, Reports!Here
<1>3. CapturedFits(R, out)
  <2> HIDE DEF R
  <2> QED  BY <1>1, <1>2, CapturedHolds
<1>4. /\ v5.at # 0 /\ UNCHANGED <<v1, v2>>
      /\ v4' = IF Reports!Following = 0 THEN Reports!Sweep(out.map) ELSE out.map
      /\ v6' = [v6 EXCEPT !.told = out.told, !.now = out.now,
                          !.owed = @ \ Reports!Here, !.known = @ \union Reports!Here]
      /\ v3' = [c \in C |-> IF c \in Reports!Here THEN v2[c].restarts ELSE v3[c]]
      /\ v5' = [v5 EXCEPT !.at = Reports!Following]
  BY DEF Reports!List
<1>5. \A c \in Reports!Here : /\ c \in C
                              /\ Reports!Restarted(c) => Reports!Report(c, "restart") \in R
                              /\ v2[c].waits => Reports!Report(c, "waits") \in R
  BY DEF Reports!Here
<1> HIDE DEF R, out
<1>6. /\ v6' \in Pasts /\ v6'.told = out.told /\ v6'.now = out.now
      /\ v6'.owed = v6.owed \ Reports!Here /\ v6'.known = v6.known \union Reports!Here
      /\ v6.owed \subseteq C /\ v6.known \subseteq C
  <2>1. /\ v6.owed \ Reports!Here \in SUBSET C /\ v6.known \union Reports!Here \in SUBSET C
        /\ out.told \in [Reports!Reports -> -1 .. Reports!MaxAge]
        /\ out.now \in SUBSET Reports!Reports
    BY <1>1, <1>2, <1>3, <1>5 DEF Pasts, CapturedFits
  <2>2. v6' = [told |-> out.told, now |-> out.now, owed |-> v6.owed \ Reports!Here,
               known |-> v6.known \union Reports!Here, events |-> v6.events]
    BY <1>1, <1>4 DEF Pasts
  <2> QED  BY <1>1, <2>1, <2>2 DEF Pasts
<1>7. /\ v5' \in [at : 0 .. Len(ReportsGiven.Namespaces), since : 0 .. ReportsGiven.Interval]
      /\ v5'.at = Reports!Following /\ v5'.since = v5.since /\ v5.since \in Nat
  BY <1>1, <1>4 DEF PollTyped, Reports!Following
<1>sweep. SweepFits(out.map, out.told, Reports!Sweep(out.map))
  <2>1. DOMAIN out.map \in SUBSET Reports!Reports
    BY <1>1, <1>2, <1>3 DEF CapturedFits, MapTyped
  <2> QED  BY <1>3, <2>1, SweepHolds DEF CapturedFits
<1>8. MapTyped' /\ MapIsTold' /\ \A k \in DOMAIN v4' : v4'[k] = out.map[k] /\ k \in DOMAIN out.map
  <2>1. DOMAIN out.map \in SUBSET Reports!Reports
    BY <1>1, <1>2, <1>3 DEF CapturedFits, MapTyped
  <2>2. CASE Reports!Following # 0
    BY <1>3, <1>4, <1>6, <2>1, <2>2 DEF CapturedFits, MapTyped, MapIsTold
  <2>3. CASE Reports!Following = 0
    BY <1>3, <1>4, <1>6, <1>sweep, <2>1, <2>3 DEF CapturedFits, SweepFits, MapTyped, MapIsTold
  <2> QED  BY <2>2, <2>3
<1>9. MapIsYoung'
  <2>1. CASE Reports!Following = 0
    <3>1. \A k \in DOMAIN v4' : k.kind # "error" => v4'[k] < ReportsGiven.Window
      BY <1>4, <1>sweep, <2>1 DEF SweepFits
    <3>2. \A k \in DOMAIN v4' : v4'[k] \in Nat
      BY <1>8 DEF MapTyped, ReportsAges
    <3> QED  BY <1>7, <2>1, <3>1, <3>2 DEF MapIsYoung, SweptSince
  <2>2. CASE Reports!Following # 0
    <3>1. SweptSince' = SweptSince /\ SweptSince \in Nat /\ SweptSince > 0
      BY <1>4, <1>7, <2>2 DEF SweptSince
    <3>2. \A k \in DOMAIN v4' : v4'[k] = 0 \/ (k \in DOMAIN v4 /\ v4'[k] = v4[k])
      BY <1>3, <1>8 DEF CapturedFits
    <3> QED  BY <1>1, <3>1, <3>2 DEF MapIsYoung
  <2> QED  BY <2>1, <2>2
<1>10. SeenTyped' /\ Owing'
  <2>1. \A c \in C : v2[c].restarts \in 0 .. ReportsGiven.MaxRestarts
                     /\ v3[c] \in -1 .. ReportsGiven.MaxRestarts
    BY <1>1 DEF BoxTyped, SeenTyped
  <2>2. SeenTyped'
    BY <1>4, <2>1 DEF SeenTyped
  <2>3. \A c \in C : v3'[c] = IF c \in Reports!Here THEN v2[c].restarts ELSE v3[c]
    BY <1>4
  <2>4. \A c \in v6'.known : v3'[c] # -1 /\ v3'[c] <= v2[c].restarts
    BY <1>1, <1>5, <1>6, <2>1, <2>3 DEF Owing
  <2>5. \A c \in v6'.owed : c \in v6'.known /\ v3'[c] < v2[c].restarts
    BY <1>1, <1>6, <2>3 DEF Owing
  <2> QED  BY <1>4, <2>2, <2>4, <2>5 DEF Owing
<1>11. Reports!SpacedStep
  BY <1>3, <1>6 DEF CapturedFits, Reports!SpacedStep
<1>12. Reports!ToldStep
  <2>1. \A c \in Reports!Here : c \in v6.owed => Reports!Restarted(c)
    BY <1>1, <1>5 DEF Owing, Reports!Restarted
  <2> QED  BY <1>3, <1>5, <1>6, <2>1 DEF CapturedFits, Reports!ToldStep
<1>13. NotStarted' /\ PollTyped'
  <2>1. v1
    BY <1>1, <1>4 DEF NotStarted
  <2> QED  BY <1>4, <1>7, <2>1 DEF NotStarted, PollTyped
<1> QED
  BY <1>1, <1>4, <1>6, <1>8, <1>9, <1>10, <1>11, <1>12, <1>13
  DEF ReportsInv, BoxTyped, PastTyped

LEMMA ListFailsStep ==
  ASSUME ReportsInv, Reports!ListFails
  PROVE  ReportsInv' /\ v6'.now = {} /\ v6'.events # v6.events
<1> USE ReportsAssumption
<1>1. /\ v6 \in Pasts /\ v1 \in BOOLEAN /\ BoxTyped /\ SeenTyped /\ MapTyped /\ PollTyped /\ PastTyped
      /\ MapIsTold /\ MapIsYoung /\ NotStarted /\ Owing
  BY DEF ReportsInv, PastTyped
<1>2. /\ v5.at # 0 /\ UNCHANGED <<v1, v2, v3>>
      /\ v4' = IF Reports!Following = 0 THEN Reports!Sweep(v4) ELSE v4
      /\ v6' = [v6 EXCEPT !.events = @ + 1, !.now = {}]
      /\ v5' = [v5 EXCEPT !.at = Reports!Following]
  BY DEF Reports!ListFails, Reports!Past
<1>3. /\ v6' \in Pasts /\ v6'.told = v6.told /\ v6'.now = {}
      /\ v6'.owed = v6.owed /\ v6'.known = v6.known /\ v6'.events # v6.events
  <2>1. v6.events \in Nat /\ v6.events + 1 \in Nat /\ v6.events + 1 # v6.events
    BY <1>1 DEF Pasts
  <2>2. v6' = [told |-> v6.told, now |-> {}, owed |-> v6.owed, known |-> v6.known,
               events |-> v6.events + 1]
    BY <1>1, <1>2 DEF Pasts
  <2> QED  BY <1>1, <2>1, <2>2 DEF Pasts
<1>4. /\ v5' \in [at : 0 .. Len(ReportsGiven.Namespaces), since : 0 .. ReportsGiven.Interval]
      /\ v5'.at = Reports!Following /\ v5'.since = v5.since /\ v5.since \in Nat
  BY <1>1, <1>2 DEF PollTyped, Reports!Following
<1>sweep. SweepFits(v4, v6.told, Reports!Sweep(v4))
  BY <1>1, SweepHolds DEF MapTyped, MapIsTold
<1>5. MapTyped' /\ MapIsTold' /\ \A k \in DOMAIN v4' : v4'[k] = v4[k] /\ k \in DOMAIN v4
  BY <1>1, <1>2, <1>3, <1>sweep DEF SweepFits, MapTyped, MapIsTold
<1>6. MapIsYoung'
  <2>1. CASE Reports!Following = 0
    <3>1. \A k \in DOMAIN v4' : k.kind # "error" => v4'[k] < ReportsGiven.Window
      BY <1>2, <1>sweep, <2>1 DEF SweepFits
    <3>2. \A k \in DOMAIN v4' : v4'[k] \in Nat
      BY <1>5 DEF MapTyped, ReportsAges
    <3> QED  BY <1>4, <2>1, <3>1, <3>2 DEF MapIsYoung, SweptSince
  <2>2. CASE Reports!Following # 0
    <3>1. SweptSince' = SweptSince
      BY <1>2, <1>4, <2>2 DEF SweptSince
    <3> QED  BY <1>1, <1>5, <3>1 DEF MapIsYoung
  <2> QED  BY <2>1, <2>2
<1>7. NotStarted' /\ PollTyped' /\ Owing'
  <2>1. v1
    BY <1>1, <1>2 DEF NotStarted
  <2> QED  BY <1>1, <1>2, <1>3, <1>4, <2>1 DEF NotStarted, PollTyped, Owing
<1> QED
  BY <1>1, <1>2, <1>3, <1>5, <1>6, <1>7 DEF ReportsInv, BoxTyped, SeenTyped, PastTyped

(* Every step keeps the invariant, reports nothing twice within a window   *)
(* and lists no namespace without reporting what is owed.                  *)
LEMMA ReportsStep ==
  ASSUME ReportsInv, [Reports!Next]_(Reports!vars)
  PROVE  ReportsInv' /\ (Reports!Next => Reports!SpacedStep /\ Reports!ToldStep)
<1>1. CASE UNCHANGED Reports!vars /\ ~Reports!Next
  <2>1. ReportsInv'
    BY <1>1 DEF ReportsInv, Reports!vars, BoxTyped, SeenTyped, MapTyped, PollTyped, PastTyped,
                MapIsTold, MapIsYoung, SweptSince, NotStarted, Owing
  <2> QED  BY <1>1, <2>1
<1>2. CASE \E c \in ReportsGiven.Containers :
             Reports!Restart(c) \/ Reports!Loop(c) \/ Reports!Recreate(c)
  <2>1. ReportsInv' /\ v6'.now = {} /\ v5' = v5
    BY <1>2, ClusterStep
  <2> QED  BY <2>1 DEF Reports!SpacedStep, Reports!ToldStep
<1>3. CASE \E e \in ReportsGiven.Errors : Reports!Message(e)
  <2>1. ReportsInv' /\ Reports!SpacedStep /\ v5' = v5
    BY <1>3, MessageStep
  <2> QED  BY <2>1 DEF Reports!ToldStep
<1>4. CASE Reports!Start \/ Reports!Fire
  BY <1>4, BeginStep DEF Reports!ToldStep
<1>5. CASE Reports!Time
  BY <1>5, TimeStep DEF Reports!ToldStep
<1>6. CASE Reports!List
  BY <1>6, ListStep
<1>7. CASE Reports!ListFails
  BY <1>7, ListFailsStep DEF Reports!SpacedStep, Reports!ToldStep
<1> QED
  BY <1>1, <1>2, <1>3, <1>4, <1>5, <1>6, <1>7 DEF Reports!Next

--------------------------------------------------------------------------------
(* The overview (lib/overview-collector.ts, app/page.tsx): v1 the world,   *)
(* v2 what became of it, v3 the probe the collection is at, v4 the         *)
(* snapshot, v5 the Kafka probe, v6 the page, v7 the Grafana card.         *)

LEMMA HomeCounts == \A S : Home!Cardinality(S) = Cardinality(S)
BY DEF Home!Cardinality, Cardinality

HomeShape(s) ==
  s \in [ns : {s.ns}, nim : {s.nim}, temps : {s.temps}, kafka : {s.kafka}, totals : {s.totals},
         cams : {s.cams}, running : {s.running}, ingesting : {s.ingesting}, rows : {s.rows},
         listed : {s.listed}, warnings : {s.warnings}]

(* A snapshot at a probe: depths are those of a world the collection saw,  *)
(* and what it is past has left its part or a warning.                     *)
SnapFits(s, at, worlds) ==
  /\ HomeShape(s)
  /\ DOMAIN s.ns \subseteq {"vss", "sim"}
  /\ s.kafka \in [{1, 2} -> {-1} \union {w.depth : w \in worlds}]
  /\ IsFiniteSet(s.cams) /\ s.ingesting \in Int /\ s.ingesting <= Cardinality(s.cams)
  /\ at # "done" => s.ingesting = -1
  /\ at \notin {"idle", "pods"} /\ s.warnings = {} => DOMAIN s.ns = {"vss", "sim"}
  /\ at \in {"rules", "done"} /\ s.warnings = {} => s.running

(* In a world that did not turn, what it says is so of that world.         *)
SnapAgrees(s, at, w) ==
  /\ \A n \in DOMAIN s.ns : s.ns[n] = Home!Count(Home!In(w.pods, n))
  /\ s.nim => \E p \in w.pods : p.ns = "vss" /\ p.name = "vlm" /\ p.ready
  /\ at \in {"kafka", "totals", "cameras", "rules", "done"} /\ s.warnings = {} => s.temps = w.temps
  /\ s.rows \subseteq w.pods
  /\ \A n \in s.listed : <<"rows", n>> \notin s.warnings => Home!In(w.pods, n) \subseteq s.rows

HomeTyped ==
  /\ v1 \in HomeGiven.Worlds
  /\ v2 \in [since : SUBSET HomeGiven.Worlds, moves : 0 .. HomeGiven.MaxMoves,
             reveals : 0 .. HomeGiven.MaxReveals]
  /\ v1 \in v2.since
  /\ v3 \in {"idle"} \union Home!Steps
  /\ v5 \in [phase : {"none", "running", "late", "over"}, next : Nat \ {0}]
  /\ v6 \in [kiosk : BOOLEAN, snap : {v6.snap}]
  /\ v7 \in [shown : BOOLEAN, noted : Nat] /\ v7.noted <= v2.reveals
Collected == SnapFits(v4, v3, v2.since) /\ (v2.since = {v1} => SnapAgrees(v4, v3, v1))
Rendered ==
  v6.snap # Home!Empty =>
    /\ SnapFits(v6.snap, "done", v2.since)
    /\ v2.since = {v1} => SnapAgrees(v6.snap, "done", v1)
    /\ v6.kiosk \/ v6.snap.listed = {"vss", "sim"}
HomeInv == HomeTyped /\ Collected /\ Rendered

--------------------------------------------------------------------------------
LEMMA HomeEmpty ==
  ASSUME NEW at \in {"idle", "pods"}, NEW ws, NEW w
  PROVE  SnapFits(Home!Empty, at, ws) /\ SnapAgrees(Home!Empty, at, w)
<1> DEFINE e == Home!Empty
<1>1. e = [ns |-> [n \in {} |-> Home!NoCount], nim |-> FALSE, temps |-> {},
           kafka |-> [i \in {1, 2} |-> -1], totals |-> "unavailable", cams |-> {}, running |-> FALSE,
           ingesting |-> -1, rows |-> {}, listed |-> {}, warnings |-> {}]
  BY DEF Home!Empty, Home!Topics, Home!Unmeasured
<1>2. IsFiniteSet({}) /\ Cardinality({}) = 0
  BY FS_EmptySet
<1>3. DOMAIN e.ns = {} /\ e.cams = {} /\ e.ingesting = -1 /\ e.rows = {} /\ e.listed = {} /\ ~e.nim
  BY <1>1
<1>4. e.kafka \in [{1, 2} -> {-1} \union {x.depth : x \in ws}]
  BY <1>1
<1>5. HomeShape(e)
  BY <1>1 DEF HomeShape
<1> HIDE DEF e
<1>6. SnapFits(e, at, ws)
  BY <1>2, <1>3, <1>4, <1>5 DEF SnapFits
<1>7. SnapAgrees(e, at, w)
  BY <1>3 DEF SnapAgrees
<1> QED  BY <1>6, <1>7 DEF e

LEMMA HomeStart == Home!Init => HomeInv
<1> SUFFICES ASSUME Home!Init PROVE HomeInv
  OBVIOUS
<1>1. /\ v1 \in HomeGiven.Worlds /\ v2 = [since |-> {v1}, moves |-> 0, reveals |-> 0]
      /\ v3 = "idle" /\ v4 = Home!Empty /\ v5 = [phase |-> "none", next |-> 1]
      /\ v6 \in [kiosk : BOOLEAN, snap : {Home!Empty}] /\ v7 = [shown |-> FALSE, noted |-> 0]
  BY DEF Home!Init
<1>2. HomeTyped
  BY <1>1, HomeAssumption DEF HomeTyped
<1>3. Collected
  BY <1>1, HomeEmpty DEF Collected
<1>4. Rendered
  BY <1>1 DEF Rendered
<1> QED  BY <1>2, <1>3, <1>4 DEF HomeInv

(* More worlds leave a snapshot as fitting as it was.                      *)
LEMMA HomeGrows ==
  ASSUME NEW s, NEW at, NEW a, NEW b, a \subseteq b, SnapFits(s, at, a)
  PROVE  SnapFits(s, at, b)
<1>1. [{1, 2} -> {-1} \union {w.depth : w \in a}] \subseteq [{1, 2} -> {-1} \union {w.depth : w \in b}]
  OBVIOUS
<1> QED  BY <1>1 DEF SnapFits

(* A probe that puts its part into the snapshot and leaves the rest alone. *)
LEMMA HomePut ==
  ASSUME HomeInv, v1' = v1, v2' = v2, v6' = v6, v7' = v7,
         v3' \in {"idle"} \union Home!Steps,
         v5' \in [phase : {"none", "running", "late", "over"}, next : Nat \ {0}],
         SnapFits(v4', v3', v2.since), v2.since = {v1} => SnapAgrees(v4', v3', v1)
  PROVE  HomeInv'
BY DEF HomeInv, HomeTyped, Collected, Rendered

LEMMA HomeGoes ==
  ASSUME HomeInv, NEW s, NEW to, Home!Goes(s, to), s \in Home!Steps \ {"done"}
  PROVE  v3 = s /\ v4' = to /\ v3' = Home!StepAfter(s) /\ Home!StepAfter(s) \in Home!Steps
BY DEF Home!Goes, Home!StepAfter, Home!Steps

LEMMA HomeStill ==
  ASSUME Home!Still
  PROVE  v1' = v1 /\ v2' = v2 /\ v6' = v6 /\ v7' = v7
BY DEF Home!Still

(* The snapshot whose parts are the given ones.                            *)
SnapOf(a, b, c, d, e, f, g, h, i, j, k) ==
  [ns : {a}, nim : {b}, temps : {c}, kafka : {d}, totals : {e}, cams : {f}, running : {g},
   ingesting : {h}, rows : {i}, listed : {j}, warnings : {k}]

LEMMA SnapOfIs ==
  ASSUME NEW a, NEW b, NEW c, NEW d, NEW e, NEW f, NEW g, NEW h, NEW i, NEW j, NEW k,
         NEW s, s \in SnapOf(a, b, c, d, e, f, g, h, i, j, k)
  PROVE  /\ s.ns = a /\ s.nim = b /\ s.temps = c /\ s.kafka = d /\ s.totals = e /\ s.cams = f
         /\ s.running = g /\ s.ingesting = h /\ s.rows = i /\ s.listed = j /\ s.warnings = k
         /\ HomeShape(s)
BY DEF SnapOf, HomeShape

LEMMA PutNs ==
  ASSUME NEW s, HomeShape(s), NEW x
  PROVE  [s EXCEPT !.ns = x]
           \in SnapOf(x, s.nim, s.temps, s.kafka, s.totals, s.cams,
                      s.running, s.ingesting, s.rows, s.listed, s.warnings)
BY DEF HomeShape, SnapOf

LEMMA PutNim ==
  ASSUME NEW s, HomeShape(s), NEW x
  PROVE  [s EXCEPT !.nim = x]
           \in SnapOf(s.ns, x, s.temps, s.kafka, s.totals, s.cams,
                      s.running, s.ingesting, s.rows, s.listed, s.warnings)
BY DEF HomeShape, SnapOf

LEMMA PutTemps ==
  ASSUME NEW s, HomeShape(s), NEW x
  PROVE  [s EXCEPT !.temps = x]
           \in SnapOf(s.ns, s.nim, x, s.kafka, s.totals, s.cams,
                      s.running, s.ingesting, s.rows, s.listed, s.warnings)
BY DEF HomeShape, SnapOf

LEMMA PutKafka ==
  ASSUME NEW s, HomeShape(s), NEW x
  PROVE  [s EXCEPT !.kafka = x]
           \in SnapOf(s.ns, s.nim, s.temps, x, s.totals, s.cams,
                      s.running, s.ingesting, s.rows, s.listed, s.warnings)
BY DEF HomeShape, SnapOf

LEMMA PutTotals ==
  ASSUME NEW s, HomeShape(s), NEW x
  PROVE  [s EXCEPT !.totals = x]
           \in SnapOf(s.ns, s.nim, s.temps, s.kafka, x, s.cams,
                      s.running, s.ingesting, s.rows, s.listed, s.warnings)
BY DEF HomeShape, SnapOf

LEMMA PutCams ==
  ASSUME NEW s, HomeShape(s), NEW x, NEW y
  PROVE  [s EXCEPT !.cams = x, !.running = y]
           \in SnapOf(s.ns, s.nim, s.temps, s.kafka, s.totals, x,
                      y, s.ingesting, s.rows, s.listed, s.warnings)
BY DEF HomeShape, SnapOf

LEMMA PutIngesting ==
  ASSUME NEW s, HomeShape(s), NEW x
  PROVE  [s EXCEPT !.ingesting = x]
           \in SnapOf(s.ns, s.nim, s.temps, s.kafka, s.totals, s.cams,
                      s.running, x, s.rows, s.listed, s.warnings)
BY DEF HomeShape, SnapOf

LEMMA PutRows ==
  ASSUME NEW s, HomeShape(s), NEW x, NEW y
  PROVE  [s EXCEPT !.rows = x, !.listed = y]
           \in SnapOf(s.ns, s.nim, s.temps, s.kafka, s.totals, s.cams,
                      s.running, s.ingesting, x, y, s.warnings)
BY DEF HomeShape, SnapOf

LEMMA PutListed ==
  ASSUME NEW s, HomeShape(s), NEW x, NEW y
  PROVE  [s EXCEPT !.listed = x, !.warnings = y]
           \in SnapOf(s.ns, s.nim, s.temps, s.kafka, s.totals, s.cams,
                      s.running, s.ingesting, s.rows, x, y)
BY DEF HomeShape, SnapOf

LEMMA PutWarnings ==
  ASSUME NEW s, HomeShape(s), NEW x
  PROVE  [s EXCEPT !.warnings = x]
           \in SnapOf(s.ns, s.nim, s.temps, s.kafka, s.totals, s.cams,
                      s.running, s.ingesting, s.rows, s.listed, x)
BY DEF HomeShape, SnapOf

(* A probe that fails.                                                     *)
LEMMA HomeWarned ==
  ASSUME HomeInv, v3 # "done", NEW name, NEW at
  PROVE  /\ SnapFits(Home!Warned(name), at, v2.since)
         /\ v2.since = {v1} => SnapAgrees(Home!Warned(name), at, v1)
<1> DEFINE s == Home!Warned(name)
<1>1. s = [v4 EXCEPT !.warnings = v4.warnings \union {name}]
  BY DEF Home!Warned
<1>2. SnapFits(v4, v3, v2.since) /\ HomeShape(v4)
  BY DEF HomeInv, Collected, SnapFits
<1>3. s \in SnapOf(v4.ns, v4.nim, v4.temps, v4.kafka, v4.totals, v4.cams,
                   v4.running, v4.ingesting, v4.rows, v4.listed, v4.warnings \union {name})
  BY <1>1, <1>2, PutWarnings
<1> HIDE DEF s
<1>4. /\ HomeShape(s) /\ s.ns = v4.ns /\ s.nim = v4.nim /\ s.kafka = v4.kafka /\ s.cams = v4.cams
      /\ s.ingesting = v4.ingesting /\ s.rows = v4.rows /\ s.listed = v4.listed
      /\ s.warnings = v4.warnings \union {name}
  BY <1>3, SnapOfIs
<1>5. s.warnings # {} /\ v4.ingesting = -1
  BY <1>2, <1>4 DEF SnapFits
<1>6. SnapFits(s, at, v2.since)
  BY <1>2, <1>4, <1>5 DEF SnapFits
<1>7. ASSUME v2.since = {v1} PROVE SnapAgrees(s, at, v1)
  BY <1>7, <1>4, <1>5 DEF HomeInv, Collected, SnapAgrees
<1> QED  BY <1>6, <1>7 DEF s

LEMMA HomeBegin == ASSUME HomeInv, Home!Begin PROVE HomeInv'
<1>1. /\ v3' = "pods" /\ v4' = Home!Empty /\ v5' = [phase |-> "none", next |-> 1]
      /\ v1' = v1 /\ v6' = v6 /\ v7' = v7 /\ v6.snap = Home!Empty
      /\ v2' = [v2 EXCEPT !.since = {v1}]
  BY DEF Home!Begin
<1>2. /\ v2' \in [since : SUBSET HomeGiven.Worlds, moves : 0 .. HomeGiven.MaxMoves,
                  reveals : 0 .. HomeGiven.MaxReveals]
      /\ v2'.since = {v1} /\ v2'.reveals = v2.reveals
  BY <1>1 DEF HomeInv, HomeTyped
<1>3. HomeTyped'
  BY <1>1, <1>2 DEF HomeInv, HomeTyped, Home!Steps
<1>4. Collected'
  BY <1>1, HomeEmpty DEF Collected
<1>5. Rendered'
  BY <1>1 DEF Rendered
<1> QED  BY <1>3, <1>4, <1>5 DEF HomeInv

LEMMA HomeTurn == ASSUME HomeInv, Home!Turn PROVE HomeInv'
<1>1. PICK w \in HomeGiven.Worlds \ {v1} :
        /\ v2.moves < HomeGiven.MaxMoves
        /\ v1' = w /\ v2' = [v2 EXCEPT !.moves = v2.moves + 1, !.since = v2.since \union {w}]
        /\ v3' = v3 /\ v4' = v4 /\ v5' = v5 /\ v6' = v6 /\ v7' = v7
  BY DEF Home!Turn
<1>2. /\ v2' \in [since : SUBSET HomeGiven.Worlds, moves : 0 .. HomeGiven.MaxMoves,
                  reveals : 0 .. HomeGiven.MaxReveals]
      /\ v2'.since = v2.since \union {w} /\ v2'.reveals = v2.reveals
  <2>1. v2 \in [since : SUBSET HomeGiven.Worlds, moves : 0 .. HomeGiven.MaxMoves,
                 reveals : 0 .. HomeGiven.MaxReveals]
    BY DEF HomeInv, HomeTyped
  <2>2. HomeGiven.MaxMoves \in Nat
    BY HomeAssumption
  <2> DEFINE m == v2.moves + 1
             a == v2.since \union {w}
  <2>3. m \in 0 .. HomeGiven.MaxMoves
    BY <1>1, <2>1, <2>2
  <2>4. a \in SUBSET HomeGiven.Worlds
    BY <1>1, <2>1
  <2> HIDE DEF m, a
  <2> QED  BY <1>1, <2>1, <2>3, <2>4 DEF m, a
<1>3. HomeTyped'
  BY <1>1, <1>2 DEF HomeInv, HomeTyped
<1>4. v2'.since # {v1'}
  BY <1>1, <1>2 DEF HomeInv, HomeTyped
<1>5. Collected'
  BY <1>1, <1>2, <1>4, HomeGrows DEF HomeInv, Collected
<1>6. Rendered'
  BY <1>1, <1>2, <1>4, HomeGrows DEF HomeInv, Rendered
<1> QED  BY <1>3, <1>5, <1>6 DEF HomeInv

LEMMA HomeProbes ==
  ASSUME HomeInv
  PROVE  /\ v5 \in [phase : {"none", "running", "late", "over"}, next : Nat \ {0}]
         /\ HomeShape(v4) /\ SnapFits(v4, v3, v2.since)
         /\ v2.since = {v1} => SnapAgrees(v4, v3, v1)
BY DEF HomeInv, HomeTyped, Collected, SnapFits

LEMMA HomeReadNamespace ==
  ASSUME HomeInv, NEW n \in {"vss", "sim"}, Home!ReadNamespace(n)
  PROVE  HomeInv'
<1>1. /\ v3 = "pods" /\ v3' = v3 /\ v5' = v5 /\ v1' = v1 /\ v2' = v2 /\ v6' = v6 /\ v7' = v7
      /\ v3' \in {"idle"} \union Home!Steps
  BY HomeStill DEF Home!ReadNamespace, Home!Steps
<1>2. CASE v4' = Home!Warned(<<"list", n>>)
  BY <1>1, <1>2, HomeWarned, HomePut, HomeProbes
<1>3. CASE v4' = [v4 EXCEPT !.ns = Home!With(v4.ns, n, Home!Count(Home!In(v1.pods, n)))]
  <2> DEFINE x == Home!With(v4.ns, n, Home!Count(Home!In(v1.pods, n)))
             s == v4'
  <2>1. /\ DOMAIN x = DOMAIN v4.ns \union {n} /\ x[n] = Home!Count(Home!In(v1.pods, n))
        /\ \A m \in DOMAIN v4.ns \ {n} : x[m] = v4.ns[m]
    BY DEF Home!With
  <2> HIDE DEF x
  <2>2. s \in SnapOf(x, v4.nim, v4.temps, v4.kafka, v4.totals, v4.cams,
                     v4.running, v4.ingesting, v4.rows, v4.listed, v4.warnings)
    BY <1>3, HomeProbes, PutNs DEF x
  <2> HIDE DEF s
  <2>3. /\ HomeShape(s) /\ s.ns = x /\ s.nim = v4.nim /\ s.temps = v4.temps
        /\ s.kafka = v4.kafka /\ s.cams = v4.cams /\ s.running = v4.running
        /\ s.ingesting = v4.ingesting /\ s.rows = v4.rows /\ s.listed = v4.listed
        /\ s.warnings = v4.warnings
    BY <2>2, SnapOfIs
  <2>4. SnapFits(s, v3, v2.since)
    BY <2>1, <2>3, <1>1, HomeProbes DEF SnapFits
  <2>5. ASSUME v2.since = {v1} PROVE SnapAgrees(s, v3, v1)
    BY <2>5, <2>1, <2>3, <1>1, HomeProbes DEF SnapAgrees
  <2> QED  BY <2>4, <2>5, <1>1, HomePut, HomeProbes DEF s
<1> QED  BY <1>2, <1>3 DEF Home!ReadNamespace

(* The steps that go to another probe: read, or failed.                    *)
LEMMA HomeListed == ASSUME HomeInv, Home!Listed PROVE HomeInv'
<1>1. /\ v3 = "pods" /\ v3' = "nim" /\ v4' = v4 /\ v5' = v5
      /\ v1' = v1 /\ v2' = v2 /\ v6' = v6 /\ v7' = v7
      /\ {n \in {"vss", "sim"} : n \in DOMAIN v4.ns \/ <<"list", n>> \in v4.warnings} = {"vss", "sim"}
  BY HomeStill DEF Home!Listed, Home!Tried, Home!Namespaces
<1>2. v4.warnings = {} => DOMAIN v4.ns = {"vss", "sim"}
  BY <1>1, HomeProbes DEF SnapFits
<1>3. SnapFits(v4, "nim", v2.since)
  BY <1>1, <1>2, HomeProbes DEF SnapFits
<1>4. v2.since = {v1} => SnapAgrees(v4, "nim", v1)
  BY <1>1, HomeProbes DEF SnapAgrees
<1> QED  BY <1>1, <1>3, <1>4, HomePut, HomeProbes DEF Home!Steps

LEMMA HomeReadNim == ASSUME HomeInv, Home!ReadNim PROVE HomeInv'
<1> DEFINE read == [v4 EXCEPT !.nim = \E p \in Home!In(v1.pods, "vss") : p.name = "vlm" /\ p.ready]
<1>1. /\ Home!Goes("nim", read) \/ Home!Goes("nim", Home!Warned(<<"nim", "">>))
      /\ v5' = v5 /\ v1' = v1 /\ v2' = v2 /\ v6' = v6 /\ v7' = v7
  BY HomeStill DEF Home!ReadNim
<1>2. /\ v3 = "nim" /\ v3' = "gpus"
      /\ v4' = read \/ v4' = Home!Warned(<<"nim", "">>)
  BY <1>1 DEF Home!Goes, Home!StepAfter
<1>3. CASE v4' = Home!Warned(<<"nim", "">>)
  BY <1>1, <1>2, <1>3, HomeWarned, HomePut, HomeProbes DEF Home!Steps
<1>4. CASE v4' = read
  <2> DEFINE s == v4'
             x == (\E p \in Home!In(v1.pods, "vss") : p.name = "vlm" /\ p.ready)
  <2>1. s \in SnapOf(v4.ns, x, v4.temps, v4.kafka, v4.totals, v4.cams,
                     v4.running, v4.ingesting, v4.rows, v4.listed, v4.warnings)
    BY <1>4, HomeProbes, PutNim
  <2> HIDE DEF s, x
  <2>2. /\ HomeShape(s) /\ s.ns = v4.ns /\ s.nim = x /\ s.temps = v4.temps
        /\ s.kafka = v4.kafka /\ s.totals = v4.totals /\ s.cams = v4.cams
        /\ s.running = v4.running /\ s.ingesting = v4.ingesting /\ s.rows = v4.rows
        /\ s.listed = v4.listed /\ s.warnings = v4.warnings
    BY <2>1, SnapOfIs
  <2>3. SnapFits(s, "gpus", v2.since)
    BY <2>2, <1>2, HomeProbes DEF SnapFits
  <2>4. ASSUME v2.since = {v1} PROVE SnapAgrees(s, "gpus", v1)
    <3>1. x => \E p \in v1.pods : p.ns = "vss" /\ p.name = "vlm" /\ p.ready
      BY DEF x, Home!In
    <3>2. s.nim => \E p \in v1.pods : p.ns = "vss" /\ p.name = "vlm" /\ p.ready
      BY <3>1, <2>2
    <3> QED  BY <3>2, <2>4, <2>2, <1>2, HomeProbes DEF SnapAgrees
  <2> QED  BY <2>3, <2>4, <1>1, <1>2, HomePut, HomeProbes DEF s, Home!Steps
<1> QED  BY <1>2, <1>3, <1>4

LEMMA HomeReadGpus == ASSUME HomeInv, Home!ReadGpus PROVE HomeInv'
<1> DEFINE read == [v4 EXCEPT !.temps = v1.temps]
<1>1. /\ Home!Goes("gpus", read) \/ Home!Goes("gpus", Home!Warned(<<"gpus", "">>))
      /\ v5' = v5 /\ v1' = v1 /\ v2' = v2 /\ v6' = v6 /\ v7' = v7
  BY HomeStill DEF Home!ReadGpus
<1>2. /\ v3 = "gpus" /\ v3' = "kafka"
      /\ v4' = read \/ v4' = Home!Warned(<<"gpus", "">>)
  BY <1>1 DEF Home!Goes, Home!StepAfter
<1>3. CASE v4' = Home!Warned(<<"gpus", "">>)
  BY <1>1, <1>2, <1>3, HomeWarned, HomePut, HomeProbes DEF Home!Steps
<1>4. CASE v4' = read
  <2> DEFINE s == v4'
             x == v1.temps
  <2>1. s \in SnapOf(v4.ns, v4.nim, x, v4.kafka, v4.totals, v4.cams,
                     v4.running, v4.ingesting, v4.rows, v4.listed, v4.warnings)
    BY <1>4, HomeProbes, PutTemps
  <2> HIDE DEF s
  <2>2. /\ HomeShape(s) /\ s.ns = v4.ns /\ s.nim = v4.nim /\ s.temps = x /\ s.kafka = v4.kafka
        /\ s.totals = v4.totals /\ s.cams = v4.cams /\ s.running = v4.running
        /\ s.ingesting = v4.ingesting /\ s.rows = v4.rows /\ s.listed = v4.listed
        /\ s.warnings = v4.warnings
    BY <2>1, SnapOfIs
  <2>3. SnapFits(s, "kafka", v2.since)
    BY <2>2, <1>2, HomeProbes DEF SnapFits
  <2>4. ASSUME v2.since = {v1} PROVE SnapAgrees(s, "kafka", v1)
    BY <2>4, <2>2, <1>2, HomeProbes DEF SnapAgrees
  <2> QED  BY <2>3, <2>4, <1>1, <1>2, HomePut, HomeProbes DEF s, Home!Steps
<1> QED  BY <1>2, <1>3, <1>4

LEMMA HomeReadTotals == ASSUME HomeInv, Home!ReadTotals PROVE HomeInv'
<1> DEFINE read == [v4 EXCEPT !.totals = v1.totals]
<1>1. /\ Home!Goes("totals", read)
      /\ v5' = v5 /\ v1' = v1 /\ v2' = v2 /\ v6' = v6 /\ v7' = v7
  BY HomeStill DEF Home!ReadTotals
<1>2. /\ v3 = "totals" /\ v3' = "cameras"
      /\ v4' = read
  BY <1>1 DEF Home!Goes, Home!StepAfter
<1>4. CASE v4' = read
  <2> DEFINE s == v4'
             x == v1.totals
  <2>1. s \in SnapOf(v4.ns, v4.nim, v4.temps, v4.kafka, x, v4.cams,
                     v4.running, v4.ingesting, v4.rows, v4.listed, v4.warnings)
    BY <1>4, HomeProbes, PutTotals
  <2> HIDE DEF s
  <2>2. /\ HomeShape(s) /\ s.ns = v4.ns /\ s.nim = v4.nim /\ s.temps = v4.temps
        /\ s.kafka = v4.kafka /\ s.totals = x /\ s.cams = v4.cams /\ s.running = v4.running
        /\ s.ingesting = v4.ingesting /\ s.rows = v4.rows /\ s.listed = v4.listed
        /\ s.warnings = v4.warnings
    BY <2>1, SnapOfIs
  <2>3. SnapFits(s, "cameras", v2.since)
    BY <2>2, <1>2, HomeProbes DEF SnapFits
  <2>4. ASSUME v2.since = {v1} PROVE SnapAgrees(s, "cameras", v1)
    BY <2>4, <2>2, <1>2, HomeProbes DEF SnapAgrees
  <2> QED  BY <2>3, <2>4, <1>1, <1>2, HomePut, HomeProbes DEF s, Home!Steps
<1> QED  BY <1>2, <1>4

LEMMA CamerasFinite ==
  ASSUME NEW w \in HomeGiven.Worlds
  PROVE  IsFiniteSet(Home!Cameras(w.sensors))
<1> DEFINE list == w.sensors
           d == {j \in DOMAIN list : list[j].status # "removed"}
           cam(n) == [name |-> n, live |-> Home!FirstOf(list, n).status = "online"]
           f == [i \in d |-> cam(list[i].name)]
<1>1. IsFiniteSet(d)
  <2>1. IsFiniteSet(DOMAIN list)
    <3>1. DOMAIN list = 1 .. Len(list) /\ Len(list) \in Nat
      BY HomeAssumption DEF IsList
    <3> QED  BY <3>1, FS_Interval
  <2> QED  BY <2>1, FS_Subset
<1>2. Home!Cameras(list) = {cam(n) : n \in {list[i].name : i \in d}}
  BY DEF Home!Cameras
<1>3. f \in Surjection(d, Home!Cameras(list))
  <2> HIDE DEF d, list
  <2>1. f \in [d -> Home!Cameras(list)]
    BY <1>2
  <2>2. \A t \in Home!Cameras(list) : \E i \in d : f[i] = t
    BY <1>2
  <2> QED  BY <2>1, <2>2 DEF Surjection
<1> QED  BY <1>1, <1>3, FS_Surjection

LEMMA HomeReadCameras == ASSUME HomeInv, Home!ReadCameras PROVE HomeInv'
<1> DEFINE read == [v4 EXCEPT !.cams = Home!Cameras(v1.sensors), !.running = TRUE]
<1>1. /\ Home!Goes("cameras", read) \/ Home!Goes("cameras", Home!Warned(<<"cameras", "">>))
      /\ v5' = v5 /\ v1' = v1 /\ v2' = v2 /\ v6' = v6 /\ v7' = v7
  BY HomeStill DEF Home!ReadCameras, Home!CamerasFail
<1>2. /\ v3 = "cameras" /\ v3' = "rules"
      /\ v4' = read \/ v4' = Home!Warned(<<"cameras", "">>)
  BY <1>1 DEF Home!Goes, Home!StepAfter
<1>3. CASE v4' = Home!Warned(<<"cameras", "">>)
  BY <1>1, <1>2, <1>3, HomeWarned, HomePut, HomeProbes DEF Home!Steps
<1>4. CASE v4' = read
  <2> DEFINE s == v4'
             x == Home!Cameras(v1.sensors)
             y == TRUE
  <2>5. IsFiniteSet(x) /\ -1 <= Cardinality(x)
    BY CamerasFinite, FS_CardinalityType DEF HomeInv, HomeTyped
  <2>1. s \in SnapOf(v4.ns, v4.nim, v4.temps, v4.kafka, v4.totals, x,
                     y, v4.ingesting, v4.rows, v4.listed, v4.warnings)
    BY <1>4, HomeProbes, PutCams
  <2> HIDE DEF s, x, y
  <2>2. /\ HomeShape(s) /\ s.ns = v4.ns /\ s.nim = v4.nim /\ s.temps = v4.temps
        /\ s.kafka = v4.kafka /\ s.totals = v4.totals /\ s.cams = x /\ s.running = y
        /\ s.ingesting = v4.ingesting /\ s.rows = v4.rows /\ s.listed = v4.listed
        /\ s.warnings = v4.warnings
    BY <2>1, SnapOfIs
  <2>3. SnapFits(s, "rules", v2.since)
    BY <2>2, <1>2, HomeProbes, <2>5 DEF SnapFits, y
  <2>4. ASSUME v2.since = {v1} PROVE SnapAgrees(s, "rules", v1)
    BY <2>4, <2>2, <1>2, HomeProbes DEF SnapAgrees
  <2> QED  BY <2>3, <2>4, <1>1, <1>2, HomePut, HomeProbes DEF s, Home!Steps
<1> QED  BY <1>2, <1>3, <1>4

LEMMA HomeReadRules == ASSUME HomeInv, Home!ReadRules PROVE HomeInv'
<1> DEFINE read == [v4 EXCEPT !.ingesting = Home!IngestingOf(v4.cams)]
<1>1. /\ Home!Goes("rules", read) \/ Home!Goes("rules", Home!Warned(<<"rules", "">>))
      /\ v5' = v5 /\ v1' = v1 /\ v2' = v2 /\ v6' = v6 /\ v7' = v7
  BY HomeStill DEF Home!ReadRules
<1>2. /\ v3 = "rules" /\ v3' = "done"
      /\ v4' = read \/ v4' = Home!Warned(<<"rules", "">>)
  BY <1>1 DEF Home!Goes, Home!StepAfter
<1>3. CASE v4' = Home!Warned(<<"rules", "">>)
  BY <1>1, <1>2, <1>3, HomeWarned, HomePut, HomeProbes DEF Home!Steps
<1>4. CASE v4' = read
  <2> DEFINE s == v4'
             x == Home!IngestingOf(v4.cams)
  <2>5. x \in Int /\ x <= Cardinality(v4.cams)
    <3>1. /\ x = Cardinality({c \in v4.cams : c.name \in v1.rules})
          /\ {c \in v4.cams : c.name \in v1.rules} \in SUBSET v4.cams /\ IsFiniteSet(v4.cams)
      BY HomeCounts, HomeProbes DEF Home!IngestingOf, SnapFits
    <3> QED  BY <3>1, FS_Subset, FS_CardinalityType
  <2>1. s \in SnapOf(v4.ns, v4.nim, v4.temps, v4.kafka, v4.totals, v4.cams,
                     v4.running, x, v4.rows, v4.listed, v4.warnings)
    BY <1>4, HomeProbes, PutIngesting
  <2> HIDE DEF s, x
  <2>2. /\ HomeShape(s) /\ s.ns = v4.ns /\ s.nim = v4.nim /\ s.temps = v4.temps
        /\ s.kafka = v4.kafka /\ s.totals = v4.totals /\ s.cams = v4.cams
        /\ s.running = v4.running /\ s.ingesting = x /\ s.rows = v4.rows
        /\ s.listed = v4.listed /\ s.warnings = v4.warnings
    BY <2>1, SnapOfIs
  <2>3. SnapFits(s, "done", v2.since)
    BY <2>2, <1>2, HomeProbes, <2>5 DEF SnapFits
  <2>4. ASSUME v2.since = {v1} PROVE SnapAgrees(s, "done", v1)
    BY <2>4, <2>2, <1>2, HomeProbes DEF SnapAgrees
  <2> QED  BY <2>3, <2>4, <1>1, <1>2, HomePut, HomeProbes DEF s, Home!Steps
<1> QED  BY <1>2, <1>3, <1>4

LEMMA HomeListPods ==
  ASSUME HomeInv, NEW n \in {"vss", "sim"}, Home!ListPods(n)
  PROVE  HomeInv'
<1> DEFINE x == v4.rows \union Home!In(v1.pods, n)
           y == v4.listed \union {n}
           z == v4.warnings \union {<<"rows", n>>}
           s == v4'
<1>1. /\ v3 # "idle" /\ v3' = v3 /\ v5' = v5 /\ v1' = v1 /\ v2' = v2 /\ v6' = v6 /\ v7' = v7
      /\ v3' \in {"idle"} \union Home!Steps
      /\ \/ v4' = [v4 EXCEPT !.rows = x, !.listed = y]
         \/ v4' = [v4 EXCEPT !.listed = y, !.warnings = z]
  BY HomeStill DEF Home!ListPods, HomeInv, HomeTyped
<1>2. /\ HomeShape(s) /\ s.ns = v4.ns /\ s.nim = v4.nim /\ s.temps = v4.temps
      /\ s.kafka = v4.kafka /\ s.cams = v4.cams /\ s.running = v4.running
      /\ s.ingesting = v4.ingesting /\ s.listed = y
      /\ \/ s.rows = x /\ s.warnings = v4.warnings
         \/ s.rows = v4.rows /\ s.warnings = z
  <2>1. CASE v4' = [v4 EXCEPT !.rows = x, !.listed = y]
    <3>1. s \in SnapOf(v4.ns, v4.nim, v4.temps, v4.kafka, v4.totals, v4.cams,
                       v4.running, v4.ingesting, x, y, v4.warnings)
      BY <2>1, HomeProbes, PutRows
    <3> HIDE DEF s, x, y, z
    <3> QED  BY <3>1, SnapOfIs
  <2>2. CASE v4' = [v4 EXCEPT !.listed = y, !.warnings = z]
    <3>1. s \in SnapOf(v4.ns, v4.nim, v4.temps, v4.kafka, v4.totals, v4.cams,
                       v4.running, v4.ingesting, v4.rows, y, z)
      BY <2>2, HomeProbes, PutListed
    <3> HIDE DEF s, x, y, z
    <3> QED  BY <3>1, SnapOfIs
  <2> QED  BY <1>1, <2>1, <2>2
<1> HIDE DEF s
<1>3. s.warnings = {} => v4.warnings = {}
  BY <1>2
<1>4. SnapFits(s, v3, v2.since)
  BY <1>2, <1>3, HomeProbes DEF SnapFits
<1>5. ASSUME v2.since = {v1} PROVE SnapAgrees(s, v3, v1)
  <2>1. SnapAgrees(v4, v3, v1)
    BY <1>5, HomeProbes
  <2>2. s.rows \subseteq v1.pods
    BY <2>1, <1>2 DEF SnapAgrees, Home!In
  <2>3. ASSUME NEW m \in s.listed, <<"rows", m>> \notin s.warnings
        PROVE  Home!In(v1.pods, m) \subseteq s.rows
    BY <2>1, <2>3, <1>2 DEF SnapAgrees
  <2> QED  BY <2>1, <2>2, <2>3, <1>2, <1>3 DEF SnapAgrees
<1> QED  BY <1>1, <1>4, <1>5, HomePut, HomeProbes DEF s

(* The Kafka probe.                                                        *)
LEMMA HomeConnect == ASSUME HomeInv, Home!Connect PROVE HomeInv'
<1>1. /\ v3 = "kafka" /\ v1' = v1 /\ v2' = v2 /\ v6' = v6 /\ v7' = v7
      /\ \/ v5' = [v5 EXCEPT !.phase = "running"] /\ v3' = v3 /\ v4' = v4
         \/ Home!Goes("kafka", Home!Warned(<<"kafka", "">>)) /\ v5' = v5
  BY HomeStill DEF Home!Connect
<1>2. CASE v5' = [v5 EXCEPT !.phase = "running"] /\ v3' = v3 /\ v4' = v4
  <2>1. v5' \in [phase : {"none", "running", "late", "over"}, next : Nat \ {0}]
    BY <1>2, HomeProbes
  <2> QED  BY <1>1, <1>2, <2>1, HomePut, HomeProbes DEF Home!Steps
<1>3. CASE Home!Goes("kafka", Home!Warned(<<"kafka", "">>)) /\ v5' = v5
  <2>1. v4' = Home!Warned(<<"kafka", "">>) /\ v3' = "totals"
    BY <1>3 DEF Home!Goes, Home!StepAfter
  <2> QED  BY <1>1, <1>3, <2>1, HomeWarned, HomePut, HomeProbes DEF Home!Steps
<1> QED  BY <1>1, <1>2, <1>3

LEMMA HomeMeasured == ASSUME HomeInv, Home!Measured PROVE HomeInv'
<1>1. /\ v3 = "kafka" /\ v3' = "totals" /\ v4' = v4 /\ v5' = [v5 EXCEPT !.phase = "over"]
      /\ v1' = v1 /\ v2' = v2 /\ v6' = v6 /\ v7' = v7
  BY HomeStill DEF Home!Measured, Home!Goes, Home!StepAfter
<1>2. v5' \in [phase : {"none", "running", "late", "over"}, next : Nat \ {0}]
  BY <1>1, HomeProbes
<1>3. SnapFits(v4, "totals", v2.since)
  BY <1>1, HomeProbes DEF SnapFits
<1>4. v2.since = {v1} => SnapAgrees(v4, "totals", v1)
  BY <1>1, HomeProbes DEF SnapAgrees
<1> QED  BY <1>1, <1>2, <1>3, <1>4, HomePut DEF Home!Steps

LEMMA HomeDeadline == ASSUME HomeInv, Home!Deadline PROVE HomeInv'
<1>1. /\ v3 = "kafka" /\ v3' = "totals" /\ v4' = Home!Warned(<<"kafka", "">>)
      /\ v5' = [v5 EXCEPT !.phase = "late"]
      /\ v1' = v1 /\ v2' = v2 /\ v6' = v6 /\ v7' = v7
  BY HomeStill DEF Home!Deadline, Home!Goes, Home!StepAfter
<1>2. v5' \in [phase : {"none", "running", "late", "over"}, next : Nat \ {0}]
  BY <1>1, HomeProbes
<1> QED  BY <1>1, <1>2, HomeWarned, HomePut DEF Home!Steps

LEMMA HomeMeasureTopic == ASSUME HomeInv, Home!MeasureTopic PROVE HomeInv'
<1>1. PICK ok \in BOOLEAN : v4' = [v4 EXCEPT !.kafka[v5.next] = Home!Depth(ok)]
  BY DEF Home!MeasureTopic
<1>2. /\ v5' = [v5 EXCEPT !.next = v5.next + 1] /\ v3' = v3
      /\ v1' = v1 /\ v2' = v2 /\ v6' = v6 /\ v7' = v7
      /\ v3' \in {"idle"} \union Home!Steps
  BY HomeStill DEF Home!MeasureTopic, HomeInv, HomeTyped
<1> DEFINE x == [v4.kafka EXCEPT ![v5.next] = Home!Depth(ok)]
           s == v4'
<1>3. s \in SnapOf(v4.ns, v4.nim, v4.temps, x, v4.totals, v4.cams,
                   v4.running, v4.ingesting, v4.rows, v4.listed, v4.warnings)
  <2>1. v4' = [v4 EXCEPT !.kafka = x]
    BY <1>1, HomeProbes DEF HomeShape
  <2> HIDE DEF x
  <2> QED  BY <2>1, HomeProbes, PutKafka
<1>4. x \in [{1, 2} -> {-1} \union {w.depth : w \in v2.since}]
  <2>1. Home!Depth(ok) \in {-1} \union {w.depth : w \in v2.since}
    BY DEF Home!Depth, Home!Unmeasured, HomeInv, HomeTyped
  <2>2. v4.kafka \in [{1, 2} -> {-1} \union {w.depth : w \in v2.since}]
    BY HomeProbes DEF SnapFits
  <2> QED  BY <2>1, <2>2
<1> HIDE DEF s, x
<1>5. /\ HomeShape(s) /\ s.ns = v4.ns /\ s.nim = v4.nim /\ s.temps = v4.temps
      /\ s.kafka = x /\ s.cams = v4.cams /\ s.running = v4.running
      /\ s.ingesting = v4.ingesting /\ s.rows = v4.rows /\ s.listed = v4.listed
      /\ s.warnings = v4.warnings
  BY <1>3, SnapOfIs
<1>6. SnapFits(s, v3, v2.since)
  BY <1>4, <1>5, HomeProbes DEF SnapFits
<1>7. ASSUME v2.since = {v1} PROVE SnapAgrees(s, v3, v1)
  BY <1>7, <1>5, HomeProbes DEF SnapAgrees
<1>8. v5' \in [phase : {"none", "running", "late", "over"}, next : Nat \ {0}]
  BY <1>2, HomeProbes
<1> QED  BY <1>2, <1>6, <1>7, <1>8, HomePut DEF s

LEMMA HomeRender == ASSUME HomeInv, Home!Render PROVE HomeInv'
<1>1. /\ v3 = "done" /\ (v6.kiosk \/ v4.listed = {"vss", "sim"})
      /\ v6' = [v6 EXCEPT !.snap = v4]
      /\ v3' = "idle" /\ v4' = Home!Empty /\ v5' = [phase |-> "none", next |-> 1]
      /\ v1' = v1 /\ v2' = v2 /\ v7' = v7
  BY DEF Home!Render, Home!Namespaces
<1>2. v6'.snap = v4 /\ v6'.kiosk = v6.kiosk /\ v6' \in [kiosk : BOOLEAN, snap : {v6'.snap}]
  BY <1>1 DEF HomeInv, HomeTyped
<1>3. HomeTyped'
  BY <1>1, <1>2 DEF HomeInv, HomeTyped
<1>4. Collected'
  BY <1>1, HomeEmpty DEF Collected
<1>5. Rendered'
  BY <1>1, <1>2, HomeProbes DEF Rendered
<1> QED  BY <1>3, <1>4, <1>5 DEF HomeInv

(* The password of Grafana.                                                *)
LEMMA HomeReveal == ASSUME HomeInv, Home!Reveal PROVE HomeInv'
<1>1. /\ v2.reveals < HomeGiven.MaxReveals /\ v2' = [v2 EXCEPT !.reveals = v2.reveals + 1]
      /\ \/ v7' = [shown |-> TRUE, noted |-> v7.noted + 1]
         \/ v7' = [v7 EXCEPT !.noted = v7.noted + 1]
         \/ v7' = v7
      /\ v1' = v1 /\ v3' = v3 /\ v4' = v4 /\ v5' = v5 /\ v6' = v6
  BY DEF Home!Reveal, Home!Note
<1>2. /\ v2' \in [since : SUBSET HomeGiven.Worlds, moves : 0 .. HomeGiven.MaxMoves,
                  reveals : 0 .. HomeGiven.MaxReveals]
      /\ v2'.since = v2.since /\ v2'.reveals = v2.reveals + 1
  BY <1>1, HomeAssumption DEF HomeInv, HomeTyped
<1>3. v7' \in [shown : BOOLEAN, noted : Nat] /\ v7'.noted <= v2.reveals + 1
  <2>1. v7 \in [shown : BOOLEAN, noted : Nat] /\ v7.noted <= v2.reveals /\ v2.reveals \in Nat
    BY DEF HomeInv, HomeTyped
  <2> DEFINE m == v7.noted + 1
  <2>2. m \in Nat /\ m <= v2.reveals + 1 /\ v7.noted <= v2.reveals + 1
    BY <2>1
  <2> HIDE DEF m
  <2>3. CASE v7' = [shown |-> TRUE, noted |-> m]
    BY <2>2, <2>3
  <2>4. CASE v7' = [v7 EXCEPT !.noted = m]
    <3>1. v7'.noted = m
      BY <2>1, <2>4
    <3>2. v7' \in [shown : BOOLEAN, noted : Nat]
      BY <2>1, <2>2, <2>4
    <3> QED  BY <3>1, <3>2, <2>2
  <2>5. CASE v7' = v7
    BY <2>1, <2>2, <2>5
  <2> QED  BY <1>1, <2>3, <2>4, <2>5 DEF m
<1>4. HomeTyped'
  BY <1>1, <1>2, <1>3 DEF HomeInv, HomeTyped
<1> QED  BY <1>1, <1>2, <1>4 DEF HomeInv, Collected, Rendered

LEMMA HomeHide == ASSUME HomeInv, Home!Hide PROVE HomeInv'
<1>1. /\ v7' = [v7 EXCEPT !.shown = FALSE]
      /\ v1' = v1 /\ v2' = v2 /\ v3' = v3 /\ v4' = v4 /\ v5' = v5 /\ v6' = v6
  BY DEF Home!Hide
<1>2. v7' \in [shown : BOOLEAN, noted : Nat] /\ v7'.noted = v7.noted
  BY <1>1 DEF HomeInv, HomeTyped
<1>3. HomeTyped'
  BY <1>1, <1>2 DEF HomeInv, HomeTyped
<1> QED  BY <1>1, <1>3 DEF HomeInv, Collected, Rendered

LEMMA HomeStep == ASSUME HomeInv, [Home!Next]_(Home!vars) PROVE HomeInv'
<1>1. CASE UNCHANGED Home!vars
  <2>1. v1' = v1 /\ v2' = v2 /\ v3' = v3 /\ v4' = v4 /\ v5' = v5 /\ v6' = v6 /\ v7' = v7
    BY <1>1 DEF Home!vars
  <2> QED  BY <2>1 DEF HomeInv, HomeTyped, Collected, Rendered
<1>2. CASE Home!Next
  BY <1>2, HomeBegin, HomeTurn, HomeListed, HomeReadNim, HomeReadGpus, HomeConnect,
     HomeMeasureTopic, HomeMeasured, HomeDeadline, HomeReadTotals, HomeReadCameras, HomeReadRules,
     HomeRender, HomeReveal, HomeHide, HomeReadNamespace, HomeListPods
     DEF Home!Next, Home!Namespaces
<1> QED  BY <1>1, <1>2

(* What is promised: the banner is calm when nothing was wrong, the two    *)
(* readings of the pods agree, no depth is made up.                        *)
LEMMA CalmMeansOk ==
  ASSUME NEW hs \in SUBSET {"ok", "warn", "fail"}, Home!Worst(hs) = "ok"
  PROVE  hs \subseteq {"ok"}
<1>1. Home!Rank("ok") = 0 /\ Home!Rank("warn") = 1 /\ Home!Rank("fail") = 2
  BY DEF Home!Rank
<1>2. CASE hs # {}
  <2>1. \E h \in hs : \A g \in hs : Home!Rank(g) <= Home!Rank(h)
    <3>1. CASE "fail" \in hs
      <4>1. \A g \in hs : Home!Rank(g) <= Home!Rank("fail")
        BY <1>1
      <4> QED  BY <3>1, <4>1
    <3>2. CASE "fail" \notin hs /\ "warn" \in hs
      <4>1. \A g \in hs : Home!Rank(g) <= Home!Rank("warn")
        BY <3>2, <1>1
      <4> QED  BY <3>2, <4>1
    <3>3. CASE "fail" \notin hs /\ "warn" \notin hs
      <4>1. hs = {"ok"}
        BY <3>3, <1>2
      <4>2. Home!Rank("ok") <= Home!Rank("ok")
        BY <1>1
      <4> QED  BY <4>1, <4>2
    <3> QED  BY <3>1, <3>2, <3>3
  <2>2. Home!Worst(hs) = CHOOSE h \in hs : \A g \in hs : Home!Rank(g) <= Home!Rank(h)
    BY <1>2 DEF Home!Worst
  <2>3. \A g \in hs : Home!Rank(g) <= Home!Rank("ok")
    BY <2>1, <2>2
  <2> QED  BY <2>3, <1>1
<1> QED  BY <1>2

LEMMA PodsCounted ==
  ASSUME NEW w \in HomeGiven.Worlds, NEW n
  PROVE  LET c == Home!Count(Home!In(w.pods, n)) IN
         /\ c.total \in Nat /\ c.ready \in Nat /\ c.failed \in Nat /\ c.ready <= c.total
         /\ c.total = Cardinality(Home!In(w.pods, n))
         /\ c.ready = Cardinality({p \in Home!In(w.pods, n) : Home!CountsReady(p)})
         /\ c.ready = c.total => \A p \in Home!In(w.pods, n) : Home!CountsReady(p)
<1> DEFINE pods == Home!In(w.pods, n)
           good == {p \in pods : Home!CountsReady(p)}
           bad == {p \in pods : Home!Bad(p)}
<1>1. IsFiniteSet(pods)
  <2>1. pods \in SUBSET w.pods
    BY DEF Home!In
  <2> QED  BY <2>1, HomeAssumption, FS_Subset
<1>2. good \in SUBSET pods /\ bad \in SUBSET pods
  OBVIOUS
<1>3. /\ IsFiniteSet(good) /\ Cardinality(good) <= Cardinality(pods)
      /\ Cardinality(pods) = Cardinality(good) => pods = good
  BY <1>1, <1>2, FS_Subset
<1>4. Cardinality(pods) \in Nat /\ Cardinality(good) \in Nat /\ Cardinality(bad) \in Nat
  BY <1>1, <1>2, <1>3, FS_Subset, FS_CardinalityType
<1>5. Home!Count(pods) = [total |-> Cardinality(pods), ready |-> Cardinality(good),
                          failed |-> Cardinality(bad)]
  BY HomeCounts DEF Home!Count
<1> HIDE DEF bad
<1> QED  BY <1>3, <1>4, <1>5

(* As many pods are ready as there are in two namespaces together: then in *)
(* each.                                                                   *)
LEMMA AllAreReady ==
  ASSUME NEW s, DOMAIN s.ns = {"vss", "sim"},
         \A n \in {"vss", "sim"} : /\ s.ns[n].total \in Nat /\ s.ns[n].ready \in Nat
                                   /\ s.ns[n].ready <= s.ns[n].total,
         ~(Home!ReadyPods(s) < Home!TotalPods(s))
  PROVE  \A n \in {"vss", "sim"} : s.ns[n].ready = s.ns[n].total
<1> DEFINE all(n) == {n} \X (1 .. s.ns[n].total)
           up(n) == {n} \X (1 .. s.ns[n].ready)
           A == UNION {all(n) : n \in DOMAIN s.ns}
           U == UNION {up(n) : n \in DOMAIN s.ns}
<1>1. A = all("vss") \union all("sim") /\ U = up("vss") \union up("sim")
  OBVIOUS
<1>2. IsFiniteSet(A)
  <2>1. IsFiniteSet({"vss"}) /\ IsFiniteSet({"sim"})
    BY FS_Singleton
  <2>2. \A k \in Nat : IsFiniteSet(1 .. k)
    BY FS_Interval
  <2>3. IsFiniteSet(1 .. s.ns["vss"].total) /\ IsFiniteSet(1 .. s.ns["sim"].total)
    BY <2>2
  <2>4. IsFiniteSet(all("vss")) /\ IsFiniteSet(all("sim"))
    BY <2>1, <2>3, FS_Product
  <2>5. IsFiniteSet(all("vss") \union all("sim"))
    BY <2>4, FS_Union
  <2> QED  BY <1>1, <2>5
<1>3. U \in SUBSET A
  BY <1>1
<1>4. Home!TotalPods(s) = Cardinality(A) /\ Home!ReadyPods(s) = Cardinality(U)
  BY HomeCounts DEF Home!TotalPods, Home!ReadyPods
<1>5. U = A
  <2> HIDE DEF U, A
  <2>1. IsFiniteSet(U) /\ Cardinality(U) <= Cardinality(A)
        /\ (Cardinality(A) = Cardinality(U) => A = U)
    BY <1>2, <1>3, FS_Subset
  <2>2. Cardinality(U) \in Nat /\ Cardinality(A) \in Nat
    BY <1>2, <2>1, FS_CardinalityType
  <2> QED  BY <1>4, <2>1, <2>2
<1>6. ASSUME NEW n \in {"vss", "sim"} PROVE s.ns[n].ready = s.ns[n].total
  <2>1. CASE s.ns[n].ready < s.ns[n].total
    <3> DEFINE t == s.ns[n].total
    <3>1. t \in 1 .. t /\ t \notin 1 .. s.ns[n].ready
      BY <2>1
    <3>2. <<n, t>> \in A /\ <<n, t>> \notin U
      BY <3>1, <1>6
    <3> QED  BY <3>2, <1>5
  <2> QED  BY <2>1
<1> QED  BY <1>6

LEMMA SignalsAreWords ==
  ASSUME NEW s
  PROVE  Home!Signals(s) \in SUBSET {"ok", "warn", "fail"}
<1>1. Home!PodSignal(s) \in SUBSET {"ok", "warn", "fail"}
  BY DEF Home!PodSignal
<1>2. Home!GpuSignal(s) \in SUBSET {"ok", "warn", "fail"}
  BY DEF Home!GpuSignal
<1> HIDE DEF Home!PodSignal, Home!GpuSignal
<1> QED  BY <1>1, <1>2 DEF Home!Signals

(* A calm banner over a snapshot whose collection is done.                 *)
LEMMA CalmIsWhole ==
  ASSUME NEW w \in HomeGiven.Worlds, NEW s, NEW ws, SnapFits(s, "done", ws),
         SnapAgrees(s, "done", w), Home!Banner(s) = "ok"
  PROVE  Home!Well(w) /\ s.running
<1>1. Home!Signals(s) \subseteq {"ok"}
  BY SignalsAreWords, CalmMeansOk DEF Home!Banner
<1>2. Home!PodSignal(s) \subseteq {"ok"} /\ Home!GpuSignal(s) \subseteq {"ok"}
  BY <1>1 DEF Home!Signals
<1>3. s.nim
  <2>1. (IF s.nim THEN "ok" ELSE "warn") \in Home!Signals(s)
    BY DEF Home!Signals
  <2> QED  BY <2>1, <1>1
<1>4. s.warnings = {}
  <2>1. (IF s.warnings # {} THEN "warn" ELSE "ok") \in Home!Signals(s)
    BY DEF Home!Signals
  <2> QED  BY <2>1, <1>1
<1>5. DOMAIN s.ns = {"vss", "sim"} /\ s.running
  BY <1>4 DEF SnapFits
<1>6. s.temps = w.temps
  BY <1>4 DEF SnapAgrees
<1>7. \A n \in {"vss", "sim"} : s.ns[n] = Home!Count(Home!In(w.pods, n))
  BY <1>5 DEF SnapAgrees
<1>8. ~(Home!ReadyPods(s) < Home!TotalPods(s))
  <2>1. DOMAIN s.ns # {}
    BY <1>5
  <2>2. CASE Home!ReadyPods(s) < Home!TotalPods(s)
    BY <1>2, <2>1, <2>2 DEF Home!PodSignal
  <2> QED  BY <2>2
<1>9. \A n \in {"vss", "sim"} : s.ns[n].ready = s.ns[n].total
  <2>1. \A n \in {"vss", "sim"} : /\ s.ns[n].total \in Nat /\ s.ns[n].ready \in Nat
                                  /\ s.ns[n].ready <= s.ns[n].total
    BY <1>7, PodsCounted
  <2> QED  BY <2>1, <1>5, <1>8, AllAreReady
<1>a. \A p \in w.pods : Home!CountsReady(p)
  <2> SUFFICES ASSUME NEW p \in w.pods PROVE Home!CountsReady(p)
    OBVIOUS
  <2>1. p.ns \in {"vss", "sim"} /\ p \in Home!In(w.pods, p.ns)
    BY HomeAssumption DEF Home!In
  <2>2. \A q \in Home!In(w.pods, p.ns) : Home!CountsReady(q)
    BY <1>7, <1>9, <2>1, PodsCounted
  <2> QED  BY <2>1, <2>2
<1>b. \E p \in w.pods : p.ns = "vss" /\ p.name = "vlm" /\ p.ready
  BY <1>3 DEF SnapAgrees
<1>c. \A t \in w.temps : t < 70
  <2> SUFFICES ASSUME NEW t \in w.temps PROVE t < 70
    OBVIOUS
  <2>1. t \in Int /\ t \in s.temps
    BY <1>6, HomeAssumption
  <2>2. CASE t >= 70
    BY <2>1, <2>2, <1>2 DEF Home!GpuSignal
  <2> QED  BY <2>1, <2>2
<1> QED  BY <1>5, <1>a, <1>b, <1>c DEF Home!Well

(* Both counts of the ready pods of a namespace.                           *)
LEMMA RowsCountAlike ==
  ASSUME NEW w \in HomeGiven.Worlds, NEW s, SnapAgrees(s, "done", w), NEW n \in DOMAIN s.ns,
         n \in s.listed, <<"rows", n>> \notin s.warnings,
         \A p \in w.pods : Home!Bad(p) => ~p.ready
  PROVE  s.ns[n].ready = Home!RowsReady(s, n)
<1>1. s.rows \subseteq w.pods /\ Home!In(w.pods, n) \subseteq s.rows
  BY DEF SnapAgrees
<1>2. Home!In(s.rows, n) = Home!In(w.pods, n)
  BY <1>1 DEF Home!In
<1>3. \A p \in w.pods : Home!RowReady(p) <=> Home!CountsReady(p)
  BY DEF Home!RowReady, Home!CountsReady, Home!Bad
<1>4. {p \in Home!In(s.rows, n) : Home!RowReady(p)} = {p \in Home!In(w.pods, n) : Home!CountsReady(p)}
  BY <1>2, <1>3 DEF Home!In
<1>5. s.ns[n].ready = Cardinality({p \in Home!In(w.pods, n) : Home!CountsReady(p)})
  BY PodsCounted DEF SnapAgrees
<1> QED  BY <1>4, <1>5, HomeCounts DEF Home!RowsReady

LEMMA HomePromise ==
  HomeInv => /\ Home!TypeOK /\ Home!NoFalseZero /\ Home!CalmIsEarned /\ Home!CountsAgree
             /\ Home!IngestingAreKnown
<1> SUFFICES ASSUME HomeInv PROVE /\ Home!TypeOK /\ Home!NoFalseZero /\ Home!CalmIsEarned
                                  /\ Home!CountsAgree /\ Home!IngestingAreKnown
  OBVIOUS
<1>1. Home!TypeOK
  <2>1. v7.noted \in 0 .. HomeGiven.MaxReveals
    BY HomeAssumption DEF HomeInv, HomeTyped
  <2> QED  BY <2>1 DEF HomeInv, HomeTyped, Home!TypeOK
<1>2. CASE v6.snap = Home!Empty
  BY <1>1, <1>2 DEF Home!Shown, Home!NoFalseZero, Home!CalmIsEarned, Home!CountsAgree,
                    Home!IngestingAreKnown
<1>3. CASE v6.snap # Home!Empty
  <2> DEFINE s == v6.snap
  <2>1. /\ SnapFits(s, "done", v2.since) /\ v1 \in HomeGiven.Worlds
        /\ v2.since = {v1} => SnapAgrees(s, "done", v1)
        /\ v6.kiosk \/ s.listed = {"vss", "sim"}
    BY <1>3 DEF HomeInv, HomeTyped, Rendered
  <2> HIDE DEF s
  <2>2. Home!NoFalseZero
    <3>1. \A i \in {1, 2} : s.kafka[i] = -1 \/ s.kafka[i] \in {x.depth : x \in v2.since}
      BY <2>1 DEF SnapFits
    <3> QED  BY <3>1 DEF s, Home!NoFalseZero, Home!Topics, Home!Unmeasured
  <2>3. Home!CalmIsEarned
    BY <2>1, CalmIsWhole DEF s, Home!CalmIsEarned, Home!Unturned
  <2>4. Home!CountsAgree
    <3> SUFFICES ASSUME ~v6.kiosk, v2.since = {v1}, NEW n \in DOMAIN s.ns,
                        <<"rows", n>> \notin s.warnings, \A p \in v1.pods : Home!Bad(p) => ~p.ready
                 PROVE  s.ns[n].ready = Home!RowsReady(s, n)
      BY DEF s, Home!CountsAgree, Home!Unturned
    <3>1. n \in s.listed
      BY <2>1 DEF SnapFits
    <3> QED  BY <2>1, <3>1, RowsCountAlike
  <2>5. Home!IngestingAreKnown
    BY <2>1, HomeCounts DEF s, SnapFits, Home!IngestingAreKnown
  <2> QED  BY <1>1, <2>2, <2>3, <2>4, <2>5
<1> QED  BY <1>2, <1>3

(* Each time the password is shown was noted before.                       *)
LEMMA RevealStepKept ==
  ASSUME HomeInv, [Home!Next]_(Home!vars)
  PROVE  Home!RevealStep
<1>0. v7 \in [shown : BOOLEAN, noted : Nat]
  BY DEF HomeInv, HomeTyped
<1>1. CASE v7' = v7
  BY <1>1 DEF Home!RevealStep
<1>2. CASE Home!Reveal
  <2>1. \/ v7' = [shown |-> TRUE, noted |-> v7.noted + 1]
        \/ v7' = [v7 EXCEPT !.noted = v7.noted + 1]
        \/ v7' = v7
    BY <1>2 DEF Home!Reveal, Home!Note
  <2>2. v7.noted + 1 > v7.noted
    BY <1>0
  <2> QED  BY <2>1, <2>2, <1>0 DEF Home!RevealStep
<1>3. CASE Home!Hide
  BY <1>3, <1>0 DEF Home!Hide, Home!RevealStep
<1>4. CASE Home!Next /\ ~Home!Reveal /\ ~Home!Hide
  <2>1. v7' = v7
    BY <1>4, HomeStill DEF Home!Next, Home!Begin, Home!Turn, Home!Listed, Home!ReadNim, Home!ReadGpus,
       Home!Connect, Home!MeasureTopic, Home!Measured, Home!Deadline, Home!ReadTotals,
       Home!ReadCameras, Home!ReadRules, Home!Render, Home!ReadNamespace, Home!ListPods
  <2> QED  BY <2>1 DEF Home!RevealStep
<1> QED  BY <1>1, <1>2, <1>3, <1>4 DEF Home!vars

--------------------------------------------------------------------------------
(* A set of natural numbers that is not empty has a smallest.              *)
LEMMA SmallestIn ==
  ASSUME NEW T \in SUBSET Nat, T # {}
  PROVE  \E k \in T : \A j \in T : k <= j
<1> DEFINE less == OpToRel(<, Nat)
<1>1. IsWellFoundedOn(less, Nat)
  BY NatLessThanWellFounded
<1>2. \A x, y \in Nat : <<y, x>> \in less <=> y < x
  BY DEF OpToRel
<1> HIDE DEF less
<1>3. PICK x \in T : \A y \in T : ~ (<<y, x>> \in less)
  BY <1>1, WFMin
<1>4. \A y \in T : y \in Nat /\ x \in Nat /\ ~(y < x)
  BY <1>2, <1>3
<1>5. \A y \in T : x <= y
  BY <1>4
<1> QED  BY <1>5

--------------------------------------------------------------------------------
(* The statistics of the storage (lib/aws.ts, lib/storage-substrate.ts, the *)
(* storage page and the VST panel): v1 the buckets, v2 the totals, v3 the   *)
(* walks, v4 the page, v5 the panel.                                        *)

StorageCounts == \A S : Storage!Cardinality(S) = Cardinality(S)
LEMMA StorageCountsHold == StorageCounts
BY DEF StorageCounts, Storage!Cardinality, Cardinality

StTotals == [there : BOOLEAN, count : Nat, cut : BOOLEAN, drift : Nat,
             age : 0 .. StorageGiven.FreshFor, failed : 0 .. StorageGiven.Backoff]
StWalks  == [on : BOOLEAN, pos : Nat, count : Nat, pages : 0 .. StorageGiven.PageLimit, drift : Nat]

Close(a, b, d) == a - b <= d /\ b - a <= d
UpTo(keys, pos) == {k \in keys : k <= pos}

(* A walk has counted the keys it is past but for what happened since it   *)
(* began, a page for each; a total is what such a walk came to.            *)
KeysFit(keys) == keys \in SUBSET StorageGiven.Keys /\ IsFiniteSet(keys)
WalkFits(w, keys) ==
  w.on => /\ w.pages = w.count /\ w.pages < StorageGiven.PageLimit
          /\ Close(w.count, Cardinality(UpTo(keys, w.pos)), w.drift)
TotalFits(c, keys) ==
  c.there => IF c.cut THEN c.count = StorageGiven.PageLimit
             ELSE Close(c.count, Cardinality(keys), c.drift)

StorageTyped ==
  /\ v1 \in [keys : [StorageGiven.Buckets -> SUBSET StorageGiven.Keys],
             dark : SUBSET StorageGiven.Buckets, changes : 0 .. StorageGiven.MaxChanges]
  /\ v2 \in [StorageGiven.Buckets -> StTotals]
  /\ v3 \in [StorageGiven.Buckets -> StWalks]
  /\ v4 \in [asking : BOOLEAN, shown : {v4.shown}, refreshing : BOOLEAN,
             missing : SUBSET StorageGiven.Buckets, base : {v4.base}]
  /\ v5 \in [state : {"loading", "complete", "truncated", "pending", "unavailable"}, count : Nat]
PanelFits == v5.state \in {"complete", "truncated"} => v2[StorageGiven.Recordings].there
StorageInv ==
  /\ StorageTyped /\ PanelFits
  /\ \A b \in StorageGiven.Buckets :
       KeysFit(v1.keys[b]) /\ TotalFits(v2[b], v1.keys[b]) /\ WalkFits(v3[b], v1.keys[b])

LEMMA StorageNumbers ==
  /\ StorageGiven.Recordings \in StorageGiven.Buckets /\ StorageGiven.Keys \subseteq Nat \ {0}
  /\ StorageGiven.PageLimit \in Nat \ {0} /\ StorageGiven.FreshFor \in Nat
  /\ StorageGiven.Backoff \in Nat /\ StorageGiven.MaxChanges \in Nat
BY StorageAssumption

LEMMA StorageWalk ==
  /\ Storage!Idle = [on |-> FALSE, pos |-> 0, count |-> 0, pages |-> 0, drift |-> 0]
  /\ Storage!Start = [on |-> TRUE, pos |-> 0, count |-> 0, pages |-> 0, drift |-> 0]
  /\ Storage!Idle \in StWalks /\ Storage!Start \in StWalks
<1>1. Storage!Idle = [on |-> FALSE, pos |-> 0, count |-> 0, pages |-> 0, drift |-> 0]
  BY DEF Storage!Idle
<1>2. Storage!Idle \in [on : BOOLEAN, pos : {0}, count : {0}, pages : {0}, drift : {0}]
  BY <1>1
<1>3. Storage!Start \in [on : {TRUE}, pos : {0}, count : {0}, pages : {0}, drift : {0}]
  BY <1>2 DEF Storage!Start
<1>4. 0 \in Nat /\ 0 \in 0 .. StorageGiven.PageLimit
  BY StorageNumbers
<1> QED  BY <1>1, <1>3, <1>4 DEF StWalks

LEMMA StorageStartFits ==
  ASSUME NEW keys, KeysFit(keys)
  PROVE  WalkFits(Storage!Start, keys) /\ WalkFits(Storage!Idle, keys)
<1>1. UpTo(keys, 0) = {}
  BY StorageNumbers DEF UpTo, KeysFit
<1>2. Cardinality(UpTo(keys, 0)) = 0
  BY <1>1, FS_EmptySet
<1>3. 0 < StorageGiven.PageLimit /\ Close(0, 0, 0)
  BY StorageNumbers DEF Close
<1> QED  BY <1>2, <1>3, StorageWalk DEF WalkFits

LEMMA StorageStart == Storage!Init => StorageInv
<1> SUFFICES ASSUME Storage!Init PROVE StorageInv
  OBVIOUS
<1> DEFINE none == [there |-> FALSE, count |-> 0, cut |-> FALSE, drift |-> 0, age |-> 0,
                    failed |-> StorageGiven.Backoff]
<1>1. /\ v1 \in [keys : StorageGiven.Contents, dark : {{}}, changes : {0}]
      /\ v2 = [b \in StorageGiven.Buckets |-> none]
      /\ v3 = [b \in StorageGiven.Buckets |-> Storage!Idle]
      /\ v4 = [asking |-> FALSE, shown |-> -1, refreshing |-> FALSE,
               missing |-> StorageGiven.Buckets, base |-> -1]
      /\ v5 = [state |-> "loading", count |-> 0]
  BY DEF Storage!Init, Storage!NoStats
<1>2. none \in StTotals /\ none.there = FALSE
  BY StorageNumbers DEF StTotals
<1> HIDE DEF none
<1>3. \A b \in StorageGiven.Buckets : KeysFit(v1.keys[b])
  BY <1>1, StorageAssumption DEF KeysFit
<1>4. StorageTyped
  <2>1. v1 \in [keys : [StorageGiven.Buckets -> SUBSET StorageGiven.Keys],
                dark : SUBSET StorageGiven.Buckets, changes : 0 .. StorageGiven.MaxChanges]
    <3>1. StorageGiven.Contents \subseteq [StorageGiven.Buckets -> SUBSET StorageGiven.Keys]
      BY StorageAssumption
    <3> QED  BY <1>1, <3>1, StorageNumbers
  <2>2. v2 \in [StorageGiven.Buckets -> StTotals] /\ v3 \in [StorageGiven.Buckets -> StWalks]
    BY <1>1, <1>2, StorageWalk
  <2> QED  BY <1>1, <2>1, <2>2 DEF StorageTyped
<1>5. \A b \in StorageGiven.Buckets : TotalFits(v2[b], v1.keys[b]) /\ WalkFits(v3[b], v1.keys[b])
  BY <1>1, <1>2, <1>3, StorageStartFits DEF TotalFits
<1> QED  BY <1>1, <1>3, <1>4, <1>5 DEF StorageInv, PanelFits

LEMMA StoragePromise ==
  StorageInv => Storage!TypeOK /\ Storage!CountIsClose /\ Storage!PanelKnowsItsFigures
<1> SUFFICES ASSUME StorageInv
             PROVE  Storage!TypeOK /\ Storage!CountIsClose /\ Storage!PanelKnowsItsFigures
  OBVIOUS
<1>1. Storage!TypeOK
  BY DEF StorageInv, StorageTyped, StTotals, StWalks, Storage!TypeOK
<1>2. Storage!CountIsClose
  BY StorageCountsHold DEF StorageCounts, StorageInv, TotalFits, Close, Storage!CountIsClose
<1> QED  BY <1>1, <1>2 DEF StorageInv, PanelFits, Storage!PanelKnowsItsFigures

--------------------------------------------------------------------------------
(* A key that comes or goes makes a count one off.                         *)
LEMMA ToggleIsClose ==
  ASSUME NEW S, IsFiniteSet(S), NEW T, NEW k, T = S \/ T = S \union {k} \/ T = S \ {k}
  PROVE  /\ IsFiniteSet(T) /\ Cardinality(S) \in Nat /\ Cardinality(T) \in Nat
         /\ Close(Cardinality(S), Cardinality(T), 1)
<1>1. /\ IsFiniteSet(S \union {k}) /\ IsFiniteSet(S \ {k})
      /\ Cardinality(S \union {k}) \in {Cardinality(S), Cardinality(S) + 1}
      /\ Cardinality(S \ {k}) \in {Cardinality(S), Cardinality(S) - 1}
  BY FS_AddElement, FS_RemoveElement
<1>2. Cardinality(S) \in Nat
  BY FS_CardinalityType
<1>3. IsFiniteSet(T)
  BY <1>1
<1>4. Cardinality(T) \in Nat
  BY <1>3, FS_CardinalityType
<1>5. Cardinality(T) \in {Cardinality(S), Cardinality(S) + 1, Cardinality(S) - 1}
  BY <1>1
<1> QED  BY <1>2, <1>3, <1>4, <1>5 DEF Close

LEMMA CloseStays ==
  ASSUME NEW a \in Nat, NEW b \in Nat, NEW c \in Nat, NEW d \in Nat, Close(a, b, d), Close(b, c, 1)
  PROVE  Close(a, c, d + 1)
BY DEF Close

LEMMA KeysChange ==
  ASSUME NEW keys, KeysFit(keys), NEW k \in StorageGiven.Keys, NEW then,
         then \in {keys \ {k}, keys \union {k}}
  PROVE  /\ KeysFit(then) /\ Cardinality(keys) \in Nat /\ Cardinality(then) \in Nat
         /\ Close(Cardinality(keys), Cardinality(then), 1)
         /\ \A pos \in Nat : /\ Cardinality(UpTo(keys, pos)) \in Nat
                             /\ Cardinality(UpTo(then, pos)) \in Nat
                             /\ Close(Cardinality(UpTo(keys, pos)), Cardinality(UpTo(then, pos)), 1)
<1>1. /\ IsFiniteSet(then) /\ Cardinality(keys) \in Nat /\ Cardinality(then) \in Nat
      /\ Close(Cardinality(keys), Cardinality(then), 1)
  BY ToggleIsClose DEF KeysFit
<1>2. ASSUME NEW pos \in Nat
      PROVE  /\ Cardinality(UpTo(keys, pos)) \in Nat /\ Cardinality(UpTo(then, pos)) \in Nat
             /\ Close(Cardinality(UpTo(keys, pos)), Cardinality(UpTo(then, pos)), 1)
  <2>1. UpTo(then, pos) \in {UpTo(keys, pos), UpTo(keys, pos) \union {k}, UpTo(keys, pos) \ {k}}
    <3>1. CASE k <= pos
      BY <3>1 DEF UpTo
    <3>2. CASE ~(k <= pos)
      BY <3>2 DEF UpTo
    <3> QED  BY <3>1, <3>2
  <2>2. IsFiniteSet(UpTo(keys, pos))
    <3>1. UpTo(keys, pos) \in SUBSET keys
      BY DEF UpTo
    <3> QED  BY <3>1, FS_Subset DEF KeysFit
  <2> DEFINE S == UpTo(keys, pos)
             T == UpTo(then, pos)
  <2>3. IsFiniteSet(S) /\ (T = S \/ T = S \union {k} \/ T = S \ {k})
    BY <2>1, <2>2
  <2> HIDE DEF S, T
  <2>4. /\ Cardinality(S) \in Nat /\ Cardinality(T) \in Nat
        /\ Close(Cardinality(S), Cardinality(T), 1)
    BY <2>3, ToggleIsClose
  <2> QED  BY <2>4 DEF S, T
<1> QED  BY <1>1, <1>2 DEF KeysFit

(* A change of a bucket: it drifts from its total and from its walk.       *)
LEMMA TotalDrifts ==
  ASSUME NEW keys, KeysFit(keys), NEW k \in StorageGiven.Keys, NEW then,
         then \in {keys \ {k}, keys \union {k}}, NEW c \in StTotals, TotalFits(c, keys), NEW d,
         d \in [there : {c.there}, count : {c.count}, cut : {c.cut},
                drift : {IF c.there THEN c.drift + 1 ELSE c.drift}, age : {c.age}, failed : {c.failed}]
  PROVE  d \in StTotals /\ TotalFits(d, then) /\ d.there = c.there
<1> DEFINE e == IF c.there THEN c.drift + 1 ELSE c.drift
<1>1. c.drift \in Nat /\ c.count \in Nat /\ e \in Nat
  BY DEF StTotals
<1>2. d.there = c.there /\ d.count = c.count /\ d.cut = c.cut /\ d.drift = e
  OBVIOUS
<1>3. d \in StTotals
  <2> HIDE DEF e
  <2> QED  BY <1>1 DEF StTotals, e
<1>4. ASSUME c.there, ~c.cut PROVE Close(d.count, Cardinality(then), d.drift)
  <2>1. Close(c.count, Cardinality(keys), c.drift)
    BY <1>4 DEF TotalFits
  <2>2. Close(c.count, Cardinality(then), c.drift + 1)
    BY <1>1, <2>1, KeysChange, CloseStays
  <2> QED  BY <1>2, <1>4, <2>2
<1>5. TotalFits(d, then)
  BY <1>2, <1>4 DEF TotalFits
<1> QED  BY <1>2, <1>3, <1>5

LEMMA WalkDrifts ==
  ASSUME NEW keys, KeysFit(keys), NEW k \in StorageGiven.Keys, NEW then,
         then \in {keys \ {k}, keys \union {k}}, NEW w \in StWalks, WalkFits(w, keys), NEW u,
         u \in [on : {w.on}, pos : {w.pos}, count : {w.count}, pages : {w.pages},
                drift : {IF w.on THEN w.drift + 1 ELSE w.drift}]
  PROVE  u \in StWalks /\ WalkFits(u, then)
<1> DEFINE e == IF w.on THEN w.drift + 1 ELSE w.drift
<1>1. w.drift \in Nat /\ w.count \in Nat /\ w.pos \in Nat /\ e \in Nat
  BY DEF StWalks
<1>2. u.on = w.on /\ u.pos = w.pos /\ u.count = w.count /\ u.pages = w.pages /\ u.drift = e
  OBVIOUS
<1>3. u \in StWalks
  <2> HIDE DEF e
  <2> QED  BY <1>1 DEF StWalks, e
<1>4. ASSUME w.on PROVE Close(u.count, Cardinality(UpTo(then, u.pos)), u.drift)
  <2>1. Close(w.count, Cardinality(UpTo(keys, w.pos)), w.drift)
    BY <1>4 DEF WalkFits
  <2>2. Close(w.count, Cardinality(UpTo(then, w.pos)), w.drift + 1)
    BY <1>1, <2>1, KeysChange, CloseStays
  <2> QED  BY <1>2, <1>4, <2>2
<1>5. WalkFits(u, then)
  BY <1>2, <1>4 DEF WalkFits
<1> QED  BY <1>3, <1>5

LEMMA StorageTypes ==
  ASSUME StorageInv, NEW b \in StorageGiven.Buckets
  PROVE  /\ v1.keys \in [StorageGiven.Buckets -> SUBSET StorageGiven.Keys]
         /\ v2 \in [StorageGiven.Buckets -> StTotals] /\ v3 \in [StorageGiven.Buckets -> StWalks]
         /\ v2[b] \in StTotals /\ v3[b] \in StWalks
         /\ KeysFit(v1.keys[b]) /\ TotalFits(v2[b], v1.keys[b]) /\ WalkFits(v3[b], v1.keys[b])
BY DEF StorageInv, StorageTyped

LEMMA StorageChange ==
  ASSUME StorageInv, NEW b \in StorageGiven.Buckets, NEW k \in StorageGiven.Keys, Storage!Change(b, k)
  PROVE  StorageInv'
<1> DEFINE keys == v1.keys[b]
           then == IF k \in keys THEN keys \ {k} ELSE keys \union {k}
           c == [v2[b] EXCEPT !.drift = IF v2[b].there THEN v2[b].drift + 1 ELSE v2[b].drift]
           w == [v3[b] EXCEPT !.drift = IF v3[b].on THEN v3[b].drift + 1 ELSE v3[b].drift]
<1>1. /\ v1.changes < StorageGiven.MaxChanges
      /\ v1' = [v1 EXCEPT !.changes = v1.changes + 1, !.keys = [v1.keys EXCEPT ![b] = then]]
      /\ v4' = v4 /\ v5' = v5
  BY DEF Storage!Change, StorageInv, StorageTyped
<1>2. v2' = [v2 EXCEPT ![b] = c]
  BY StorageTypes DEF Storage!Change, Storage!Drifts
<1>3. v3' = [v3 EXCEPT ![b] = w]
  BY StorageTypes DEF Storage!Change, Storage!Drifts
<1>4. then \in {keys \ {k}, keys \union {k}}
  OBVIOUS
<1>5. c \in StTotals /\ TotalFits(c, then) /\ c.there = v2[b].there
  <2>1. c \in [there : {v2[b].there}, count : {v2[b].count}, cut : {v2[b].cut},
               drift : {IF v2[b].there THEN v2[b].drift + 1 ELSE v2[b].drift},
               age : {v2[b].age}, failed : {v2[b].failed}]
    BY StorageTypes DEF StTotals
  <2> HIDE DEF c, then
  <2> QED  BY <1>4, <2>1, StorageTypes, TotalDrifts
<1>6. w \in StWalks /\ WalkFits(w, then)
  <2>1. w \in [on : {v3[b].on}, pos : {v3[b].pos}, count : {v3[b].count}, pages : {v3[b].pages},
               drift : {IF v3[b].on THEN v3[b].drift + 1 ELSE v3[b].drift}]
    BY StorageTypes DEF StWalks
  <2>2. KeysFit(keys) /\ v3[b] \in StWalks /\ WalkFits(v3[b], keys)
    BY StorageTypes
  <2> HIDE DEF w, then, keys
  <2> QED  BY <1>4, <2>1, <2>2, WalkDrifts
<1>7. KeysFit(then)
  BY <1>4, StorageTypes, KeysChange
<1> HIDE DEF c, w, then
<1>8. /\ v1' \in [keys : [StorageGiven.Buckets -> SUBSET StorageGiven.Keys],
                  dark : SUBSET StorageGiven.Buckets, changes : 0 .. StorageGiven.MaxChanges]
      /\ v1'.keys = [v1.keys EXCEPT ![b] = then]
  <2>1. [v1.keys EXCEPT ![b] = then] \in [StorageGiven.Buckets -> SUBSET StorageGiven.Keys]
    BY <1>7, StorageTypes DEF KeysFit
  <2>2. v1.changes + 1 \in 0 .. StorageGiven.MaxChanges
    BY <1>1, StorageNumbers DEF StorageInv, StorageTyped
  <2> QED  BY <1>1, <2>1, <2>2 DEF StorageInv, StorageTyped
<1>9. StorageTyped'
  <2>1. v2' \in [StorageGiven.Buckets -> StTotals] /\ v3' \in [StorageGiven.Buckets -> StWalks]
    BY <1>2, <1>3, <1>5, <1>6, StorageTypes
  <2> QED  BY <1>1, <1>8, <2>1 DEF StorageInv, StorageTyped
<1>a. ASSUME NEW a \in StorageGiven.Buckets
      PROVE  KeysFit(v1'.keys[a]) /\ TotalFits(v2'[a], v1'.keys[a]) /\ WalkFits(v3'[a], v1'.keys[a])
  <2>1. CASE a = b
    <3>1. v1'.keys[a] = then /\ v2'[a] = c /\ v3'[a] = w
      BY <2>1, <1>2, <1>3, <1>8, StorageTypes
    <3> QED  BY <3>1, <1>5, <1>6, <1>7
  <2>2. CASE a # b
    <3>1. v1'.keys[a] = v1.keys[a] /\ v2'[a] = v2[a] /\ v3'[a] = v3[a]
      BY <2>2, <1>2, <1>3, <1>8, StorageTypes
    <3> QED  BY <3>1, StorageTypes
  <2> QED  BY <2>1, <2>2
<1>b. PanelFits'
  BY <1>1, <1>2, <1>5, StorageTypes, StorageNumbers DEF StorageInv, PanelFits
<1> QED  BY <1>9, <1>a, <1>b DEF StorageInv

LEMMA StorageOutage ==
  ASSUME StorageInv, NEW b \in StorageGiven.Buckets, Storage!Outage(b)
  PROVE  StorageInv'
<1> DEFINE dark == IF b \in v1.dark THEN v1.dark \ {b} ELSE v1.dark \union {b}
<1>1. /\ v1.changes < StorageGiven.MaxChanges
      /\ v1' = [v1 EXCEPT !.changes = v1.changes + 1, !.dark = dark]
      /\ v2' = v2 /\ v3' = v3 /\ v4' = v4 /\ v5' = v5
  BY DEF Storage!Outage
<1>2. dark \in SUBSET StorageGiven.Buckets /\ v1.changes + 1 \in 0 .. StorageGiven.MaxChanges
  BY <1>1, StorageNumbers DEF StorageInv, StorageTyped
<1> HIDE DEF dark
<1>3. /\ v1' \in [keys : [StorageGiven.Buckets -> SUBSET StorageGiven.Keys],
                  dark : SUBSET StorageGiven.Buckets, changes : 0 .. StorageGiven.MaxChanges]
      /\ v1'.keys = v1.keys
  BY <1>1, <1>2 DEF StorageInv, StorageTyped
<1> QED  BY <1>1, <1>3 DEF StorageInv, StorageTyped, PanelFits

LEMMA StorageTick == ASSUME StorageInv, Storage!Tick PROVE StorageInv'
<1> DEFINE older(c) == [c EXCEPT !.age = IF c.there /\ c.age < StorageGiven.FreshFor
                                         THEN c.age + 1 ELSE c.age,
                                 !.failed = IF c.failed < StorageGiven.Backoff
                                            THEN c.failed + 1 ELSE c.failed]
<1>1. /\ v2' = [b \in StorageGiven.Buckets |-> older(v2[b])]
      /\ v1' = v1 /\ v3' = v3 /\ v4' = v4 /\ v5' = v5
  BY DEF Storage!Tick
<1>2. ASSUME NEW c \in StTotals
      PROVE  /\ older(c) \in StTotals /\ older(c).there = c.there /\ older(c).count = c.count
             /\ older(c).cut = c.cut /\ older(c).drift = c.drift
  <2> DEFINE a == IF c.there /\ c.age < StorageGiven.FreshFor THEN c.age + 1 ELSE c.age
             f == IF c.failed < StorageGiven.Backoff THEN c.failed + 1 ELSE c.failed
  <2>1. a \in 0 .. StorageGiven.FreshFor
    BY StorageNumbers DEF StTotals
  <2>2. f \in 0 .. StorageGiven.Backoff
    BY StorageNumbers DEF StTotals
  <2>3. older(c) = [c EXCEPT !.age = a, !.failed = f]
    OBVIOUS
  <2> HIDE DEF a, f, older
  <2> QED  BY <2>1, <2>2, <2>3 DEF StTotals
<1> HIDE DEF older
<1>3. v2' \in [StorageGiven.Buckets -> StTotals]
  BY <1>1, <1>2 DEF StorageInv, StorageTyped
<1>4. ASSUME NEW b \in StorageGiven.Buckets
      PROVE  TotalFits(v2'[b], v1.keys[b]) /\ v2'[b].there = v2[b].there
  BY <1>1, <1>2, StorageTypes DEF TotalFits
<1> QED  BY <1>1, <1>3, <1>4, StorageNumbers DEF StorageInv, StorageTyped, PanelFits

(* Walks that are begun where none is on.                                  *)
LEMMA StorageRefresh ==
  ASSUME StorageInv, NEW due
  PROVE  /\ Storage!Refresh(due) \in [StorageGiven.Buckets -> StWalks]
         /\ \A b \in StorageGiven.Buckets : WalkFits(Storage!Refresh(due)[b], v1.keys[b])
<1>1. \A b \in StorageGiven.Buckets :
        Storage!Refresh(due)[b] = IF b \in due /\ ~v3[b].on THEN Storage!Start ELSE v3[b]
  BY DEF Storage!Refresh
<1>2. Storage!Refresh(due) \in [StorageGiven.Buckets -> StWalks]
  BY StorageTypes, StorageWalk DEF Storage!Refresh
<1> QED  BY <1>1, <1>2, StorageTypes, StorageStartFits

LEMMA StoragePollCold == ASSUME StorageInv, Storage!PollCold PROVE StorageInv'
<1>1. /\ v3' = Storage!Refresh(StorageGiven.Buckets)
      /\ v4' = [v4 EXCEPT !.asking = TRUE] /\ v1' = v1 /\ v2' = v2 /\ v5' = v5
  BY DEF Storage!PollCold
<1>2. v4' \in [asking : BOOLEAN, shown : {v4'.shown}, refreshing : BOOLEAN,
               missing : SUBSET StorageGiven.Buckets, base : {v4'.base}]
  BY <1>1 DEF StorageInv, StorageTyped
<1> QED  BY <1>1, <1>2, StorageRefresh DEF StorageInv, StorageTyped, PanelFits

LEMMA StorageAnswer == ASSUME StorageInv, Storage!Answer PROVE StorageInv'
<1>1. /\ v3' = Storage!Refresh(Storage!DueBuckets)
      /\ v4' = [asking |-> FALSE, shown |-> Storage!Total, refreshing |-> Storage!DueBuckets # {},
                missing |-> {b \in StorageGiven.Buckets : ~v2[b].there},
                base |-> Storage!Base(Storage!Total, Storage!DueBuckets # {})]
      /\ v1' = v1 /\ v2' = v2 /\ v5' = v5
  BY DEF Storage!Answer
<1>2. v4' \in [asking : BOOLEAN, shown : {v4'.shown}, refreshing : BOOLEAN,
               missing : SUBSET StorageGiven.Buckets, base : {v4'.base}]
  BY <1>1
<1> QED  BY <1>1, <1>2, StorageRefresh DEF StorageInv, StorageTyped, PanelFits

LEMMA StorageRead ==
  ASSUME StorageInv, NEW b \in StorageGiven.Buckets, Storage!ReadBucket(b)
  PROVE  StorageInv'
<1>1. /\ v3' = Storage!Refresh({b}) \/ v3' = v3
      /\ v1' = v1 /\ v2' = v2 /\ v4' = v4
      /\ v5' = IF b = StorageGiven.Recordings
               THEN [state |-> Storage!TotalsState(b), count |-> v2[b].count] ELSE v5
  BY DEF Storage!ReadBucket
<1>2. /\ v5' \in [state : {"loading", "complete", "truncated", "pending", "unavailable"}, count : Nat]
      /\ PanelFits'
  <2>1. CASE b # StorageGiven.Recordings
    BY <1>1, <2>1 DEF StorageInv, StorageTyped, PanelFits
  <2>2. CASE b = StorageGiven.Recordings
    <3> DEFINE st == Storage!TotalsState(b)
    <3>1. /\ st \in {"complete", "truncated", "pending", "unavailable"}
          /\ st \in {"complete", "truncated"} => v2[b].there
      BY DEF Storage!TotalsState
    <3>2. v2[b].count \in Nat
      BY StorageTypes DEF StTotals
    <3>3. v5' = [state |-> st, count |-> v2[b].count]
      BY <1>1, <2>2
    <3> HIDE DEF st
    <3>4. v5'.state = st
      BY <3>3
    <3>5. PanelFits'
      BY <3>1, <3>4, <1>1, <2>2 DEF PanelFits
    <3> QED  BY <3>1, <3>2, <3>3, <3>5
  <2> QED  BY <2>1, <2>2
<1> QED  BY <1>1, <1>2, StorageRefresh DEF StorageInv, StorageTyped

(* A page of a walk: the walk goes on to the next key, or ends.            *)
LEMMA KeyAfter ==
  ASSUME NEW keys, KeysFit(keys), NEW pos \in Nat, {k \in keys : k > pos} # {}
  PROVE  LET next == {k \in keys : k > pos}
             key  == CHOOSE k \in next : \A j \in next : k <= j
         IN  /\ key \in next /\ key \in Nat
             /\ UpTo(keys, key) = UpTo(keys, pos) \union {key}
             /\ key \notin UpTo(keys, pos)
<1> DEFINE next == {k \in keys : k > pos}
           key == CHOOSE k \in next : \A j \in next : k <= j
<1>1. next \in SUBSET Nat /\ keys \in SUBSET Nat
  BY StorageNumbers DEF KeysFit
<1>2. \E k \in next : \A j \in next : k <= j
  <2>1. next # {}
    OBVIOUS
  <2> HIDE DEF next
  <2> QED  BY <1>1, <2>1, SmallestIn
<1>3. key \in next /\ \A j \in next : key <= j
  BY <1>2
<1> HIDE DEF key
<1>4. key \in Nat /\ key > pos /\ key \in keys
  BY <1>1, <1>3
<1>5. ASSUME NEW k \in keys PROVE k <= key <=> k <= pos \/ k = key
  <2>1. k \in Nat /\ (k > pos => key <= k)
    BY <1>1, <1>3
  <2> QED  BY <2>1, <1>4
<1>6. UpTo(keys, key) = UpTo(keys, pos) \union {key}
  BY <1>4, <1>5 DEF UpTo
<1> QED  BY <1>3, <1>4, <1>6 DEF UpTo, key

LEMMA StorageScan ==
  ASSUME StorageInv, NEW b \in StorageGiven.Buckets, Storage!ScanPage(b)
  PROVE  StorageInv'
<1> DEFINE keys == v1.keys[b]
           w == v3[b]
           next == {k \in keys : k > w.pos}
           key == IF next = {} THEN w.pos ELSE CHOOSE k \in next : \A j \in next : k <= j
           count == IF next = {} THEN w.count ELSE w.count + 1
           rest == {k \in keys : k > key}
           pages == w.pages + 1
           cut == Storage!Cut(b, rest, pages)
           on == [w EXCEPT !.pos = key, !.count = count, !.pages = pages]
           c == [there |-> TRUE, count |-> count, cut |-> cut, drift |-> w.drift, age |-> 0,
                 failed |-> StorageGiven.Backoff]
<1>1. /\ w.on /\ v1' = v1 /\ v4' = v4 /\ v5' = v5
      /\ \/ /\ rest # {} /\ ~cut
            /\ v3' = [v3 EXCEPT ![b] = on] /\ v2' = v2
         \/ /\ rest = {} \/ cut
            /\ v3' = [v3 EXCEPT ![b] = Storage!Idle] /\ v2' = [v2 EXCEPT ![b] = c]
  BY DEF Storage!ScanPage, Storage!After
<1>2. /\ w \in StWalks /\ KeysFit(keys) /\ w.pages = w.count /\ w.pages < StorageGiven.PageLimit
      /\ Close(w.count, Cardinality(UpTo(keys, w.pos)), w.drift)
      /\ w.pos \in Nat /\ w.count \in Nat /\ w.drift \in Nat
  BY <1>1, StorageTypes DEF WalkFits, StWalks
<1>3. /\ Cardinality(UpTo(keys, w.pos)) \in Nat /\ IsFiniteSet(UpTo(keys, w.pos))
  <2>1. UpTo(keys, w.pos) \in SUBSET keys
    BY DEF UpTo
  <2> QED  BY <1>2, <2>1, FS_Subset, FS_CardinalityType DEF KeysFit
<1>4. /\ key \in Nat /\ count \in Nat
      /\ Close(count, Cardinality(UpTo(keys, key)), w.drift)
      /\ rest # {} => next # {}
  <2>1. CASE next = {}
    <3>1. key = w.pos /\ count = w.count /\ rest = next
      BY <2>1
    <3> HIDE DEF key, count, next, rest
    <3> QED  BY <2>1, <3>1, <1>2
  <2>2. CASE next # {}
    <3>1. key \in Nat /\ UpTo(keys, key) = UpTo(keys, w.pos) \union {key}
          /\ key \notin UpTo(keys, w.pos)
      BY <2>2, <1>2, KeyAfter
    <3>2. count = w.count + 1
      BY <2>2
    <3> HIDE DEF key, count, next, rest
    <3>3. Cardinality(UpTo(keys, key)) = Cardinality(UpTo(keys, w.pos)) + 1
      BY <3>1, <1>3, FS_AddElement
    <3>4. Close(count, Cardinality(UpTo(keys, key)), w.drift)
      BY <3>2, <3>3, <1>2, <1>3 DEF Close
    <3> QED  BY <2>2, <3>1, <3>2, <3>4, <1>2
  <2> QED  BY <2>1, <2>2
<1>5. cut <=> rest # {} /\ pages >= StorageGiven.PageLimit
  BY DEF Storage!Cut
<1>6. /\ pages \in 0 .. StorageGiven.PageLimit
      /\ rest # {} => pages = count
  <2>1. rest # {} => count = w.count + 1
    BY <1>4
  <2> HIDE DEF count, rest
  <2>2. w.pages \in Nat
    BY <1>2
  <2> QED  BY <1>2, <2>1, <2>2, StorageNumbers
<1>7. CASE rest # {} /\ ~cut
  <2>1. pages < StorageGiven.PageLimit /\ pages = count
    <3> HIDE DEF cut, rest, count
    <3> QED  BY <1>5, <1>6, <1>7, StorageNumbers
  <2>2. /\ on \in [on : {w.on}, pos : {key}, count : {count}, pages : {pages}, drift : {w.drift}]
    <3> HIDE DEF key, count, pages
    <3> QED  BY <1>2 DEF StWalks
  <2> HIDE DEF on, key, count, pages, rest, cut
  <2>3. on \in StWalks
    BY <2>2, <1>2, <1>4, <1>6 DEF StWalks
  <2>4. WalkFits(on, keys)
    BY <2>1, <2>2, <1>4 DEF WalkFits
  <2>5. v3' = [v3 EXCEPT ![b] = on] /\ v2' = v2
    BY <1>1, <1>7
  <2>6. v3' \in [StorageGiven.Buckets -> StWalks]
    BY <2>3, <2>5, StorageTypes
  <2>7. \A a \in StorageGiven.Buckets : WalkFits(v3'[a], v1.keys[a])
    BY <2>4, <2>5, StorageTypes
  <2> QED  BY <1>1, <2>5, <2>6, <2>7 DEF StorageInv, StorageTyped, PanelFits
<1>8. CASE rest = {} \/ cut
  <2>1. c \in StTotals /\ c.there /\ c.count = count /\ (c.cut <=> cut) /\ c.drift = w.drift
    <3>1. cut \in BOOLEAN /\ 0 \in 0 .. StorageGiven.FreshFor
          /\ StorageGiven.Backoff \in 0 .. StorageGiven.Backoff
      BY StorageNumbers DEF Storage!Cut
    <3>2. c \in [there : {TRUE}, count : {count}, cut : {cut}, drift : {w.drift}, age : {0},
                 failed : {StorageGiven.Backoff}]
      OBVIOUS
    <3> HIDE DEF c, count, cut
    <3>3. c.there /\ c.count = count /\ c.cut = cut /\ c.drift = w.drift
      BY <3>2
    <3> QED  BY <3>1, <3>2, <3>3, <1>2, <1>4 DEF StTotals
  <2>2. cut => count = StorageGiven.PageLimit
    <3>1. cut => pages >= StorageGiven.PageLimit /\ pages = count
      BY <1>5, <1>6
    <3> HIDE DEF cut, count, rest
    <3> QED  BY <3>1, <1>6, StorageNumbers
  <2>3. rest = {} => UpTo(keys, key) = keys
    <3>1. keys \in SUBSET Nat
      BY <1>2, StorageNumbers DEF KeysFit
    <3> HIDE DEF key
    <3> QED  BY <3>1, <1>4 DEF UpTo
  <2> HIDE DEF c, key, count, pages, rest, cut
  <2>4. TotalFits(c, keys)
    BY <2>1, <2>2, <2>3, <1>4, <1>8, <1>5 DEF TotalFits
  <2>5. v3' = [v3 EXCEPT ![b] = Storage!Idle] /\ v2' = [v2 EXCEPT ![b] = c]
    BY <1>1, <1>8
  <2>6. v3' \in [StorageGiven.Buckets -> StWalks] /\ v2' \in [StorageGiven.Buckets -> StTotals]
    BY <2>1, <2>5, StorageTypes, StorageWalk
  <2>7. ASSUME NEW a \in StorageGiven.Buckets
        PROVE  /\ WalkFits(v3'[a], v1.keys[a]) /\ TotalFits(v2'[a], v1.keys[a])
               /\ v2[a].there => v2'[a].there
    <3>1. CASE a = b
      BY <3>1, <2>1, <2>4, <2>5, <1>2, StorageTypes, StorageStartFits
    <3>2. CASE a # b
      BY <3>2, <2>5, StorageTypes
    <3> QED  BY <3>1, <3>2
  <2> QED  BY <1>1, <2>6, <2>7, StorageNumbers DEF StorageInv, StorageTyped, PanelFits
<1> QED  BY <1>7, <1>8

LEMMA StorageScanFails ==
  ASSUME StorageInv, NEW b \in StorageGiven.Buckets, Storage!ScanFails(b)
  PROVE  StorageInv'
<1> DEFINE c == [v2[b] EXCEPT !.failed = 0]
<1>1. /\ v3' = [v3 EXCEPT ![b] = Storage!Idle] /\ v2' = [v2 EXCEPT ![b] = c]
      /\ v1' = v1 /\ v4' = v4 /\ v5' = v5
  BY StorageTypes DEF Storage!ScanFails
<1>2. /\ c \in StTotals /\ c.there = v2[b].there /\ c.count = v2[b].count /\ c.cut = v2[b].cut
      /\ c.drift = v2[b].drift
  BY StorageTypes, StorageNumbers DEF StTotals
<1> HIDE DEF c
<1>3. TotalFits(c, v1.keys[b])
  BY <1>2, StorageTypes DEF TotalFits
<1>4. v3' \in [StorageGiven.Buckets -> StWalks] /\ v2' \in [StorageGiven.Buckets -> StTotals]
  BY <1>1, <1>2, StorageTypes, StorageWalk
<1>5. ASSUME NEW a \in StorageGiven.Buckets
      PROVE  /\ WalkFits(v3'[a], v1.keys[a]) /\ TotalFits(v2'[a], v1.keys[a])
             /\ v2'[a].there = v2[a].there
  <2>1. CASE a = b
    BY <2>1, <1>1, <1>2, <1>3, StorageTypes, StorageStartFits
  <2>2. CASE a # b
    BY <2>2, <1>1, StorageTypes
  <2> QED  BY <2>1, <2>2
<1> QED  BY <1>1, <1>4, <1>5, StorageNumbers DEF StorageInv, StorageTyped, PanelFits

(* What a walk that begins, and the base that is set, owe to the totals.   *)
LEMMA StorageNews ==
  ASSUME StorageInv, Storage!Next
  PROVE  Storage!BackoffStep /\ Storage!BaseStep
<1>1. ASSUME NEW b \in StorageGiven.Buckets, ~Storage!Cold, ~v2[b].there,
             v2[b].failed < StorageGiven.Backoff
      PROVE  ~(v3'[b].on /\ ~v3[b].on)
  <2>0. ~Storage!Due(b) /\ Storage!Idle.on = FALSE
    <3>1. v2[b].failed \in Nat
      BY StorageTypes, StorageNumbers DEF StTotals
    <3>2. ~(v2[b].failed >= StorageGiven.Backoff)
      BY <3>1, <1>1, StorageNumbers
    <3> QED  BY <3>2, <1>1, StorageWalk DEF Storage!Due
  <2>1. CASE v3' = v3
    BY <2>1
  <2>2. ASSUME NEW a \in StorageGiven.Buckets, NEW k \in StorageGiven.Keys, Storage!Change(a, k)
        PROVE  v3'[b].on = v3[b].on
    BY <2>2, StorageTypes DEF Storage!Change, Storage!Drifts, StWalks
  <2>3. ASSUME NEW a \in StorageGiven.Buckets, Storage!ScanFails(a)
        PROVE  ~(v3'[b].on /\ ~v3[b].on)
    BY <2>0, <2>3, StorageTypes DEF Storage!ScanFails
  <2>4. ASSUME NEW a \in StorageGiven.Buckets, Storage!ScanPage(a)
        PROVE  ~(v3'[b].on /\ ~v3[b].on)
    <3>1. v3[a].on /\ (a # b => v3'[b] = v3[b])
      BY <2>4, StorageTypes DEF Storage!ScanPage
    <3> QED  BY <3>1
  <2>5. ASSUME NEW a \in StorageGiven.Buckets, Storage!ReadBucket(a)
        PROVE  ~(v3'[b].on /\ ~v3[b].on)
    <3>1. CASE Storage!Due(a)
      BY <3>1, <2>0, <2>5 DEF Storage!ReadBucket, Storage!Refresh
    <3>2. CASE ~Storage!Due(a)
      BY <3>2, <2>5 DEF Storage!ReadBucket
    <3> QED  BY <3>1, <3>2
  <2>6. CASE Storage!Answer
    BY <2>6, <2>0 DEF Storage!Answer, Storage!Refresh, Storage!DueBuckets
  <2> QED
    BY <1>1, <2>1, <2>2, <2>3, <2>4, <2>5, <2>6
       DEF Storage!Next, Storage!Tick, Storage!Outage, Storage!PollCold
<1>2. ASSUME v4'.base # v4.base PROVE Storage!BaseStep
  <2>0. v4 \in [asking : BOOLEAN, shown : {v4.shown}, refreshing : BOOLEAN,
                missing : SUBSET StorageGiven.Buckets, base : {v4.base}]
    BY DEF StorageInv, StorageTyped
  <2>1. Storage!Answer
    <3>1. Storage!PollCold => v4'.base = v4.base
      BY <2>0 DEF Storage!PollCold
    <3> QED  BY <1>2, <3>1 DEF Storage!Next, Storage!Tick, Storage!Outage, Storage!Change,
                Storage!ScanPage, Storage!ScanFails, Storage!ReadBucket
  <2>2. /\ v2' = v2 /\ v4'.shown = Storage!Total /\ (v4'.refreshing <=> Storage!DueBuckets # {})
        /\ v4'.missing = {b \in StorageGiven.Buckets : ~v2[b].there}
        /\ v4'.base = Storage!Base(Storage!Total, Storage!DueBuckets # {})
    BY <2>1 DEF Storage!Answer
  <2>3. v4.base = -1 /\ Storage!DueBuckets = {} /\ Storage!Total > 0
    BY <1>2, <2>2 DEF Storage!Base
  <2>4. Storage!Live'
    BY <2>2, <2>3 DEF Storage!Live
  <2>5. ASSUME NEW b \in StorageGiven.Buckets, b \in v4'.missing
        PROVE  v2[b].failed < StorageGiven.Backoff
    <3>1. ~Storage!Due(b) /\ ~v2[b].there
      BY <2>2, <2>3, <2>5 DEF Storage!DueBuckets
    <3>2. v2[b].failed \in Nat
      BY StorageTypes, StorageNumbers DEF StTotals
    <3> QED  BY <3>1, <3>2, StorageNumbers DEF Storage!Due
  <2> QED  BY <2>2, <2>3, <2>4, <2>5 DEF Storage!BaseStep, Storage!Cards
<1> QED  BY <1>1, <1>2 DEF Storage!BackoffStep, Storage!BaseStep

LEMMA StorageStep ==
  ASSUME StorageInv, [Storage!Next]_(Storage!vars)
  PROVE  StorageInv'
<1>1. CASE UNCHANGED Storage!vars
  <2>1. v1' = v1 /\ v2' = v2 /\ v3' = v3 /\ v4' = v4 /\ v5' = v5
    BY <1>1 DEF Storage!vars
  <2> QED  BY <2>1 DEF StorageInv, StorageTyped, PanelFits
<1>2. CASE Storage!Next
  BY <1>2, StorageChange, StorageOutage, StorageScan, StorageScanFails, StorageRead, StorageTick,
     StoragePollCold, StorageAnswer DEF Storage!Next
<1> QED  BY <1>1, <1>2

--------------------------------------------------------------------------------
(* A finite set of natural numbers that is not empty has a greatest: the   *)
(* one with the fewest above it.                                           *)
LEMMA GreatestIn ==
  ASSUME NEW T \in SUBSET Nat, IsFiniteSet(T), T # {}
  PROVE  \E m \in T : \A k \in T : k <= m
<1> DEFINE above(n) == {k \in T : k > n}
           C == {Cardinality(above(n)) : n \in T}
<1>1. \A n \in T : IsFiniteSet(above(n)) /\ Cardinality(above(n)) \in Nat
  <2> SUFFICES ASSUME NEW n \in T PROVE IsFiniteSet(above(n)) /\ Cardinality(above(n)) \in Nat
    OBVIOUS
  <2>1. above(n) \in SUBSET T
    OBVIOUS
  <2> HIDE DEF above
  <2> QED  BY <2>1, FS_Subset, FS_CardinalityType
<1>2. C \in SUBSET Nat /\ C # {}
  BY <1>1
<1>3. PICK c \in C : \A d \in C : c <= d
  <2> HIDE DEF C
  <2> QED  BY <1>2, SmallestIn
<1>4. PICK m \in T : \A n \in T : Cardinality(above(m)) <= Cardinality(above(n))
  BY <1>3
<1>5. ASSUME NEW k \in T, ~(k <= m) PROVE FALSE
  <2>1. k \in Nat /\ m \in Nat /\ k > m
    BY <1>5
  <2>2. above(k) \in SUBSET above(m) /\ k \in above(m) /\ k \notin above(k)
    <3>1. \A j \in T : j > k => j > m
      BY <2>1
    <3>2. k \in above(m) /\ k \notin above(k)
      BY <2>1
    <3>3. above(k) \in SUBSET above(m)
      BY <3>1
    <3> QED  BY <3>2, <3>3
  <2>3. Cardinality(above(m)) <= Cardinality(above(k))
    BY <1>4
  <2>4. /\ IsFiniteSet(above(m)) /\ Cardinality(above(m)) \in Nat
        /\ Cardinality(above(k)) \in Nat
    BY <1>1
  <2> HIDE DEF above
  <2>5. /\ Cardinality(above(k)) <= Cardinality(above(m))
        /\ Cardinality(above(m)) = Cardinality(above(k)) => above(m) = above(k)
    BY <2>2, <2>4, FS_Subset
  <2> QED  BY <2>2, <2>3, <2>4, <2>5
<1> QED  BY <1>5

--------------------------------------------------------------------------------
(* The guards of the storage (storage-preflight.ts, artesca-*.ts,          *)
(* vst-sample.ts and the VST panel): v1 what is open, v2 the world, v3 the *)
(* answers kept, v4 the page, v5 the panel.                                *)

LEMMA GuardsNumbers ==
  /\ GuardsGiven.PreflightTtl \in Nat /\ GuardsGiven.RulesTtl \in Nat
  /\ GuardsGiven.RingSize \in Nat \ {0} /\ GuardsGiven.MaxChanges \in Nat
BY GuardsAssumption

GuardWorlds(w) ==
  [fill : {70, 85, 96}, armed : BOOLEAN, seen : BOOLEAN,
   head : {"ok", "dns", "unreachable", "rejected", "missing"},
   cfg : {"full", "unread", "off", "incomplete"}, rule : {"none", "expiry", "both", "denied"},
   reading : {w.reading}, sensors : {{}} \union GuardsGiven.SensorSets,
   since : 0 .. GuardsGiven.RulesTtl, changes : 0 .. GuardsGiven.MaxChanges]
Tested(c) == c \in [there : BOOLEAN, age : 0 .. GuardsGiven.PreflightTtl, state : {c.state}]
Ruled(c)  == c \in [there : BOOLEAN, age : 0 .. GuardsGiven.RulesTtl, rule : {c.rule}]

(* A sample that does not say it is of the first page names one day of     *)
(* each sensor.                                                            *)
OneDayEach(data) ==
  data.there /\ "warn: sample" \notin data.alerts =>
    \A x \in data.sample : \A y \in data.sample : x.id = y.id => x.day = y.day

GuardsTyped ==
  /\ v1 \in {"guard", "panel"} /\ v2 \in GuardWorlds(v2)
  /\ v3 \in [pre : {v3.pre}, rules : {v3.rules}] /\ Tested(v3.pre) /\ Ruled(v3.rules)
  /\ v4 \in [pre : {v4.pre}, warnings : {v4.warnings}, since : {v4.since}]
  /\ v5 \in [state : {"loading", "fresh", "stale", "error"}, data : {v5.data}, ring : Seq({0, 1})]
  /\ Len(v5.ring) <= GuardsGiven.RingSize

(* A preflight that is kept and younger than the world is of that world,   *)
(* and one of this tick is the one that was shown.                         *)
PreflightFits(c, w, page) ==
  c.there /\ c.age < GuardsGiven.PreflightTtl =>
    /\ c.age < w.since => c.state = Guards!Preflight(w)
    /\ c.age = 0 => page.pre = c
GuardsInv == GuardsTyped /\ PreflightFits(v3.pre, v2, v4) /\ OneDayEach(v5.data)

--------------------------------------------------------------------------------
LEMMA GuardsStart == Guards!Init => GuardsInv
<1> SUFFICES ASSUME Guards!Init PROVE GuardsInv
  OBVIOUS
<1> DEFINE pre == [there |-> FALSE, age |-> 0, state |-> "unknown"]
           rules == [there |-> FALSE, age |-> 0, rule |-> "none"]
           data == [there |-> FALSE, sample |-> {}, rate |-> 0, alerts |-> {}]
           r == CHOOSE r \in GuardsGiven.Readings : TRUE
           well == [fill |-> 70, armed |-> TRUE, seen |-> TRUE, head |-> "ok", cfg |-> "full",
                    rule |-> "both", reading |-> r, sensors |-> {}, since |-> 0, changes |-> 0]
<1>1. /\ v1 \in {"guard", "panel"}
      /\ v2 = well \/ \E s \in GuardsGiven.SensorSets : v2 = [well EXCEPT !.sensors = s]
      /\ v3 = [pre |-> pre, rules |-> rules]
      /\ v4 = [pre |-> pre, warnings |-> {}, since |-> -1]
      /\ v5 = [state |-> "loading", data |-> data, ring |-> <<>>]
  BY DEF Guards!Init, Guards!Healthy, Guards!NoPre, Guards!NoRule, Guards!NoData
<1> HIDE DEF r
<1>2. v2 \in GuardWorlds(v2)
  <2>1. 0 \in 0 .. GuardsGiven.RulesTtl /\ 0 \in 0 .. GuardsGiven.MaxChanges
    BY GuardsNumbers
  <2>2. well \in GuardWorlds(well) /\ well.reading = r
    BY <2>1 DEF GuardWorlds
  <2>3. ASSUME NEW s \in GuardsGiven.SensorSets, v2 = [well EXCEPT !.sensors = s]
        PROVE  v2 \in GuardWorlds(v2)
    <3> HIDE DEF well
    <3>1. v2.reading = r
      BY <2>2, <2>3 DEF GuardWorlds
    <3> QED  BY <2>2, <2>3, <3>1 DEF GuardWorlds
  <2> QED  BY <1>1, <2>2, <2>3
<1>3. Tested(pre) /\ Ruled(rules)
  BY GuardsNumbers DEF Tested, Ruled
<1>4. <<>> \in Seq({0, 1}) /\ Len(<<>>) = 0
  OBVIOUS
<1> HIDE DEF pre, rules, data, well
<1>5. GuardsTyped
  BY <1>1, <1>2, <1>3, <1>4, GuardsNumbers DEF GuardsTyped
<1>6. PreflightFits(v3.pre, v2, v4) /\ OneDayEach(v5.data)
  BY <1>1 DEF PreflightFits, OneDayEach, pre, data
<1> QED  BY <1>5, <1>6 DEF GuardsInv

LEMMA GuardsBecome ==
  ASSUME GuardsInv, NEW w, w \in GuardWorlds(w), Guards!Becomes(w)
  PROVE  GuardsInv'
<1>1. /\ v2.changes < GuardsGiven.MaxChanges /\ v2' = [w EXCEPT !.since = 0, !.changes = v2.changes + 1]
      /\ v1' = v1 /\ v3' = v3 /\ v4' = v4 /\ v5' = v5
  BY DEF Guards!Becomes
<1>2. v2.changes + 1 \in 0 .. GuardsGiven.MaxChanges /\ 0 \in 0 .. GuardsGiven.RulesTtl
  BY <1>1, GuardsNumbers DEF GuardsInv, GuardsTyped, GuardWorlds
<1> DEFINE n == v2.changes + 1
<1> HIDE DEF n
<1>3. v2' \in GuardWorlds(w) /\ v2'.reading = w.reading /\ v2'.since = 0
  <2>1. v2' = [w EXCEPT !.since = 0, !.changes = n] /\ n \in 0 .. GuardsGiven.MaxChanges
    BY <1>1, <1>2 DEF n
  <2> QED  BY <2>1, <1>2 DEF GuardWorlds
<1>4. v2' \in GuardWorlds(v2')
  BY <1>3 DEF GuardWorlds
<1>5. GuardsTyped'
  BY <1>1, <1>4 DEF GuardsInv, GuardsTyped
<1>6. PreflightFits(v3.pre, v2, v4)'
  <2>1. ~(v3.pre.age < 0)
    BY GuardsNumbers DEF GuardsInv, GuardsTyped, Tested
  <2> QED  BY <1>1, <1>3, <2>1 DEF GuardsInv, PreflightFits
<1> QED  BY <1>1, <1>5, <1>6 DEF GuardsInv

LEMMA GuardsChange == ASSUME GuardsInv, Guards!GuardChanges \/ Guards!SensorsChange PROVE GuardsInv'
<1>1. v2 \in GuardWorlds(v2)
  BY DEF GuardsInv, GuardsTyped
<1>2. ASSUME NEW fill \in {70, 85, 96}, NEW armed \in BOOLEAN, NEW seen \in BOOLEAN,
             Guards!Becomes([v2 EXCEPT !.fill = fill, !.armed = armed, !.seen = seen])
      PROVE  GuardsInv'
  <2> DEFINE w == [v2 EXCEPT !.fill = fill, !.armed = armed, !.seen = seen]
  <2>1. w \in GuardWorlds(v2)
    BY <1>1 DEF GuardWorlds
  <2> HIDE DEF w
  <2>2. w \in GuardWorlds(w)
    BY <2>1 DEF GuardWorlds
  <2> QED  BY <2>2, <1>2, GuardsBecome DEF w
<1>3. ASSUME NEW head \in {"ok", "dns", "unreachable", "rejected", "missing"},
             Guards!Becomes([v2 EXCEPT !.head = head])
      PROVE  GuardsInv'
  <2> DEFINE w == [v2 EXCEPT !.head = head]
  <2>1. w \in GuardWorlds(v2)
    BY <1>1 DEF GuardWorlds
  <2> HIDE DEF w
  <2>2. w \in GuardWorlds(w)
    BY <2>1 DEF GuardWorlds
  <2> QED  BY <2>2, <1>3, GuardsBecome DEF w
<1>4. ASSUME NEW cfg \in {"full", "unread", "off", "incomplete"},
             Guards!Becomes([v2 EXCEPT !.cfg = cfg])
      PROVE  GuardsInv'
  <2> DEFINE w == [v2 EXCEPT !.cfg = cfg]
  <2>1. w \in GuardWorlds(v2)
    BY <1>1 DEF GuardWorlds
  <2> HIDE DEF w
  <2>2. w \in GuardWorlds(w)
    BY <2>1 DEF GuardWorlds
  <2> QED  BY <2>2, <1>4, GuardsBecome DEF w
<1>5. ASSUME NEW rule \in {"none", "expiry", "both", "denied"}, Guards!Becomes([v2 EXCEPT !.rule = rule])
      PROVE  GuardsInv'
  <2> DEFINE w == [v2 EXCEPT !.rule = rule]
  <2>1. w \in GuardWorlds(v2)
    BY <1>1 DEF GuardWorlds
  <2> HIDE DEF w
  <2>2. w \in GuardWorlds(w)
    BY <2>1 DEF GuardWorlds
  <2> QED  BY <2>2, <1>5, GuardsBecome DEF w
<1>6. ASSUME NEW r \in GuardsGiven.Readings, Guards!Becomes([v2 EXCEPT !.reading = r])
      PROVE  GuardsInv'
  <2> DEFINE w == [v2 EXCEPT !.reading = r]
  <2>1. w.reading = r
    BY <1>1 DEF GuardWorlds
  <2>2. w \in GuardWorlds(w)
    BY <1>1, <2>1 DEF GuardWorlds
  <2> QED  BY <2>2, <1>6, GuardsBecome
<1>7. ASSUME NEW s \in GuardsGiven.SensorSets, Guards!Becomes([v2 EXCEPT !.sensors = s])
      PROVE  GuardsInv'
  <2> DEFINE w == [v2 EXCEPT !.sensors = s]
  <2>1. w \in GuardWorlds(v2)
    BY <1>1 DEF GuardWorlds
  <2> HIDE DEF w
  <2>2. w \in GuardWorlds(w)
    BY <2>1 DEF GuardWorlds
  <2> QED  BY <2>2, <1>7, GuardsBecome DEF w
<1> QED  BY <1>2, <1>3, <1>4, <1>5, <1>6, <1>7 DEF Guards!GuardChanges, Guards!SensorsChange

LEMMA GuardsTick == ASSUME GuardsInv, Guards!Tick PROVE GuardsInv'
<1> DEFINE age == IF v3.pre.there /\ v3.pre.age < GuardsGiven.PreflightTtl
                  THEN v3.pre.age + 1 ELSE v3.pre.age
           ruleage == IF v3.rules.there /\ v3.rules.age < GuardsGiven.RulesTtl
                      THEN v3.rules.age + 1 ELSE v3.rules.age
           since == IF v2.since < GuardsGiven.RulesTtl THEN v2.since + 1 ELSE v2.since
           pre == [v3.pre EXCEPT !.age = age]
           rules == [v3.rules EXCEPT !.age = ruleage]
<1>1. /\ v2' = [v2 EXCEPT !.since = since] /\ v3' = [pre |-> pre, rules |-> rules]
      /\ v1' = v1 /\ v4' = v4 /\ v5' = v5
  BY DEF Guards!Tick, Guards!Older
<1>2. /\ v2 \in GuardWorlds(v2) /\ Tested(v3.pre) /\ Ruled(v3.rules)
  BY DEF GuardsInv, GuardsTyped
<1>3. /\ since \in 0 .. GuardsGiven.RulesTtl /\ v2.since \in Nat /\ since <= v2.since + 1
  <2>1. v2.since \in 0 .. GuardsGiven.RulesTtl
    BY <1>2 DEF GuardWorlds
  <2> QED  BY <2>1, GuardsNumbers
<1>4. /\ age \in 0 .. GuardsGiven.PreflightTtl /\ ruleage \in 0 .. GuardsGiven.RulesTtl
      /\ v3.pre.age \in Nat
  <2>1. v3.pre.age \in 0 .. GuardsGiven.PreflightTtl /\ v3.rules.age \in 0 .. GuardsGiven.RulesTtl
    BY <1>2 DEF Tested, Ruled
  <2> QED  BY <2>1, GuardsNumbers
<1>5. v3.pre.there /\ age < GuardsGiven.PreflightTtl => age = v3.pre.age + 1
  BY <1>4, GuardsNumbers
<1> HIDE DEF age, ruleage, since
<1>6. /\ Tested(pre) /\ Ruled(rules) /\ pre.state = v3.pre.state /\ pre.there = v3.pre.there
      /\ pre.age = age
  BY <1>2, <1>4 DEF Tested, Ruled
<1> HIDE DEF pre, rules
<1>7. v2' \in GuardWorlds(v2) /\ v2'.since = since /\ v2'.reading = v2.reading
  BY <1>1, <1>2, <1>3 DEF GuardWorlds
<1>8. /\ v2' \in GuardWorlds(v2') /\ Guards!Preflight(v2') = Guards!Preflight(v2)
  <2>1. v2' \in GuardWorlds(v2')
    BY <1>7 DEF GuardWorlds
  <2>2. /\ v2'.cfg = v2.cfg /\ v2'.head = v2.head /\ v2'.fill = v2.fill /\ v2'.armed = v2.armed
        /\ v2'.seen = v2.seen
    BY <1>1, <1>2 DEF GuardWorlds
  <2> QED  BY <2>1, <2>2 DEF Guards!Preflight
<1>9. GuardsTyped'
  BY <1>1, <1>6, <1>8 DEF GuardsInv, GuardsTyped
<1>a. PreflightFits(pre, v2', v4)
  <2> SUFFICES ASSUME pre.there, pre.age < GuardsGiven.PreflightTtl
               PROVE  /\ pre.age < v2'.since => pre.state = Guards!Preflight(v2')
                      /\ pre.age # 0
    BY DEF PreflightFits
  <2>1. pre.age = v3.pre.age + 1 /\ v3.pre.there
    BY <1>5, <1>6
  <2>2. v3.pre.age < GuardsGiven.PreflightTtl
    BY <2>1, <1>4, GuardsNumbers
  <2>3. pre.age < v2'.since => v3.pre.age < v2.since
    BY <2>1, <1>3, <1>4, <1>7
  <2>4. pre.age # 0
    BY <2>1, <1>4
  <2> QED  BY <2>1, <2>2, <2>3, <2>4, <1>6, <1>8 DEF GuardsInv, PreflightFits
<1>b. PreflightFits(v3.pre, v2, v4)'
  BY <1>1, <1>a
<1> QED  BY <1>1, <1>9, <1>b DEF GuardsInv

(* The preflight that is asked for: kept, or of the world as it is.        *)
LEMMA PreflightAsked ==
  ASSUME GuardsInv
  PROVE  /\ Tested(Guards!PreflightNow) /\ Guards!PreflightNow.there
         /\ \/ /\ Guards!PreflightNow = v3.pre /\ v3.pre.there
               /\ v3.pre.age < GuardsGiven.PreflightTtl
            \/ Guards!PreflightNow = [there |-> TRUE, age |-> 0, state |-> Guards!Preflight(v2)]
<1>1. Tested([there |-> TRUE, age |-> 0, state |-> Guards!Preflight(v2)])
  BY GuardsNumbers DEF Tested
<1> QED  BY <1>1 DEF Guards!PreflightNow, GuardsInv, GuardsTyped

LEMMA GuardsAskPreflight ==
  ASSUME GuardsInv, Guards!AskPreflight
  PROVE  GuardsInv' /\ Guards!PreflightStep
<1> DEFINE c == Guards!PreflightNow
<1>1. /\ v3' = [v3 EXCEPT !.pre = c] /\ v4' = [v4 EXCEPT !.pre = c]
      /\ v1' = v1 /\ v2' = v2 /\ v5' = v5
  BY DEF Guards!AskPreflight
<1> HIDE DEF c
<1>2. /\ v3'.pre = c /\ v3'.rules = v3.rules /\ v4'.pre = c
      /\ v3' \in [pre : {v3'.pre}, rules : {v3'.rules}]
      /\ v4' \in [pre : {v4'.pre}, warnings : {v4'.warnings}, since : {v4'.since}]
  BY <1>1 DEF GuardsInv, GuardsTyped
<1>3. GuardsTyped'
  BY <1>1, <1>2, PreflightAsked DEF GuardsInv, GuardsTyped, c
<1>4. PreflightFits(c, v2, v4)
      \/ c = [there |-> TRUE, age |-> 0, state |-> Guards!Preflight(v2)]
  BY PreflightAsked DEF GuardsInv, c
<1>5. PreflightFits(v3.pre, v2, v4)'
  BY <1>1, <1>2, <1>4 DEF PreflightFits
<1>6. Guards!PreflightStep
  <2> SUFFICES ASSUME c # v4.pre
               PROVE  /\ v2.since >= GuardsGiven.PreflightTtl => c.state = Guards!Preflight(v2)
                      /\ c.age = 0 /\ c.state = "ok" =>
                           ~(v2.seen /\ v2.armed /\ v2.fill >= Guards!Critical)
    BY <1>2 DEF Guards!PreflightStep
  <2>1. CASE c = v3.pre /\ v3.pre.there /\ v3.pre.age < GuardsGiven.PreflightTtl
    <3>1. v3.pre.age \in Nat /\ v2.since \in Nat
      BY GuardsNumbers DEF GuardsInv, GuardsTyped, Tested, GuardWorlds
    <3>2. v2.since >= GuardsGiven.PreflightTtl => v3.pre.age < v2.since
      BY <2>1, <3>1, GuardsNumbers
    <3> QED  BY <2>1, <3>2 DEF GuardsInv, PreflightFits
  <2>2. CASE c = [there |-> TRUE, age |-> 0, state |-> Guards!Preflight(v2)]
    <3>1. c.state = Guards!Preflight(v2)
      BY <2>2
    <3>2. Guards!Preflight(v2) = "ok" => ~(v2.seen /\ v2.armed /\ v2.fill >= Guards!Critical)
      BY DEF Guards!Preflight, Guards!Capacity, GuardsInv, GuardsTyped, GuardWorlds
    <3> QED  BY <3>1, <3>2
  <2> QED  BY <2>1, <2>2, PreflightAsked DEF c
<1> QED  BY <1>1, <1>3, <1>5, <1>6 DEF GuardsInv

LEMMA GuardsAskPage == ASSUME GuardsInv, Guards!AskPage PROVE GuardsInv'
<1> DEFINE c == Guards!RulesNow
<1>1. /\ v3' = [v3 EXCEPT !.rules = c]
      /\ v4' = [v4 EXCEPT !.warnings = Guards!Warnings(v2, c.rule), !.since = c.age]
      /\ v1' = v1 /\ v2' = v2 /\ v5' = v5
  BY DEF Guards!AskPage
<1>2. Ruled(c)
  <2>1. Ruled([there |-> TRUE, age |-> 0, rule |-> Guards!Rule(v2)])
    BY GuardsNumbers DEF Ruled
  <2> QED  BY <2>1 DEF Guards!RulesNow, GuardsInv, GuardsTyped
<1> HIDE DEF c
<1>3. /\ v3'.pre = v3.pre /\ v3'.rules = c /\ v4'.pre = v4.pre
      /\ v3' \in [pre : {v3'.pre}, rules : {v3'.rules}]
  BY <1>1 DEF GuardsInv, GuardsTyped
<1>4. v4' \in [pre : {v4'.pre}, warnings : {v4'.warnings}, since : {v4'.since}]
  <2> DEFINE a == Guards!Warnings(v2, c.rule)
             b == c.age
  <2>1. v4' = [v4 EXCEPT !.warnings = a, !.since = b]
    BY <1>1
  <2> HIDE DEF a, b
  <2> QED  BY <2>1 DEF GuardsInv, GuardsTyped
<1>5. GuardsTyped'
  BY <1>1, <1>2, <1>3, <1>4 DEF GuardsInv, GuardsTyped
<1> QED  BY <1>1, <1>3, <1>5 DEF GuardsInv, PreflightFits

(* The sample of the panel.                                                *)
LEMMA HoursOfASensor ==
  ASSUME NEW sensors \in {{}} \union GuardsGiven.SensorSets, NEW s \in sensors, s.there,
         NEW h \in s.hours
  PROVE  \E x \in Guards!NewestHours(s) :
           x.id = s.id /\ (h.day < x.day \/ (h.day = x.day /\ h.hour <= x.hour))
<1> DEFINE days == {g.day : g \in s.hours}
           day == Guards!NewestOf(days)
           hours == Guards!HoursOf(s, day)
           last == Guards!NewestOf(hours)
<1>1. /\ IsFiniteSet(s.hours) /\ \A g \in s.hours : g.day \in Nat /\ g.hour \in 0 .. 23
  BY GuardsAssumption
<1>2. IsFiniteSet(days) /\ days \in SUBSET Nat /\ days # {}
  <2> DEFINE f == [g \in s.hours |-> g.day]
  <2>1. f \in Surjection(s.hours, days)
    BY DEF Surjection
  <2> HIDE DEF f
  <2>2. IsFiniteSet(days)
    BY <1>1, <2>1, FS_Surjection
  <2> QED  BY <1>1, <2>2
<1>3. day \in days /\ \A d \in days : d <= day
  <2>1. \E d \in days : \A e \in days : e <= d
    <3> HIDE DEF days
    <3> QED  BY <1>2, GreatestIn
  <2> QED  BY <2>1 DEF Guards!NewestOf, Guards!Newer
<1> HIDE DEF day
<1>4. hours = {g.hour : g \in {k \in s.hours : k.day = day}} /\ hours # {} /\ hours \in SUBSET (0 .. 23)
  BY <1>1, <1>3 DEF Guards!HoursOf
<1>5. last \in hours /\ \A n \in hours : n <= last
  <2>1. IsFiniteSet(0 .. 23)
    <3>1. 0 \in Int /\ 23 \in Int
      OBVIOUS
    <3> QED  BY <3>1, FS_Interval
  <2>2. IsFiniteSet(hours) /\ hours \in SUBSET Nat
    BY <1>4, <2>1, FS_Subset
  <2> HIDE DEF hours
  <2>3. \E n \in hours : \A m \in hours : m <= n
    BY <1>4, <2>2, GreatestIn
  <2> QED  BY <2>3 DEF Guards!NewestOf, Guards!Newer
<1> DEFINE x == [id |-> s.id, day |-> day, hour |-> last]
<1>6. x \in Guards!NewestHours(s)
  BY DEF Guards!NewestHours, day
<1>7. h.day <= day /\ h.day \in Nat /\ day \in Nat
  BY <1>1, <1>2, <1>3
<1>8. h.day = day => h.hour <= last
  BY <1>4, <1>5
<1> HIDE DEF hours, last, days
<1>9. h.day < x.day \/ (h.day = x.day /\ h.hour <= x.hour)
  BY <1>7, <1>8
<1> QED  BY <1>6, <1>9

LEMMA PerSensorSample ==
  ASSUME NEW sensors, NEW fill, NEW drops,
         "warn: sample" \notin Guards!Alerts(fill, drops, Guards!Sample(sensors).mode)
  PROVE  Guards!Sample(sensors).hours = Guards!PerSensor(sensors)
<1>1. Guards!Sample(sensors).mode # "first-page"
  BY DEF Guards!Alerts
<1> QED  BY <1>1 DEF Guards!Sample

LEMMA NewestHoursAre ==
  ASSUME NEW s, NEW x \in Guards!NewestHours(s)
  PROVE  x.id = s.id /\ x.day = Guards!NewestOf({h.day : h \in s.hours})
<1> DEFINE day == Guards!NewestOf({h.day : h \in s.hours})
           last == Guards!NewestOf(Guards!HoursOf(s, day))
           rest == Guards!HoursOf(s, day) \ {last}
           hours == {last} \union (IF rest = {} THEN {} ELSE {Guards!NewestOf(rest)})
<1>1. x \in {[id |-> s.id, day |-> day, hour |-> h] : h \in hours}
  BY DEF Guards!NewestHours
<1> HIDE DEF hours, day
<1>2. x.id = s.id /\ x.day = day
  BY <1>1
<1> QED  BY <1>2 DEF day

LEMMA OneDayOfASensor ==
  ASSUME NEW sensors \in {{}} \union GuardsGiven.SensorSets,
         NEW x \in Guards!PerSensor(sensors), NEW y \in Guards!PerSensor(sensors), x.id = y.id
  PROVE  x.day = y.day
<1>1. PICK s \in sensors : x \in Guards!NewestHours(s)
  BY DEF Guards!PerSensor
<1>2. PICK t \in sensors : y \in Guards!NewestHours(t)
  BY DEF Guards!PerSensor
<1>3. /\ x.id = s.id /\ x.day = Guards!NewestOf({h.day : h \in s.hours})
  BY <1>1, NewestHoursAre
<1>4. /\ y.id = t.id /\ y.day = Guards!NewestOf({h.day : h \in t.hours})
  BY <1>2, NewestHoursAre
<1>5. s = t
  BY <1>3, <1>4, GuardsAssumption
<1> QED  BY <1>3, <1>4, <1>5

LEMMA HoursAreSampled ==
  ASSUME NEW sensors, NEW s \in sensors, ~s.removed
  PROVE  Guards!NewestHours(s) \subseteq Guards!PerSensor(sensors)
<1>1. s \in {t \in sensors : ~t.removed}
  OBVIOUS
<1> QED  BY <1>1 DEF Guards!PerSensor

LEMMA GuardsPanelAnswers ==
  ASSUME GuardsInv, NEW rate \in {0, 1}, NEW fill \in {-1, 50, 95}, NEW drops \in {-2, -1, 0, 5},
         Guards!PanelAnswers(rate, fill, drops)
  PROVE  GuardsInv' /\ Guards!NewestStep
<1> DEFINE sample == Guards!Sample(v2.sensors)
           data == [there |-> TRUE, sample |-> sample.hours, rate |-> rate,
                    alerts |-> Guards!Alerts(fill, drops, sample.mode)]
           ring == IF Len(v5.ring) < GuardsGiven.RingSize THEN v5.ring ELSE Tail(v5.ring)
           next == IF data = v5.data THEN v5.ring ELSE Append(ring, rate)
<1>1. /\ v5' = [state |-> "fresh", data |-> data, ring |-> next]
      /\ v1' = v1 /\ v2' = v2 /\ v3' = v3 /\ v4' = v4
  BY DEF Guards!PanelAnswers
<1>2. /\ data.there /\ data.sample = sample.hours
      /\ data.alerts = Guards!Alerts(fill, drops, sample.mode)
  OBVIOUS
<1>3. next \in Seq({0, 1}) /\ Len(next) <= GuardsGiven.RingSize
  <2>1. v5.ring \in Seq({0, 1}) /\ Len(v5.ring) <= GuardsGiven.RingSize
    BY DEF GuardsInv, GuardsTyped
  <2>2. ring \in Seq({0, 1}) /\ Len(ring) + 1 <= GuardsGiven.RingSize
    BY <2>1, GuardsNumbers
  <2> HIDE DEF data, ring
  <2> QED  BY <2>1, <2>2
<1>4. v2.sensors \in {{}} \union GuardsGiven.SensorSets
  BY DEF GuardsInv, GuardsTyped, GuardWorlds
<1>5. "warn: sample" \notin data.alerts => data.sample = Guards!PerSensor(v2.sensors)
  <2> DEFINE all == v2.sensors
             mode == Guards!Sample(all).mode
  <2>1. data.sample = Guards!Sample(all).hours /\ data.alerts = Guards!Alerts(fill, drops, mode)
    BY <1>2
  <2>2. "warn: sample" \notin Guards!Alerts(fill, drops, mode)
        => Guards!Sample(all).hours = Guards!PerSensor(all)
    <3> HIDE DEF all
    <3> QED  BY PerSensorSample
  <2> HIDE DEF data, mode
  <2>3. "warn: sample" \notin data.alerts => data.sample = Guards!PerSensor(all)
    BY <2>1, <2>2
  <2> QED  BY <2>3
<1> HIDE DEF data, next
<1>6. OneDayEach(data)
  <2> SUFFICES ASSUME "warn: sample" \notin data.alerts,
                      NEW x \in data.sample, NEW y \in data.sample, x.id = y.id
               PROVE  x.day = y.day
    BY DEF OneDayEach
  <2>1. x \in Guards!PerSensor(v2.sensors) /\ y \in Guards!PerSensor(v2.sensors)
    BY <1>5
  <2> QED  BY <2>1, <1>4, OneDayOfASensor
<1>7. GuardsTyped'
  <2>1. v5'.ring = next /\ v5'.data = data /\ v5'.state = "fresh"
    BY <1>1
  <2>2. v5' \in [state : {"fresh"}, data : {data}, ring : {next}]
    BY <1>1
  <2>3. v5' \in [state : {"loading", "fresh", "stale", "error"}, data : {v5'.data}, ring : Seq({0, 1})]
    BY <2>1, <2>2, <1>3
  <2> QED  BY <1>1, <1>3, <2>1, <2>3 DEF GuardsInv, GuardsTyped
<1>8. Guards!NewestStep
  <2> SUFFICES ASSUME "warn: sample" \notin data.alerts, NEW s \in v2.sensors, ~s.removed, s.there,
                      NEW h \in s.hours
               PROVE  \E x \in data.sample :
                        x.id = s.id /\ (h.day < x.day \/ (h.day = x.day /\ h.hour <= x.hour))
    BY <1>1 DEF Guards!NewestStep
  <2> DEFINE all == v2.sensors
  <2>0. s \in all /\ ~s.removed
    OBVIOUS
  <2>a. data.sample = Guards!PerSensor(all)
    BY <1>5
  <2> HIDE DEF all
  <2>1. Guards!NewestHours(s) \subseteq data.sample
    <3>1. Guards!NewestHours(s) \subseteq Guards!PerSensor(all)
      BY <2>0, HoursAreSampled
    <3>2. ASSUME NEW x \in Guards!NewestHours(s) PROVE x \in data.sample
      <4>1. x \in Guards!PerSensor(all)
        BY <3>1
      <4> QED  BY <4>1, <2>a
    <3> QED  BY <3>2
  <2>2. PICK x \in Guards!NewestHours(s) :
          x.id = s.id /\ (h.day < x.day \/ (h.day = x.day /\ h.hour <= x.hour))
    BY <1>4, HoursOfASensor
  <2> QED  BY <2>1, <2>2
<1>9. PreflightFits(v3.pre, v2, v4)' /\ OneDayEach(v5.data)'
  BY <1>1, <1>6 DEF GuardsInv, PreflightFits
<1> QED  BY <1>7, <1>8, <1>9 DEF GuardsInv

LEMMA GuardsPanelFails == ASSUME GuardsInv, Guards!PanelFails PROVE GuardsInv'
<1> DEFINE st == IF v5.data.there THEN "stale" ELSE "error"
<1>1. /\ v5' = [v5 EXCEPT !.state = st]
      /\ v1' = v1 /\ v2' = v2 /\ v3' = v3 /\ v4' = v4
  BY DEF Guards!PanelFails
<1>2. st \in {"stale", "error"}
  OBVIOUS
<1> HIDE DEF st
<1>3. v5' \in [state : {"loading", "fresh", "stale", "error"}, data : {v5.data}, ring : Seq({0, 1})]
      /\ v5'.data = v5.data /\ v5'.ring = v5.ring
  <2>1. v5 \in [state : {"loading", "fresh", "stale", "error"}, data : {v5.data}, ring : {v5.ring}]
        /\ v5.ring \in Seq({0, 1})
    BY DEF GuardsInv, GuardsTyped
  <2>2. v5' \in [state : {"loading", "fresh", "stale", "error"}, data : {v5.data}, ring : {v5.ring}]
    BY <1>1, <1>2, <2>1
  <2> QED  BY <2>1, <2>2
<1>4. GuardsTyped'
  BY <1>1, <1>3 DEF GuardsInv, GuardsTyped
<1> QED  BY <1>1, <1>3, <1>4 DEF GuardsInv, PreflightFits

LEMMA GuardsStep == ASSUME GuardsInv, [Guards!Next]_(Guards!vars) PROVE GuardsInv'
<1>1. CASE UNCHANGED Guards!vars
  <2>0. UNCHANGED <<v1, v2, v3, v4, v5>>
    BY <1>1 DEF Guards!vars
  <2>1. GuardsTyped'
    BY <2>0 DEF GuardsInv, GuardsTyped
  <2>2. PreflightFits(v3.pre, v2, v4)' /\ OneDayEach(v5.data)'
    BY <2>0 DEF GuardsInv, PreflightFits, OneDayEach
  <2> QED  BY <2>1, <2>2 DEF GuardsInv
<1>2. CASE Guards!Next
  BY <1>2, GuardsChange, GuardsTick, GuardsAskPreflight, GuardsAskPage, GuardsPanelFails,
     GuardsPanelAnswers DEF Guards!Next
<1> QED  BY <1>1, <1>2

(* What a step of the guards or of the panel tells is new.                 *)
LEMMA GuardsNews ==
  ASSUME GuardsInv, Guards!Next
  PROVE  Guards!PreflightStep /\ Guards!NewestStep
<1>1. CASE Guards!AskPreflight
  <2>1. v5' = v5
    BY <1>1 DEF Guards!AskPreflight
  <2> QED  BY <1>1, <2>1, GuardsAskPreflight DEF Guards!NewestStep
<1>2. CASE \E rate \in {0, 1}, fill \in {-1, 50, 95}, drops \in {-2, -1, 0, 5} :
             Guards!PanelAnswers(rate, fill, drops)
  <2>1. v4' = v4
    BY <1>2 DEF Guards!PanelAnswers
  <2>2. Guards!NewestStep
    BY <1>2, GuardsPanelAnswers
  <2> QED  BY <2>1, <2>2 DEF Guards!PreflightStep
<1>3. CASE Guards!GuardChanges \/ Guards!SensorsChange \/ Guards!Tick
  <2>1. v4' = v4 /\ v5' = v5
    BY <1>3 DEF Guards!GuardChanges, Guards!SensorsChange, Guards!Tick, Guards!Becomes
  <2> QED  BY <2>1 DEF Guards!PreflightStep, Guards!NewestStep
<1>4. CASE Guards!AskPage
  <2>1. v4'.pre = v4.pre /\ v5' = v5
    BY <1>4 DEF Guards!AskPage, GuardsInv, GuardsTyped
  <2> QED  BY <2>1 DEF Guards!PreflightStep, Guards!NewestStep
<1>5. CASE Guards!PanelFails
  <2> DEFINE st == IF v5.data.there THEN "stale" ELSE "error"
  <2>1. v5' = [v5 EXCEPT !.state = st] /\ v4' = v4
    BY <1>5 DEF Guards!PanelFails
  <2> HIDE DEF st
  <2>2. v5'.data = v5.data
    BY <2>1 DEF GuardsInv, GuardsTyped
  <2> QED  BY <2>1, <2>2 DEF Guards!PreflightStep, Guards!NewestStep
<1> QED  BY <1>1, <1>2, <1>3, <1>4, <1>5 DEF Guards!Next

--------------------------------------------------------------------------------
(* The percentiles of the gaps.                                            *)
LEMMA GuardsCount == \A S : Guards!Cardinality(S) = Cardinality(S)
BY DEF Guards!Cardinality, Cardinality

LEMMA GapsAre ==
  ASSUME NEW segments \in SUBSET [id : {1, 2}, ts : {0, 10, 70}]
  PROVE  /\ IsFiniteSet(Guards!Gaps(segments))
         /\ \A g \in Guards!Gaps(segments) : Guards!Length(g) \in {10, 60, 70}
<1> DEFINE All == [id : {1, 2}, ts : {0, 10, 70}]
<1>1. IsFiniteSet(All)
  <2> DEFINE F == {<<i, n>> : i \in {1, 2}, n \in {0, 10, 70}}
             f == [x \in F |-> [id |-> x[1], ts |-> x[2]]]
  <2>1. IsFiniteSet({1, 2}) /\ IsFiniteSet({0, 10, 70})
    <3>1. IsFiniteSet({1}) /\ IsFiniteSet({0})
      BY FS_Singleton
    <3>2. IsFiniteSet({1} \union {2}) /\ IsFiniteSet({0} \union {10})
      BY <3>1, FS_AddElement
    <3>3. IsFiniteSet(({0} \union {10}) \union {70})
      BY <3>2, FS_AddElement
    <3>4. {1} \union {2} = {1, 2} /\ ({0} \union {10}) \union {70} = {0, 10, 70}
      OBVIOUS
    <3> QED  BY <3>2, <3>3, <3>4
  <2>2. IsFiniteSet({1, 2} \X {0, 10, 70})
    BY <2>1, FS_Product
  <2>3. F = {1, 2} \X {0, 10, 70}
    OBVIOUS
  <2>4. f \in Surjection(F, All)
    <3>1. ASSUME NEW r, r \in All PROVE \E x \in F : f[x] = r
      <4>1. <<r.id, r.ts>> \in F /\ f[<<r.id, r.ts>>] = [id |-> r.id, ts |-> r.ts]
        BY <3>1
      <4>2. r = [id |-> r.id, ts |-> r.ts]
        BY <3>1
      <4> QED  BY <4>1, <4>2
    <3>2. f \in [F -> All]
      OBVIOUS
    <3> HIDE DEF f, F, All
    <3>3. \A r \in All : \E x \in F : f[x] = r
      BY <3>1
    <3> QED  BY <3>2, <3>3 DEF Surjection
  <2> HIDE DEF F, f, All
  <2> QED  BY <2>2, <2>3, <2>4, FS_Surjection
<1>2. IsFiniteSet(segments)
  BY <1>1, FS_Subset
<1>3. IsFiniteSet(segments \X segments)
  BY <1>2, FS_Product
<1>4. Guards!Gaps(segments) \in SUBSET (segments \X segments)
  BY DEF Guards!Gaps
<1>5. ASSUME NEW g \in Guards!Gaps(segments) PROVE Guards!Length(g) \in {10, 60, 70}
  <2>1. /\ g[1].ts \in {0, 10, 70} /\ g[2].ts \in {0, 10, 70} /\ g[1].ts < g[2].ts
    BY <1>4 DEF Guards!Gaps
  <2> QED  BY <2>1 DEF Guards!Length
<1> QED  BY <1>3, <1>4, <1>5, FS_Subset

ReachedGaps(gaps, p) ==
  {Guards!Length(g) : g \in {f \in gaps : Guards!UpTo(gaps, Guards!Length(f))
                                          > (p * (Guards!Cardinality(gaps) - 1)) \div 100}}

LEMMA GapsAreReached ==
  ASSUME NEW gaps, IsFiniteSet(gaps), gaps # {},
         \A g \in gaps : Guards!Length(g) \in {10, 60, 70}
  PROVE  /\ ReachedGaps(gaps, 95) # {} /\ ReachedGaps(gaps, 95) \subseteq ReachedGaps(gaps, 50)
         /\ ReachedGaps(gaps, 50) \subseteq {10, 60, 70}
<1> DEFINE n == Guards!Cardinality(gaps)
           low == (50 * (n - 1)) \div 100
           high == (95 * (n - 1)) \div 100
<1>1. n = Cardinality(gaps) /\ n \in Nat /\ n >= 1
  <2>1. Cardinality(gaps) \in Nat /\ Cardinality(gaps) # 0
    BY FS_CardinalityType, FS_EmptySet
  <2> QED  BY <2>1, GuardsCount
<1> HIDE DEF n
<1>2. low \in Nat /\ high \in Nat /\ low <= high /\ high < n
  BY <1>1
<1> HIDE DEF low, high
<1>3. /\ ReachedGaps(gaps, 50) = {Guards!Length(g) : g \in {f \in gaps : Guards!UpTo(gaps, Guards!Length(f)) > low}}
      /\ ReachedGaps(gaps, 95) = {Guards!Length(g) : g \in {f \in gaps : Guards!UpTo(gaps, Guards!Length(f)) > high}}
  BY DEF ReachedGaps, low, high, n
<1>4. \A k : Guards!UpTo(gaps, k) \in Nat
  <2> SUFFICES ASSUME NEW k PROVE Guards!UpTo(gaps, k) \in Nat
    OBVIOUS
  <2> DEFINE S == {g \in gaps : Guards!Length(g) <= k}
  <2>1. S \in SUBSET gaps
    OBVIOUS
  <2>2. Guards!UpTo(gaps, k) = Cardinality(S)
    BY GuardsCount DEF Guards!UpTo
  <2> HIDE DEF S
  <2> QED  BY <2>1, <2>2, FS_Subset, FS_CardinalityType
<1>5. PICK f \in gaps : \A g \in gaps : Guards!Length(g) <= Guards!Length(f)
  <2>1. CASE \E f \in gaps : Guards!Length(f) = 70
    BY <2>1
  <2>2. CASE ~(\E f \in gaps : Guards!Length(f) = 70) /\ \E f \in gaps : Guards!Length(f) = 60
    BY <2>2
  <2>3. CASE ~(\E f \in gaps : Guards!Length(f) \in {60, 70})
    <3>1. \A g \in gaps : Guards!Length(g) = 10
      BY <2>3
    <3> QED  BY <3>1
  <2> QED  BY <2>1, <2>2, <2>3
<1>6. Guards!UpTo(gaps, Guards!Length(f)) = n
  <2>1. {g \in gaps : Guards!Length(g) <= Guards!Length(f)} = gaps
    BY <1>5
  <2> QED  BY <2>1, <1>1, GuardsCount DEF Guards!UpTo
<1>7. Guards!Length(f) \in ReachedGaps(gaps, 95)
  BY <1>2, <1>3, <1>6
<1>8. ASSUME NEW k \in ReachedGaps(gaps, 95) PROVE k \in ReachedGaps(gaps, 50)
  <2>1. PICK g \in gaps : k = Guards!Length(g) /\ Guards!UpTo(gaps, Guards!Length(g)) > high
    BY <1>3
  <2>2. Guards!UpTo(gaps, Guards!Length(g)) > low
    BY <2>1, <1>2, <1>4
  <2> QED  BY <2>1, <2>2, <1>3
<1> QED  BY <1>3, <1>7, <1>8

LEMMA PercentileIs ==
  ASSUME NEW gaps, NEW p \in {50, 95}, ReachedGaps(gaps, p) \subseteq Nat, ReachedGaps(gaps, p) # {}, gaps # {}
  PROVE  /\ Guards!Percentile(gaps, p) \in ReachedGaps(gaps, p)
         /\ \A m \in ReachedGaps(gaps, p) : Guards!Percentile(gaps, p) <= m
<1>1. \E k \in ReachedGaps(gaps, p) : \A m \in ReachedGaps(gaps, p) : k <= m
  BY SmallestIn
<1>2. Guards!Percentile(gaps, p) =
        CHOOSE k \in ReachedGaps(gaps, p) : \A m \in ReachedGaps(gaps, p) : k <= m
  BY DEF Guards!Percentile, ReachedGaps
<1> QED  BY <1>1, <1>2

LEMMA PercentilesFit == Guards!PercentilesAreGaps
<1> SUFFICES ASSUME NEW segments \in SUBSET [id : {1, 2}, ts : {0, 10, 70}]
             PROVE  /\ Guards!Percentile(Guards!Gaps(segments), 50)
                         <= Guards!Percentile(Guards!Gaps(segments), 95)
                    /\ \A p \in {50, 95} :
                         Guards!Percentile(Guards!Gaps(segments), p) \in {-1, 10, 60, 70}
  BY DEF Guards!PercentilesAreGaps
<1> DEFINE gaps == Guards!Gaps(segments)
<1>1. IsFiniteSet(gaps) /\ \A g \in gaps : Guards!Length(g) \in {10, 60, 70}
  BY GapsAre
<1> HIDE DEF gaps
<1>2. CASE gaps = {}
  BY <1>2 DEF Guards!Percentile, gaps
<1>3. CASE gaps # {}
  <2>1. /\ ReachedGaps(gaps, 95) # {} /\ ReachedGaps(gaps, 95) \subseteq ReachedGaps(gaps, 50)
        /\ ReachedGaps(gaps, 50) \subseteq {10, 60, 70}
    BY <1>1, <1>3, GapsAreReached
  <2>2. /\ ReachedGaps(gaps, 50) # {} /\ ReachedGaps(gaps, 50) \subseteq Nat /\ ReachedGaps(gaps, 95) \subseteq Nat
    BY <2>1
  <2>3. /\ Guards!Percentile(gaps, 50) \in ReachedGaps(gaps, 50)
        /\ \A m \in ReachedGaps(gaps, 50) : Guards!Percentile(gaps, 50) <= m
    BY <1>3, <2>2, PercentileIs
  <2>4. Guards!Percentile(gaps, 95) \in ReachedGaps(gaps, 95)
    BY <1>3, <2>1, <2>2, PercentileIs
  <2>5. /\ Guards!Percentile(gaps, 50) \in {10, 60, 70} /\ Guards!Percentile(gaps, 95) \in {10, 60, 70}
        /\ Guards!Percentile(gaps, 50) <= Guards!Percentile(gaps, 95)
    BY <2>1, <2>3, <2>4
  <2> QED  BY <2>5 DEF gaps
<1> QED  BY <1>2, <1>3

LEMMA SurfacesFit == ASSUME GuardsInv PROVE Guards!SurfacesAgree
<1>1. v2 \in GuardWorlds(v2)
  BY DEF GuardsInv, GuardsTyped
<1>2. v2.fill \in {70, 85, 96} /\ v2.armed \in BOOLEAN /\ v2.seen \in BOOLEAN
  BY <1>1 DEF GuardWorlds
<1> DEFINE c == Guards!Capacity(v2.fill, v2.armed, v2.seen)
<1>3. /\ v2.fill < 80 => ~c.refused /\ ~c.warning
      /\ c.refused \in BOOLEAN /\ c.warning \in BOOLEAN
  <2>1. v2.fill < 80 => ~(v2.fill >= 95) /\ ~(v2.fill >= 80)
    BY <1>2
  <2>2. CASE v2.seen
    <3> DEFINE refused == v2.armed /\ v2.fill >= 95
               warning == v2.fill >= 80 /\ v2.fill < 95
    <3>1. c = [there |-> TRUE, refused |-> refused, warning |-> warning]
      BY <2>2 DEF Guards!Capacity, Guards!Early, Guards!Critical
    <3>2. refused \in BOOLEAN /\ warning \in BOOLEAN /\ (v2.fill < 80 => ~refused /\ ~warning)
      BY <2>1
    <3> HIDE DEF c, refused, warning
    <3>3. c.refused = refused /\ c.warning = warning
      BY <3>1
    <3> QED  BY <3>2, <3>3
  <2>3. CASE ~v2.seen
    <3>1. c = [there |-> FALSE, refused |-> FALSE, warning |-> FALSE]
      BY <2>3 DEF Guards!Capacity, Guards!NoCapacity
    <3> HIDE DEF c
    <3> QED  BY <3>1
  <2> QED  BY <2>2, <2>3
<1> HIDE DEF c
<1>4. /\ "refusing" \in Guards!Warnings(v2, "both") => c.refused
      /\ "filling" \in Guards!Warnings(v2, "both") => c.warning
      /\ ~c.refused /\ ~c.warning => Guards!Warnings(v2, "both") \subseteq {"stuck"}
  BY DEF Guards!Warnings, c
<1>5. c.refused \/ c.warning => Guards!Preflight(v2) # "ok"
  <2>1. CASE v2.head = "ok" /\ v2.cfg = "full"
    <3>1. Guards!Preflight(v2) = IF c.refused THEN "refusing" ELSE IF c.warning THEN "filling" ELSE "ok"
      BY <2>1 DEF Guards!Preflight, c
    <3> DEFINE refused == c.refused
               warning == c.warning
    <3>2. Guards!Preflight(v2) = IF refused THEN "refusing" ELSE IF warning THEN "filling" ELSE "ok"
      BY <3>1
    <3> HIDE DEF refused, warning
    <3>3. refused \/ warning => Guards!Preflight(v2) # "ok"
      BY <3>2
    <3>4. c.refused \/ c.warning => Guards!Preflight(v2) # "ok"
      BY ONLY <3>3 DEF refused, warning
    <3> QED  BY <3>4
  <2>2. CASE v2.head # "ok" \/ v2.cfg # "full"
    <3>1. v2.cfg # "ok"
      BY <1>1 DEF GuardWorlds
    <3>2. Guards!Preflight(v2) # "ok"
      BY <2>2, <3>1 DEF Guards!Preflight
    <3> QED  BY <3>2
  <2> QED  BY <2>1, <2>2
<1> QED  BY <1>3, <1>4, <1>5 DEF Guards!SurfacesAgree, Guards!Early

LEMMA SilenceFits == Guards!SilenceIsNotIdle
<1> SUFFICES ASSUME NEW r \in [reclaimable : -1 .. 1, relocate : -1 .. 1, retry : -1 .. 1,
                               paused : -1 .. 1, bytes : -1 .. 1, passes : -1 .. 1]
             PROVE  /\ r.reclaimable = -1 => Guards!Classify(r) = "unknown"
                    /\ (r.reclaimable > 0 \/ r.retry > 0) /\ r.bytes <= 0 /\ r.passes <= 0 =>
                         Guards!Classify(r) \notin {"idle", "working"}
  BY DEF Guards!SilenceIsNotIdle
<1>1. /\ r.reclaimable \in -1 .. 1 /\ r.relocate \in -1 .. 1 /\ r.retry \in -1 .. 1
      /\ r.bytes \in -1 .. 1 /\ r.passes \in -1 .. 1
  OBVIOUS
<1>2. ASSUME r.reclaimable # -1, r.reclaimable > 0 \/ r.retry > 0, r.bytes <= 0, r.passes <= 0
      PROVE  Guards!Classify(r) \in {"stuck", "unknown"}
  <2>1. r.retry > 0 \/ r.reclaimable > 0 \/ Guards!Pos(r.relocate) + Guards!Pos(r.retry) > 0
    BY <1>2
  <2>2. ~(r.bytes > 0 \/ r.passes > 0)
    BY <1>1, <1>2
  <2>3. CASE r.retry > 0 \/ r.paused = 1
    BY <1>2, <2>2, <2>3 DEF Guards!Classify
  <2>4. CASE ~(r.retry > 0) /\ ~(r.paused = 1)
    BY <1>2, <2>2, <2>4 DEF Guards!Classify
  <2> QED  BY <2>3, <2>4
<1>3. r.reclaimable = -1 => Guards!Classify(r) = "unknown"
  BY DEF Guards!Classify
<1> QED  BY <1>2, <1>3

LEMMA GuardsPromise ==
  ASSUME GuardsInv
  PROVE  /\ Guards!TypeOK /\ Guards!SurfacesAgree /\ Guards!SilenceIsNotIdle
         /\ Guards!SampleIsNewest /\ Guards!PercentilesAreGaps
<1>1. Guards!TypeOK
  <2>1. v3.pre.age \in 0 .. GuardsGiven.PreflightTtl /\ v3.rules.age \in 0 .. GuardsGiven.RulesTtl
    BY DEF GuardsInv, GuardsTyped, Tested, Ruled
  <2>2. v2.changes \in 0 .. GuardsGiven.MaxChanges
    BY DEF GuardsInv, GuardsTyped, GuardWorlds
  <2>3. v5.state \in {"loading", "fresh", "stale", "error"}
    BY DEF GuardsInv, GuardsTyped
  <2> QED  BY <2>1, <2>2, <2>3 DEF GuardsInv, GuardsTyped, Guards!TypeOK
<1>2. Guards!SampleIsNewest
  BY DEF GuardsInv, OneDayEach, Guards!SampleIsNewest
<1> QED  BY <1>1, <1>2, SurfacesFit, SilenceFits, PercentilesFit

--------------------------------------------------------------------------------
(* Induction up to a number, of a set in place of a predicate, and what a  *)
(* recursive function over a list is.                                      *)
LEMMA UpwardsTo ==
  ASSUME NEW N \in Nat, NEW T, 0 \in T, \A n \in 0 .. (N - 1) : n \in T => n + 1 \in T
  PROVE  0 .. N \subseteq T
<1> DEFINE Bad == {n \in 0 .. N : n \notin T}
<1>1. ASSUME Bad # {} PROVE FALSE
  <2>1. Bad \in SUBSET Nat
    OBVIOUS
  <2>2. PICK n \in Bad : \A m \in Bad : n <= m
    <3> HIDE DEF Bad
    <3> QED  BY <1>1, <2>1, SmallestIn
  <2>3. n # 0 /\ n - 1 \in 0 .. (N - 1) /\ n \in 0 .. N
    OBVIOUS
  <2>4. n - 1 \in T
    BY <2>2, <2>3
  <2>5. (n - 1) + 1 \in T
    BY <2>3, <2>4
  <2> QED  BY <2>3, <2>5
<1> QED  BY <1>1

Unfolds(f, S, N, base, step) ==
  f \in [0 .. N -> S] /\ f[0] = base /\ \A n \in 1 .. N : f[n] = step[<<f[n - 1], n>>]
LEMMA UnfoldsTo ==
  ASSUME NEW S, NEW N \in Nat, NEW base \in S, NEW step \in [S \X (1 .. N) -> S]
  PROVE  \E f : Unfolds(f, S, N, base, step)
<1> DEFINE Is(n, f) == /\ f \in [0 .. n -> S] /\ f[0] = base
                       /\ \A k \in 1 .. n : f[k] = step[<<f[k - 1], k>>]
           T == {n \in 0 .. N : \E f : Is(n, f)}
<1>1. 0 \in T
  <2>1. Is(0, [n \in 0 .. 0 |-> base])
    OBVIOUS
  <2> HIDE DEF Is
  <2>2. \E f : Is(0, f)
    BY <2>1
  <2> QED  BY <2>2
<1>2. ASSUME NEW n \in 0 .. (N - 1), n \in T PROVE n + 1 \in T
  <2>1. PICK f : Is(n, f)
    BY <1>2
  <2> DEFINE v == step[<<f[n], n + 1>>]
             g == [k \in 0 .. (n + 1) |-> IF k = n + 1 THEN v ELSE f[k]]
  <2>2. f[n] \in S /\ n + 1 \in 1 .. N
    BY <2>1
  <2>3. v \in S
    BY <2>2
  <2> HIDE DEF v
  <2>4. g \in [0 .. (n + 1) -> S]
    <3> SUFFICES ASSUME NEW k \in 0 .. (n + 1) PROVE (IF k = n + 1 THEN v ELSE f[k]) \in S
      OBVIOUS
    <3> QED  BY <2>1, <2>3
  <2>5. g[0] = base
    BY <2>1
  <2>6. ASSUME NEW k \in 1 .. (n + 1) PROVE g[k] = step[<<g[k - 1], k>>]
    <3>1. CASE k = n + 1
      <4>1. g[k] = v /\ g[k - 1] = f[n] /\ k = n + 1
        BY <3>1
      <4> QED  BY <4>1 DEF v
    <3>2. CASE k # n + 1
      <4>1. k \in 1 .. n /\ g[k] = f[k] /\ g[k - 1] = f[k - 1]
        BY <3>2
      <4> QED  BY <4>1, <2>1
    <3> QED  BY <3>1, <3>2
  <2> HIDE DEF g
  <2>7. Is(n + 1, g)
    BY <2>4, <2>5, <2>6
  <2> QED  BY <2>7, <2>2
<1>3. N \in T
  <2> HIDE DEF T
  <2>1. 0 .. N \subseteq T
    BY <1>1, <1>2, UpwardsTo
  <2> QED  BY <2>1
<1>4. PICK f : Is(N, f)
  BY <1>3
<1>5. Unfolds(f, S, N, base, step)
  BY <1>4 DEF Unfolds
<1> QED  BY <1>5

--------------------------------------------------------------------------------
(* The feed of incidents (the routes and the page of incidents): v1 what   *)
(* the bridge has, v2 the connection's server side, v3 its client side, v4 *)
(* the page, v5 the banners.                                               *)

LEMMA FeedNumbers ==
  /\ FeedGiven.Window \in Nat /\ FeedGiven.MaxAttempts \in Nat
  /\ FeedGiven.MaxBanners \in Nat \ {0} /\ FeedGiven.MaxVisits \in Nat
BY FeedAssumption

InFront(q, x) == <<x>> \o q
Behind(q, x)  == Append(q, x)
LEMMA AtEitherEnd ==
  ASSUME NEW S, NEW q \in Seq(S), NEW x \in S
  PROVE  /\ Behind(q, x) \in Seq(S) /\ Len(Behind(q, x)) = Len(q) + 1
         /\ Behind(q, x)[Len(q) + 1] = x /\ \A k \in 1 .. Len(q) : Behind(q, x)[k] = q[k]
         /\ InFront(q, x) \in Seq(S) /\ Len(InFront(q, x)) = Len(q) + 1
         /\ InFront(q, x)[1] = x /\ \A k \in 1 .. Len(q) : InFront(q, x)[k + 1] = q[k]
<1>1. /\ Behind(q, x) \in Seq(S) /\ Len(Behind(q, x)) = Len(q) + 1
      /\ Behind(q, x)[Len(q) + 1] = x /\ \A k \in 1 .. Len(q) : Behind(q, x)[k] = q[k]
  BY DEF Behind
<1>2. <<x>> \in Seq(S) /\ Len(<<x>>) = 1 /\ <<x>>[1] = x
  OBVIOUS
<1> DEFINE u == <<x>>
<1> HIDE DEF u
<1>3. /\ u \o q \in Seq(S) /\ Len(u \o q) = Len(u) + Len(q)
      /\ \A k \in 1 .. Len(u) + Len(q) : (u \o q)[k] = IF k <= Len(u) THEN u[k] ELSE q[k - Len(u)]
  BY <1>2 DEF u
<1>4. /\ u \o q \in Seq(S) /\ Len(u \o q) = Len(q) + 1
      /\ (u \o q)[1] = x /\ \A k \in 1 .. Len(q) : (u \o q)[k + 1] = q[k]
  <2>1. Len(u) = 1 /\ u[1] = x /\ Len(q) \in Nat
    BY <1>2 DEF u
  <2> QED  BY <1>3, <2>1
<1> DEFINE v == u \o q
<1>5. InFront(q, x) = v
  BY DEF InFront, u
<1> HIDE DEF v
<1> QED  BY <1>1, <1>4, <1>5 DEF v

(* What a list is.                                                         *)
FeedList(l) == l \in Seq(FeedGiven.Incidents)

LEMMA FeedRange ==
  ASSUME NEW l, FeedList(l)
  PROVE  /\ Feed!Range(l) = {l[i] : i \in 1 .. Len(l)} /\ Feed!Range(l) \subseteq FeedGiven.Incidents
         /\ \A i \in 1 .. Len(l) : l[i] \in Feed!Range(l)
BY DEF FeedList, Feed!Range

(* mergeIncident keeps what is in the list, and adds what it merges.       *)
LEMMA MergeKeeps ==
  ASSUME NEW l, FeedList(l), NEW i \in FeedGiven.Incidents
  PROVE  /\ FeedList(Feed!Merge(l, i))
         /\ Feed!Range(l) \subseteq Feed!Range(Feed!Merge(l, i))
<1> DEFINE m == InFront(l, i)
<1>1. CASE Feed!Merge(l, i) = l
  BY <1>1
<1>2. CASE Feed!Merge(l, i) = m
  <2>1. FeedList(m) /\ \A k \in 1 .. Len(l) : k + 1 \in 1 .. Len(m) /\ m[k + 1] = l[k]
    <3>1. l \in Seq(FeedGiven.Incidents) /\ Len(l) \in Nat
      BY DEF FeedList
    <3>2. /\ m \in Seq(FeedGiven.Incidents) /\ Len(m) = Len(l) + 1
          /\ \A k \in 1 .. Len(l) : m[k + 1] = l[k]
      BY <3>1, AtEitherEnd
    <3> HIDE DEF m
    <3>3. ASSUME NEW k \in 1 .. Len(l) PROVE k + 1 \in 1 .. Len(m)
      BY <3>1, <3>2
    <3> QED  BY <3>2, <3>3 DEF FeedList
  <2> HIDE DEF m
  <2>2. Feed!Range(l) \subseteq Feed!Range(m)
    <3>1. ASSUME NEW x \in Feed!Range(l) PROVE x \in Feed!Range(m)
      <4>1. PICK k \in 1 .. Len(l) : x = l[k]
        BY FeedRange
      <4>2. m[k + 1] = x /\ k + 1 \in 1 .. Len(m)
        BY <4>1, <2>1
      <4> QED  BY <4>2, <2>1, FeedRange
    <3> QED  BY <3>1
  <2> QED  BY <1>2, <2>1, <2>2
<1> QED  BY <1>1, <1>2 DEF Feed!Merge, InFront

LEMMA MergeAllKeeps ==
  ASSUME NEW l, FeedList(l), NEW s, FeedList(s)
  PROVE  FeedList(Feed!MergeAll(l, s)) /\ Feed!Range(l) \subseteq Feed!Range(Feed!MergeAll(l, s))
<1> DEFINE S == Seq(FeedGiven.Incidents)
           N == Len(s)
           step == [c \in S \X (1 .. N) |-> Feed!Merge(c[1], s[c[2]])]
           Is(f) == f = [n \in 0 .. N |-> IF n = 0 THEN l ELSE Feed!Merge(f[n - 1], s[n])]
<1>1. N \in Nat /\ l \in S /\ \A n \in 1 .. N : s[n] \in FeedGiven.Incidents
  BY DEF FeedList
<1> HIDE DEF N, S
<1>2. step \in [S \X (1 .. N) -> S]
  <2>1. ASSUME NEW c \in S \X (1 .. N) PROVE Feed!Merge(c[1], s[c[2]]) \in S
    BY <2>1, <1>1, MergeKeeps DEF FeedList, S
  <2> QED  BY <2>1
<1>3. \E f : Is(f)
  <2>0. PICK f : Unfolds(f, S, N, l, step)
    <3> HIDE DEF step
    <3> QED  BY <1>1, <1>2, UnfoldsTo
  <2>1. f \in [0 .. N -> S] /\ f[0] = l /\ \A n \in 1 .. N : f[n] = step[<<f[n - 1], n>>]
    <3> HIDE DEF step
    <3> QED  BY <2>0 DEF Unfolds
  <2>2. ASSUME NEW n \in 1 .. N PROVE step[<<f[n - 1], n>>] = Feed!Merge(f[n - 1], s[n])
    <3>1. f[n - 1] \in S
      <4>1. n - 1 \in 0 .. N
        BY <1>1
      <4> HIDE DEF step
      <4> QED  BY <2>1, <4>1
    <3> QED  BY <3>1
  <2>3. \A n \in 1 .. N : f[n] = Feed!Merge(f[n - 1], s[n])
    BY <2>1, <2>2
  <2> HIDE DEF step
  <2>4. Is(f)
    BY <2>1, <2>3
  <2> QED  BY <2>4
<1> DEFINE f == CHOOSE f : Is(f)
<1>4. Is(f)
  BY <1>3
<1>5. Feed!MergeAll(l, s) = f[N]
  BY DEF Feed!MergeAll, N
<1> HIDE DEF f
<1> DEFINE T == {n \in 0 .. N : FeedList(f[n]) /\ Feed!Range(l) \subseteq Feed!Range(f[n])}
<1>6. 0 \in T
  BY <1>1, <1>4
<1>7. ASSUME NEW n \in 0 .. (N - 1), n \in T PROVE n + 1 \in T
  <2>1. n + 1 \in 1 .. N /\ f[n + 1] = Feed!Merge(f[n], s[n + 1])
    <3>1. n + 1 \in 1 .. N /\ n + 1 \in 0 .. N /\ (n + 1) - 1 = n /\ n + 1 # 0
      BY <1>1
    <3> QED  BY <3>1, <1>4
  <2>2. FeedList(f[n + 1]) /\ Feed!Range(f[n]) \subseteq Feed!Range(f[n + 1])
    BY <1>1, <1>7, <2>1, MergeKeeps
  <2> QED  BY <1>7, <2>1, <2>2
<1>8. N \in T
  <2> HIDE DEF T
  <2>1. 0 .. N \subseteq T
    BY <1>1, <1>6, <1>7, UpwardsTo
  <2> QED  BY <2>1, <1>1
<1> QED  BY <1>5, <1>8

(* filter keeps members of the set only, in their order.                   *)
LEMMA FilterKeeps ==
  ASSUME NEW l, FeedList(l), NEW some
  PROVE  LET k == Feed!Filter(l, some)
         IN /\ FeedList(k) /\ Feed!Range(k) \subseteq Feed!Range(l) \intersect some
            /\ Len(k) <= Len(l) /\ (Feed!IsInjective(l) => Feed!IsInjective(k))
<1> DEFINE N == Len(l)
           S == Seq(FeedGiven.Incidents)
           Add(c, n) == IF l[n] \in some THEN Behind(c, l[n]) ELSE c
           step == [c \in S \X (1 .. N) |-> Add(c[1], c[2])]
           Is(f) == f = [n \in 0 .. N |-> IF n = 0 THEN <<>> ELSE Add(f[n - 1], n)]
<1>1. N \in Nat /\ <<>> \in S /\ \A n \in 1 .. N : l[n] \in FeedGiven.Incidents
  BY DEF FeedList
<1> HIDE DEF N
<1>2. step \in [S \X (1 .. N) -> S]
  <2>1. ASSUME NEW c \in S \X (1 .. N) PROVE Add(c[1], c[2]) \in S
    <3>1. /\ c[1] \in Seq(FeedGiven.Incidents) /\ l[c[2]] \in FeedGiven.Incidents
      BY <1>1
    <3>2. Behind(c[1], l[c[2]]) \in Seq(FeedGiven.Incidents)
      BY <3>1, AtEitherEnd
    <3> QED  BY <3>1, <3>2
  <2> HIDE DEF Add, S
  <2> QED  BY <2>1
<1>3. \E f : Is(f)
  <2>0. PICK f : Unfolds(f, S, N, <<>>, step)
    <3> HIDE DEF step, S
    <3> QED  BY <1>1, <1>2, UnfoldsTo
  <2>1. f \in [0 .. N -> S] /\ f[0] = <<>> /\ \A n \in 1 .. N : f[n] = step[<<f[n - 1], n>>]
    <3> HIDE DEF step
    <3> QED  BY <2>0 DEF Unfolds
  <2> HIDE DEF Add, S
  <2>2. ASSUME NEW n \in 1 .. N PROVE step[<<f[n - 1], n>>] = Add(f[n - 1], n)
    <3>1. f[n - 1] \in S
      BY <1>1, <2>1
    <3> QED  BY <3>1
  <2>3. \A n \in 1 .. N : f[n] = Add(f[n - 1], n)
    BY <2>1, <2>2
  <2> HIDE DEF step
  <2>4. Is(f)
    BY <2>1, <2>3
  <2> QED  BY <2>4
<1> DEFINE f == CHOOSE f : Is(f)
<1>4. Is(f)
  <2> HIDE DEF Is
  <2> QED  BY <1>3
<1>5. Feed!Filter(l, some) = f[N]
  BY DEF Feed!Filter, N, Behind
<1> HIDE DEF f, Add
\* what has been kept, and from where
<1> DEFINE Fits(c, n) ==
      /\ c \in S /\ Len(c) <= n
      /\ \A i \in 1 .. Len(c) : c[i] \in some /\ \E j \in 1 .. n : c[i] = l[j]
      /\ Feed!IsInjective(l) => \A i, j \in 1 .. Len(c) : c[i] = c[j] => i = j
           T == {n \in 0 .. N : Fits(f[n], n)}
<1>6. 0 \in T
  <2>1. f[0] = <<>>
    BY <1>1, <1>4
  <2>2. Fits(<<>>, 0)
    BY <1>1
  <2> HIDE DEF Fits
  <2> QED  BY <2>1, <2>2, <1>1
<1>7. ASSUME NEW n \in 0 .. (N - 1), n \in T PROVE n + 1 \in T
  <2>1. n + 1 \in 1 .. N /\ f[n + 1] = Add(f[n], n + 1) /\ n \in Nat
    <3>1. n + 1 \in 1 .. N /\ n + 1 \in 0 .. N /\ (n + 1) - 1 = n /\ n + 1 # 0 /\ n \in Nat
      BY <1>1
    <3> QED  BY <3>1, <1>4
  <2>2. Fits(f[n], n)
    BY <1>7
  <2> DEFINE c == f[n]
             m == n + 1
             d == Behind(c, l[m])
  <2>3. CASE f[n + 1] = c
    <3> HIDE DEF c
    <3>1. Fits(c, n + 1)
      BY <2>1, <2>2 DEF c
    <3> QED  BY <2>1, <2>3, <3>1
  <2>4. CASE l[m] \in some /\ f[n + 1] = d
    <3>0. /\ c \in S /\ Len(c) <= n /\ m \in 1 .. N /\ l[m] \in FeedGiven.Incidents
          /\ m \in Nat /\ n = m - 1
      BY <2>1, <2>2, <1>1
    <3>1. /\ d \in S /\ Len(d) = Len(c) + 1 /\ d[Len(c) + 1] = l[m]
          /\ \A i \in 1 .. Len(c) : d[i] = c[i]
      <4> DEFINE x == l[m]
                 K == FeedGiven.Incidents
                 e == Behind(c, x)
      <4>1. c \in Seq(K) /\ x \in K
        BY <3>0
      <4> HIDE DEF c, m, x, K
      <4>2. /\ e \in Seq(K) /\ Len(e) = Len(c) + 1 /\ e[Len(c) + 1] = x
            /\ \A k \in 1 .. Len(c) : e[k] = c[k]
        BY <4>1, AtEitherEnd
      <4> HIDE DEF e
      <4> QED  BY <4>2 DEF e, x, K
    <3>2. \A i \in 1 .. Len(c) : c[i] \in some /\ \E j \in 1 .. n : c[i] = l[j]
      BY <2>2
    <3>3. Len(d) <= m
      BY <3>0, <3>1
    <3> HIDE DEF d, c, m
    <3>4. Len(c) \in Nat
      BY <3>0
    <3>5. ASSUME NEW i \in 1 .. Len(d) PROVE d[i] \in some /\ \E j \in 1 .. m : d[i] = l[j]
      <4>1. CASE i = Len(c) + 1
        <5>1. m \in 1 .. m
          BY <3>0
        <5> QED  BY <4>1, <3>1, <2>4, <5>1
      <4>2. CASE i \in 1 .. Len(c)
        <5>1. PICK j \in 1 .. n : c[i] = l[j]
          BY <4>2, <3>2
        <5>2. j \in 1 .. m
          BY <3>0
        <5> QED  BY <4>2, <3>1, <3>2, <5>1, <5>2
      <4> QED  BY <3>1, <3>4, <4>1, <4>2
    <3>6. ASSUME Feed!IsInjective(l), NEW i \in 1 .. Len(d), NEW j \in 1 .. Len(d), d[i] = d[j]
          PROVE  i = j
      <4>1. ASSUME NEW k \in 1 .. Len(c) PROVE c[k] # l[m]
        <5>1. PICK h \in 1 .. n : c[k] = l[h]
          BY <3>2
        <5>2. h # m /\ h \in 1 .. N /\ DOMAIN l = 1 .. N
          BY <3>0, <1>1 DEF N, FeedList
        <5> QED  BY <3>0, <5>1, <5>2, <3>6 DEF Feed!IsInjective
      <4>2. (i \in 1 .. Len(c) \/ i = Len(c) + 1) /\ (j \in 1 .. Len(c) \/ j = Len(c) + 1)
        BY <3>1, <3>4
      <4>3. i \in 1 .. Len(c) /\ j \in 1 .. Len(c) => i = j
        BY <2>2, <3>1, <3>6 DEF c
      <4> QED  BY <3>1, <3>6, <4>1, <4>2, <4>3
    <3>7. Fits(d, m)
      BY <3>1, <3>3, <3>5, <3>6
    <3> QED  BY <2>1, <2>4, <3>7 DEF m
  <2> QED  BY <2>1, <2>3, <2>4 DEF Add
<1>8. Fits(f[N], N)
  <2>1. N \in T
    <3> HIDE DEF T
    <3>1. 0 .. N \subseteq T
      BY <1>1, <1>6, <1>7, UpwardsTo
    <3> QED  BY <3>1, <1>1
  <2> QED  BY <2>1
<1> DEFINE k == Feed!Filter(l, some)
<1>9. Fits(k, N)
  BY <1>5, <1>8
<1> HIDE DEF k
<1>a. FeedList(k) /\ Len(k) <= N
  BY <1>9 DEF FeedList
<1>b. Feed!Range(k) \subseteq Feed!Range(l) \intersect some
  <2>1. ASSUME NEW x \in Feed!Range(k) PROVE x \in Feed!Range(l) /\ x \in some
    <3>1. PICK i \in 1 .. Len(k) : x = k[i]
      BY <1>a, FeedRange
    <3>2. k[i] \in some /\ \E j \in 1 .. N : k[i] = l[j]
      BY <1>9
    <3> QED  BY <3>1, <3>2, FeedRange DEF N
  <2> QED  BY <2>1
<1>c. Feed!IsInjective(l) => Feed!IsInjective(k)
  <2>1. DOMAIN k = 1 .. Len(k)
    BY <1>a DEF FeedList
  <2> QED  BY <2>1, <1>9 DEF Feed!IsInjective
<1> QED  BY <1>a, <1>b, <1>c DEF k, N

--------------------------------------------------------------------------------
(* What the bridge lists, of all it has.                                   *)
FeedTop(b) ==
  SubSeq(b, 1, IF Len(b) < FeedGiven.Window THEN Len(b) ELSE FeedGiven.Window)

LEMMA TopIs ==
  ASSUME NEW b, FeedList(b)
  PROVE  /\ FeedList(FeedTop(b)) /\ FeedTop(b) \in Feed!Answers
         /\ Feed!Range(FeedTop(b)) \subseteq Feed!Range(b)
<1> DEFINE n == IF Len(b) < FeedGiven.Window THEN Len(b) ELSE FeedGiven.Window
           K == FeedGiven.Incidents
           s == SubSeq(b, 1, n)
<1>1. b \in Seq(K) /\ n \in 0 .. FeedGiven.Window /\ n \in 0 .. Len(b)
  BY FeedNumbers DEF FeedList
<1> HIDE DEF n, K
<1>2. s \in Seq(K) /\ Len(s) = n /\ \A k \in 1 .. n : s[k] = b[k]
  BY <1>1
<1> HIDE DEF s
<1>3. s \in [1 .. n -> K]
  BY <1>1, <1>2
<1>4. s \in Feed!Answers
  BY <1>1, <1>3 DEF Feed!Answers, K
<1>5. FeedList(s) /\ FeedTop(b) = s
  BY <1>2 DEF FeedList, FeedTop, s, n, K
<1>6. Feed!Range(s) \subseteq Feed!Range(b)
  <2>1. ASSUME NEW x \in Feed!Range(s) PROVE x \in Feed!Range(b)
    <3>1. PICK k \in 1 .. Len(s) : x = s[k]
      BY <1>5, FeedRange
    <3>2. x = b[k] /\ k \in 1 .. Len(b)
      BY <3>1, <1>1, <1>2
    <3> QED  BY <3>2, FeedRange
  <2> QED  BY <2>1
<1> QED  BY <1>4, <1>5, <1>6

(* An incident that is news to the bridge is all that its list may gain.   *)
LEMMA TopGrows ==
  ASSUME NEW b, FeedList(b), NEW i \in FeedGiven.Incidents, NEW more, more = <<i>> \o b
  PROVE  /\ FeedList(more) /\ Feed!Range(b) \subseteq Feed!Range(more)
         /\ Feed!Range(FeedTop(more)) \subseteq {i} \union Feed!Range(FeedTop(b))
<1> DEFINE K == FeedGiven.Incidents
           c == InFront(b, i)
           n == IF Len(b) < FeedGiven.Window THEN Len(b) ELSE FeedGiven.Window
           m == IF Len(c) < FeedGiven.Window THEN Len(c) ELSE FeedGiven.Window
           s == SubSeq(b, 1, n)
           t == SubSeq(c, 1, m)
<1>1. /\ b \in Seq(K) /\ c \in Seq(K) /\ Len(c) = Len(b) + 1 /\ c[1] = i
      /\ \A k \in 1 .. Len(b) : c[k + 1] = b[k]
  <2>1. b \in Seq(K)
    BY DEF FeedList
  <2> HIDE DEF K, c
  <2> QED  BY <2>1, AtEitherEnd DEF K, c
<1> HIDE DEF K, c
<1>2. /\ n \in 0 .. Len(b) /\ m \in 0 .. Len(c) /\ m <= n + 1
  BY <1>1, FeedNumbers
<1> HIDE DEF n, m
<1>3. /\ Len(s) = n /\ \A k \in 1 .. n : s[k] = b[k]
      /\ Len(t) = m /\ \A k \in 1 .. m : t[k] = c[k]
  BY <1>1, <1>2
<1> HIDE DEF s, t
<1>4. FeedList(c) /\ FeedTop(b) = s /\ FeedTop(c) = t
  BY <1>1 DEF FeedList, FeedTop, s, t, n, m, K
<1>5. FeedList(s) /\ FeedList(t)
  BY <1>4, TopIs
<1>6. ASSUME NEW x \in Feed!Range(t) PROVE x = i \/ x \in Feed!Range(s)
  <2>1. PICK k \in 1 .. Len(t) : x = t[k]
    BY <1>5, FeedRange
  <2>2. k \in 1 .. m /\ x = c[k]
    BY <2>1, <1>3
  <2>3. CASE k = 1
    BY <2>2, <2>3, <1>1
  <2>4. CASE k # 1
    <3>1. k - 1 \in 1 .. n /\ k - 1 \in 1 .. Len(b) /\ (k - 1) + 1 = k
      BY <1>1, <1>2, <2>2, <2>4
    <3>2. c[k] = b[k - 1] /\ s[k - 1] = b[k - 1]
      BY <3>1, <1>1, <1>3
    <3>3. k - 1 \in 1 .. Len(s)
      BY <3>1, <1>3
    <3> QED  BY <2>2, <3>2, <3>3, <1>5, FeedRange
  <2> QED  BY <2>3, <2>4
<1>7. ASSUME NEW x \in Feed!Range(b) PROVE x \in Feed!Range(c)
  <2>1. PICK k \in 1 .. Len(b) : x = b[k]
    BY FeedRange
  <2>2. k + 1 \in 1 .. Len(c) /\ c[k + 1] = x
    BY <2>1, <1>1
  <2> QED  BY <2>2, <1>4, FeedRange
<1>8. c = more
  BY DEF c, InFront
<1> QED  BY <1>4, <1>6, <1>7, <1>8

LEMMA AnswerIsList ==
  ASSUME NEW a \in Feed!Answers, a # FeedGiven.NoAnswer
  PROVE  FeedList(a)
<1>1. PICK n \in 0 .. FeedGiven.Window : a \in [1 .. n -> FeedGiven.Incidents]
  BY DEF Feed!Answers
<1>2. n \in Nat
  BY FeedNumbers
<1> QED  BY <1>1, <1>2 DEF FeedList

LEMMA ReverseIs ==
  ASSUME NEW l, FeedList(l)
  PROVE  FeedList(Feed!Reverse(l)) /\ Feed!Range(Feed!Reverse(l)) \subseteq Feed!Range(l)
<1> DEFINE r == [k \in 1 .. Len(l) |-> l[(Len(l) - k) + 1]]
<1>1. Feed!Reverse(l) = r
  BY DEF Feed!Reverse
<1>2. Len(l) \in Nat /\ \A k \in 1 .. Len(l) : (Len(l) - k) + 1 \in 1 .. Len(l)
  BY DEF FeedList
<1>3. r \in [1 .. Len(l) -> FeedGiven.Incidents]
  BY <1>2 DEF FeedList
<1>4. \A k \in 1 .. Len(l) : r[k] = l[(Len(l) - k) + 1]
  OBVIOUS
<1> HIDE DEF r
<1>5. FeedList(r) /\ Len(r) = Len(l)
  BY <1>2, <1>3 DEF FeedList
<1>6. ASSUME NEW x \in Feed!Range(r) PROVE x \in Feed!Range(l)
  <2>1. PICK k \in 1 .. Len(r) : x = r[k]
    BY <1>5, FeedRange
  <2>2. x = l[(Len(l) - k) + 1] /\ (Len(l) - k) + 1 \in 1 .. Len(l)
    BY <2>1, <1>2, <1>4, <1>5
  <2> QED  BY <2>2, FeedRange
<1> QED  BY <1>1, <1>5, <1>6

--------------------------------------------------------------------------------
FeedNews == FeedGiven.Incidents \union {FeedGiven.NoIncident}
FeedLive(c) ==
  c \in [at : {"closed", "asks", "waits"}, seen : SUBSET FeedGiven.Incidents, primed : BOOLEAN,
         answer : Feed!Answers]
FeedHook(h) ==
  h \in [es : {"none", "opening", "open", "later"}, attempt : 0 .. FeedGiven.MaxAttempts,
         failed : BOOLEAN]
FeedPage(p) ==
  p \in [list : Seq(FeedGiven.Incidents), first : Feed!Answers, cached : BOOLEAN,
         polled : Feed!Answers, visits : 0 .. FeedGiven.MaxVisits, here : BOOLEAN,
         past : SUBSET FeedGiven.Incidents]
FeedWall(b) ==
  /\ b \in [trigger : FeedNews, rendered : BOOLEAN, up : Seq(FeedGiven.Incidents), timer : FeedNews]
  /\ ~b.rendered => b.trigger \in FeedGiven.Incidents
  /\ Len(b.up) <= FeedGiven.MaxBanners /\ Feed!IsInjective(b.up)
FeedTyped ==
  /\ FeedList(v1) /\ FeedLive(v2) /\ FeedHook(v3) /\ FeedPage(v4) /\ FeedWall(v5)
  /\ v2.at = "asks" => FeedList(v2.answer)

(* A connection is there for a page that is; what there was when the page  *)
(* came or has been found since, is the bridge's.                          *)
FeedPlaced(bridge, live, hook, page) ==
  /\ ~page.here => live.at = "closed" /\ ~live.primed /\ hook.es = "none"
  /\ page.past \subseteq Feed!Range(bridge)
  /\ live.at = "asks" => Feed!Range(live.answer) \subseteq Feed!Range(bridge)

(* What there was is known to the connection once it has had an answer, or *)
(* is too old to be listed again.                                          *)
FeedKnown(bridge, live, past) ==
  live.primed \/ live.at = "asks" =>
    \A x \in past :
      \/ x \in IF live.primed THEN live.seen ELSE Feed!Range(live.answer)
      \/ /\ x \notin Feed!Range(FeedTop(bridge))
         /\ live.primed /\ live.at = "asks" => x \notin Feed!Range(live.answer)

FeedInv == FeedTyped /\ FeedPlaced(v1, v2, v3, v4) /\ FeedKnown(v1, v2, v4.past)

LEMMA FeedIs ==
  ASSUME FeedList(v1)', FeedLive(v2'), FeedHook(v3'), FeedPage(v4'), FeedWall(v5'),
         v2'.at = "asks" => FeedList(v2'.answer), FeedPlaced(v1', v2', v3', v4'),
         FeedKnown(v1', v2', v4'.past)
  PROVE  FeedInv'
BY DEF FeedInv, FeedTyped

LEMMA FeedEmpty ==
  /\ FeedList(<<>>) /\ Feed!Range(<<>>) = {} /\ FeedGiven.NoAnswer \in Feed!Answers
  /\ FeedLive(Feed!Closed) /\ FeedHook(Feed!Unmounted) /\ FeedWall(Feed!NoBanner)
<1>1. FeedList(<<>>) /\ Feed!Range(<<>>) = {}
  BY DEF FeedList, Feed!Range
<1>2. FeedGiven.NoAnswer \in Feed!Answers
  BY DEF Feed!Answers
<1>3. FeedLive(Feed!Closed)
  BY <1>2 DEF FeedLive, Feed!Closed
<1>4. FeedHook(Feed!Unmounted)
  BY FeedNumbers DEF FeedHook, Feed!Unmounted
<1>5. <<>> \in Seq(FeedGiven.Incidents) /\ Len(<<>>) = 0 /\ DOMAIN <<>> = {}
  OBVIOUS
<1>6. Feed!IsInjective(<<>>)
  BY <1>5 DEF Feed!IsInjective
<1>7. FeedWall(Feed!NoBanner)
  BY <1>5, <1>6, FeedNumbers DEF FeedWall, FeedNews, Feed!NoBanner
<1> QED  BY <1>1, <1>2, <1>3, <1>4, <1>7

LEMMA FeedStart == Feed!Init => FeedInv
<1> SUFFICES ASSUME Feed!Init PROVE FeedInv
  OBVIOUS
<1>1. /\ v1 = <<>> /\ v2 = Feed!Closed /\ v3 = Feed!Unmounted /\ v5 = Feed!NoBanner
      /\ v4 = [list |-> <<>>, first |-> FeedGiven.NoAnswer, cached |-> FALSE,
               polled |-> FeedGiven.NoAnswer, visits |-> 0, here |-> FALSE, past |-> {}]
  BY DEF Feed!Init
<1>2. FeedPage(v4)
  <2>1. <<>> \in Seq(FeedGiven.Incidents)
    OBVIOUS
  <2> QED  BY <1>1, <2>1, FeedEmpty, FeedNumbers DEF FeedPage
<1>3. v2.at = "closed" /\ v2.primed = FALSE /\ v3.es = "none" /\ v4.past = {}
  BY <1>1 DEF Feed!Closed, Feed!Unmounted
<1>4. FeedTyped
  BY <1>1, <1>2, <1>3, FeedEmpty DEF FeedTyped
<1> QED  BY <1>3, <1>4 DEF FeedInv, FeedPlaced, FeedKnown

LEMMA FeedHappens ==
  ASSUME FeedInv, NEW i \in FeedGiven.Incidents, Feed!Happens(i)
  PROVE  FeedInv'
<1>1. /\ v1' = <<i>> \o v1 /\ v2' = v2 /\ v3' = v3 /\ v4' = v4 /\ v5' = v5
      /\ i \notin Feed!Range(v1)
  BY DEF Feed!Happens
<1>2. FeedTyped /\ FeedPlaced(v1, v2, v3, v4) /\ FeedKnown(v1, v2, v4.past)
  BY DEF FeedInv
<1> DEFINE u == v1'
<1>3. u = <<i>> \o v1 /\ FeedList(v1)
  BY <1>1, <1>2 DEF FeedTyped
<1> HIDE DEF u
<1>4. /\ FeedList(u) /\ Feed!Range(v1) \subseteq Feed!Range(u)
      /\ Feed!Range(FeedTop(u)) \subseteq {i} \union Feed!Range(FeedTop(v1))
  BY <1>3, TopGrows
<1>5. FeedPlaced(u, v2, v3, v4)
  BY <1>2, <1>4 DEF FeedPlaced
<1>6. FeedKnown(u, v2, v4.past)
  <2>1. i \notin v4.past
    BY <1>1, <1>2 DEF FeedPlaced
  <2> QED  BY <1>2, <1>4, <2>1 DEF FeedKnown
<1>7. FeedTyped'
  <2>1. FeedList(v1')
    BY <1>4 DEF u
  <2> QED  BY <1>1, <1>2, <2>1 DEF FeedTyped
<1> QED  BY <1>1, <1>5, <1>6, <1>7 DEF FeedInv, u

(* What stays as it is when only the page, the hook or the wall changes.   *)
LEMMA FeedStays ==
  ASSUME FeedInv, v1' = v1, FeedLive(v2'), FeedHook(v3'), FeedPage(v4'), FeedWall(v5'),
         v2'.at = "asks" => FeedList(v2'.answer), FeedPlaced(v1, v2', v3', v4'),
         FeedKnown(v1, v2', v4'.past)
  PROVE  FeedInv'
<1>1. FeedList(v1)
  BY DEF FeedInv, FeedTyped
<1> QED  BY <1>1 DEF FeedInv, FeedTyped

LEMMA FeedPollAsks == ASSUME FeedInv, Feed!PollAsks PROVE FeedInv'
<1> DEFINE top == FeedTop(v1)
           u == [v2 EXCEPT !.at = "asks", !.answer = top]
<1>1. v2.at = "waits" /\ v2' = u /\ v1' = v1 /\ v3' = v3 /\ v4' = v4 /\ v5' = v5
  BY DEF Feed!PollAsks, Feed!Listed, FeedTop
<1>2. /\ FeedList(v1) /\ FeedLive(v2) /\ FeedHook(v3) /\ FeedPage(v4) /\ FeedWall(v5)
      /\ FeedPlaced(v1, v2, v3, v4) /\ FeedKnown(v1, v2, v4.past)
  BY DEF FeedInv, FeedTyped
<1>3. FeedList(top) /\ top \in Feed!Answers /\ Feed!Range(top) \subseteq Feed!Range(v1)
  BY <1>2, TopIs
<1> HIDE DEF top
<1>4. FeedLive(u) /\ u.at = "asks" /\ u.answer = top /\ u.primed = v2.primed /\ u.seen = v2.seen
  BY <1>2, <1>3 DEF FeedLive
<1> HIDE DEF u
<1>5. FeedPlaced(v1, u, v3, v4)
  BY <1>1, <1>2, <1>3, <1>4 DEF FeedPlaced
<1>6. FeedKnown(v1, u, v4.past)
  BY <1>1, <1>2, <1>4 DEF FeedKnown, top
<1> QED  BY <1>1, <1>2, <1>3, <1>4, <1>5, <1>6, FeedStays

LEMMA FeedPollFails == ASSUME FeedInv, Feed!PollFails PROVE FeedInv'
<1> DEFINE u == [v2 EXCEPT !.at = "waits", !.answer = FeedGiven.NoAnswer]
<1>1. v2.at = "asks" /\ v2' = u /\ v1' = v1 /\ v3' = v3 /\ v4' = v4 /\ v5' = v5
  BY DEF Feed!PollFails
<1>2. /\ FeedLive(v2) /\ FeedHook(v3) /\ FeedPage(v4) /\ FeedWall(v5)
      /\ FeedPlaced(v1, v2, v3, v4) /\ FeedKnown(v1, v2, v4.past)
  BY DEF FeedInv, FeedTyped
<1>3. FeedLive(u) /\ u.at = "waits" /\ u.primed = v2.primed /\ u.seen = v2.seen
  BY <1>2, FeedEmpty DEF FeedLive
<1> HIDE DEF u
<1>4. FeedPlaced(v1, u, v3, v4)
  BY <1>1, <1>2, <1>3 DEF FeedPlaced
<1>5. FeedKnown(v1, u, v4.past)
  BY <1>1, <1>2, <1>3 DEF FeedKnown
<1> QED  BY <1>1, <1>2, <1>3, <1>4, <1>5, FeedStays

(* What a page gets of an answer.                                          *)
FeedSevere == {i \in FeedGiven.Incidents : Feed!Severity(i) = "high"}
LEMMA EventsAre ==
  ASSUME NEW a, FeedList(a), NEW seen
  PROVE  LET e == Feed!Filter(Feed!Reverse(a), FeedGiven.Incidents \ seen)
         IN FeedList(e) /\ Feed!Range(e) \subseteq Feed!Range(a) \ seen
<1> DEFINE r == Feed!Reverse(a)
           some == FeedGiven.Incidents \ seen
           e == Feed!Filter(r, some)
<1>1. FeedList(r) /\ Feed!Range(r) \subseteq Feed!Range(a)
  BY ReverseIs
<1> HIDE DEF r
<1>2. FeedList(e) /\ Feed!Range(e) \subseteq Feed!Range(r) \intersect some
  <2> HIDE DEF some
  <2> QED  BY <1>1, FilterKeeps
<1> QED  BY <1>1, <1>2 DEF r

LEMMA LastOfList ==
  ASSUME NEW l, FeedList(l), l # <<>>
  PROVE  l[Len(l)] \in Feed!Range(l)
<1>1. Len(l) \in 1 .. Len(l)
  BY DEF FeedList
<1> QED  BY <1>1, FeedRange

(* What the events do to the page, the hook and the wall.                  *)
LEMMA FeedReceives ==
  ASSUME FeedInv, v2.at = "asks", NEW e, FeedList(e), Feed!Receive(e)
  PROVE  /\ FeedPage(v4') /\ v4'.here = v4.here /\ v4'.first = v4.first
         /\ v4'.past = v4.past \union Feed!Range(v2.answer)
         /\ Feed!Range(v4.list) \subseteq Feed!Range(v4'.list)
         /\ FeedHook(v3') /\ (v3'.es = "none" => v3.es = "none")
         /\ FeedWall(v5')
         /\ \/ v5' = v5
            \/ ~v5'.rendered /\ v5'.trigger \in Feed!Range(e)
<1> DEFINE sev == Feed!Filter(e, FeedSevere)
           all == Feed!MergeAll(v4.list, e)
           was == v4.past \union Feed!Range(v2.answer)
           p == [v4 EXCEPT !.list = all, !.past = was]
           h == [v3 EXCEPT !.attempt = 0, !.failed = FALSE, !.es = "open"]
           last == sev[Len(sev)]
           w == [v5 EXCEPT !.trigger = last, !.rendered = FALSE]
<1>1. v4' = p /\ (v3' = v3 \/ v3' = h) /\ (v5' = v5 \/ (sev # <<>> /\ v5' = w))
  BY DEF Feed!Receive, FeedSevere
<1>2. FeedPage(v4) /\ FeedHook(v3) /\ FeedWall(v5) /\ FeedLive(v2) /\ FeedList(v2.answer)
  BY DEF FeedInv, FeedTyped
<1>3. FeedList(v4.list) /\ v4.past \subseteq FeedGiven.Incidents
  BY <1>2 DEF FeedPage, FeedList
<1>4. FeedList(all) /\ Feed!Range(v4.list) \subseteq Feed!Range(all)
  <2> DEFINE l == v4.list
  <2>1. FeedList(l)
    BY <1>3
  <2> HIDE DEF l
  <2>2. FeedList(Feed!MergeAll(l, e)) /\ Feed!Range(l) \subseteq Feed!Range(Feed!MergeAll(l, e))
    BY <2>1, MergeAllKeeps
  <2> QED  BY <2>2 DEF l
<1>5. was \subseteq FeedGiven.Incidents
  <2> DEFINE a == v2.answer
  <2>1. FeedList(a)
    BY <1>2
  <2> HIDE DEF a
  <2>2. Feed!Range(a) \subseteq FeedGiven.Incidents
    BY <2>1, FeedRange
  <2> QED  BY <1>3, <2>2 DEF a
<1> HIDE DEF all, was
<1>6. FeedPage(p) /\ p.here = v4.here /\ p.first = v4.first /\ p.past = was /\ p.list = all
  <2>1. all \in Seq(FeedGiven.Incidents)
    BY <1>4 DEF FeedList
  <2> QED  BY <1>2, <1>5, <2>1 DEF FeedPage
<1>7. FeedHook(h) /\ h.es = "open"
  <2>1. h \in [es : {"open"}, attempt : {0}, failed : {FALSE}]
    BY <1>2 DEF FeedHook
  <2> HIDE DEF h
  <2>2. 0 \in 0 .. FeedGiven.MaxAttempts
    BY FeedNumbers
  <2>3. h.es = "open"
    BY <2>1
  <2> QED  BY <2>1, <2>2, <2>3 DEF FeedHook
<1>8. ASSUME sev # <<>>
      PROVE  FeedWall(w) /\ ~w.rendered /\ w.trigger \in Feed!Range(e)
  <2>1. FeedList(sev) /\ Feed!Range(sev) \subseteq Feed!Range(e)
    <3> DEFINE some == FeedSevere
    <3> HIDE DEF some
    <3>1. /\ FeedList(Feed!Filter(e, some))
          /\ Feed!Range(Feed!Filter(e, some)) \subseteq Feed!Range(e)
      BY FilterKeeps
    <3> QED  BY <3>1 DEF some
  <2> HIDE DEF sev
  <2>2. last \in Feed!Range(e)
    BY <1>8, <2>1, LastOfList
  <2>3. last \in FeedGiven.Incidents
    BY <2>2, FeedRange
  <2> HIDE DEF last
  <2>4. w.trigger = last /\ w.rendered = FALSE /\ w.up = v5.up
    BY <1>2 DEF FeedWall
  <2>5. w \in [trigger : FeedNews, rendered : BOOLEAN, up : Seq(FeedGiven.Incidents), timer : FeedNews]
    BY <1>2, <2>3 DEF FeedWall, FeedNews
  <2> HIDE DEF w
  <2> QED  BY <1>2, <2>2, <2>3, <2>4, <2>5 DEF FeedWall
<1> HIDE DEF p, h, w, sev
<1>9. FeedHook(v3') /\ (v3'.es = "none" => v3.es = "none")
  BY <1>1, <1>2, <1>7
<1>a. FeedWall(v5') /\ (v5' = v5 \/ (~v5'.rendered /\ v5'.trigger \in Feed!Range(e)))
  BY <1>1, <1>2, <1>8
<1> QED  BY <1>1, <1>4, <1>6, <1>9, <1>a DEF was

LEMMA FeedPollAnswers == ASSUME FeedInv, Feed!PollAnswers PROVE FeedInv'
<1> DEFINE e == IF v2.primed THEN Feed!Unseen(v2.answer) ELSE <<>>
           more == v2.seen \union Feed!Range(v2.answer)
           u == [v2 EXCEPT !.at = "waits", !.primed = TRUE, !.answer = FeedGiven.NoAnswer,
                           !.seen = more]
<1>1. v2.at = "asks" /\ Feed!Receive(e) /\ v2' = u /\ v1' = v1
  BY DEF Feed!PollAnswers
<1>2. /\ FeedLive(v2) /\ FeedPlaced(v1, v2, v3, v4) /\ FeedKnown(v1, v2, v4.past)
      /\ FeedList(v2.answer)
  BY <1>1 DEF FeedInv, FeedTyped
<1>3. FeedList(e)
  BY <1>2, EventsAre, FeedEmpty DEF Feed!Unseen
<1> HIDE DEF e
<1>4. /\ FeedPage(v4') /\ v4'.here = v4.here /\ v4'.past = v4.past \union Feed!Range(v2.answer)
      /\ FeedHook(v3') /\ (v3'.es = "none" => v3.es = "none") /\ FeedWall(v5')
  BY <1>1, <1>3, FeedReceives
<1>5. more \subseteq FeedGiven.Incidents
  <2> DEFINE a == v2.answer
  <2>1. FeedList(a)
    BY <1>2
  <2> HIDE DEF a
  <2>2. Feed!Range(a) \subseteq FeedGiven.Incidents
    BY <2>1, FeedRange
  <2> QED  BY <1>2, <2>2 DEF a, FeedLive
<1> HIDE DEF more
<1>6. FeedLive(u) /\ u.at = "waits" /\ u.primed = TRUE /\ u.seen = more
  <2>1. u \in [at : {"waits"}, seen : {more}, primed : {TRUE}, answer : {FeedGiven.NoAnswer}]
    BY <1>2 DEF FeedLive
  <2> HIDE DEF u
  <2> QED  BY <1>5, <2>1, FeedEmpty DEF FeedLive
<1> HIDE DEF u
<1>7. v4.here
  BY <1>1, <1>2 DEF FeedPlaced
<1>8. FeedPlaced(v1, u, v3', v4')
  BY <1>1, <1>2, <1>4, <1>6, <1>7 DEF FeedPlaced
<1>9. FeedKnown(v1, u, v4'.past)
  BY <1>1, <1>2, <1>4, <1>6 DEF FeedKnown, more
<1> QED  BY <1>1, <1>4, <1>6, <1>8, <1>9, FeedStays

LEMMA FeedConnects ==
  ASSUME FeedInv, Feed!Connect \/ Feed!Opens \/ Feed!Breaks
  PROVE  FeedInv'
<1>1. v1' = v1 /\ v4' = v4 /\ v5' = v5
  BY DEF Feed!Connect, Feed!Opens, Feed!Breaks
<1>2. /\ FeedLive(v2) /\ FeedHook(v3) /\ FeedPage(v4) /\ FeedWall(v5)
      /\ FeedPlaced(v1, v2, v3, v4) /\ FeedKnown(v1, v2, v4.past)
      /\ v2.at = "asks" => FeedList(v2.answer)
  BY DEF FeedInv, FeedTyped
<1> DEFINE closed == Feed!Closed
           waits == [closed EXCEPT !.at = "waits"]
<1>3. /\ FeedLive(closed) /\ closed.at = "closed" /\ closed.primed = FALSE
      /\ FeedLive(waits) /\ waits.at = "waits" /\ waits.primed = FALSE
  BY FeedEmpty DEF FeedLive, Feed!Closed
<1>4. CASE Feed!Connect
  <2> DEFINE h == [v3 EXCEPT !.es = "opening"]
  <2>1. v3.es = "later" /\ v3' = h /\ v2' = v2
    BY <1>4 DEF Feed!Connect
  <2>2. FeedHook(h) /\ h.es = "opening"
    BY <1>2 DEF FeedHook
  <2> HIDE DEF h
  <2>3. FeedPlaced(v1, v2, h, v4)
    BY <1>2, <2>1, <2>2 DEF FeedPlaced
  <2> QED  BY <1>1, <1>2, <2>1, <2>2, <2>3, FeedStays
<1>5. CASE Feed!Opens
  <2> DEFINE h == [es |-> "open", attempt |-> 0, failed |-> FALSE]
  <2>1. v3.es = "opening" /\ v3' = h /\ v2' = waits
    BY <1>5 DEF Feed!Opens
  <2>2. FeedHook(h) /\ h.es = "open"
    BY FeedNumbers DEF FeedHook
  <2> HIDE DEF h, waits
  <2>3. FeedPlaced(v1, waits, h, v4) /\ FeedKnown(v1, waits, v4.past)
    BY <1>2, <1>3, <2>1, <2>2 DEF FeedPlaced, FeedKnown
  <2> QED  BY <1>1, <1>2, <1>3, <2>1, <2>2, <2>3, FeedStays
<1>6. CASE Feed!Breaks
  <2> DEFINE h == [v3 EXCEPT !.es = "none", !.failed = TRUE]
             k == [v3 EXCEPT !.es = "later", !.attempt = @ + 1]
  <2>1. /\ v3.es # "none" /\ v2' = closed
        /\ v3' = h \/ (v3.attempt < FeedGiven.MaxAttempts /\ v3' = k)
    <3>1. v3.attempt \in Nat
      BY <1>2 DEF FeedHook
    <3> HIDE DEF h, k
    <3>2. v3' = IF v3.attempt >= FeedGiven.MaxAttempts THEN h ELSE k
      BY <1>6 DEF Feed!Breaks, h, k
    <3> QED  BY <1>6, <3>1, <3>2, FeedNumbers DEF Feed!Breaks
  <2>2. FeedHook(h)
    BY <1>2 DEF FeedHook
  <2>3. ASSUME v3.attempt < FeedGiven.MaxAttempts PROVE FeedHook(k)
    <3> DEFINE n == v3.attempt + 1
    <3>1. n \in 0 .. FeedGiven.MaxAttempts
      BY <1>2, <2>3, FeedNumbers DEF FeedHook
    <3>2. k = [v3 EXCEPT !.es = "later", !.attempt = n]
      OBVIOUS
    <3> HIDE DEF n, k
    <3> QED  BY <1>2, <3>1, <3>2 DEF FeedHook
  <2> HIDE DEF h, k, closed
  <2>4. FeedHook(v3')
    BY <2>1, <2>2, <2>3
  <2>5. v4.here
    BY <1>2, <2>1 DEF FeedPlaced
  <2>6. FeedPlaced(v1, v2', v3', v4') /\ FeedKnown(v1, v2', v4'.past)
    BY <1>1, <1>2, <1>3, <2>1, <2>5 DEF FeedPlaced, FeedKnown
  <2>7. FeedLive(v2') /\ ~(v2'.at = "asks")
    BY <1>3, <2>1
  <2> QED  BY <1>1, <1>2, <2>4, <2>6, <2>7, FeedStays
<1> QED  BY <1>4, <1>5, <1>6

LEMMA FeedVisits == ASSUME FeedInv, Feed!Visit \/ Feed!Quit PROVE FeedInv'
<1> DEFINE top == FeedTop(v1)
           here == Feed!Range(v1)
           none == FeedGiven.NoAnswer
           first == IF v4.cached THEN none ELSE top
           count == v4.visits + 1
           p == [v4 EXCEPT !.here = TRUE, !.visits = count, !.list = <<>>, !.past = here,
                           !.first = first]
           q == [v4 EXCEPT !.here = FALSE, !.list = <<>>, !.polled = none, !.first = none]
           h == [Feed!Unmounted EXCEPT !.es = "opening"]
<1>1. /\ FeedLive(v2) /\ FeedHook(v3) /\ FeedPage(v4) /\ FeedWall(v5)
      /\ FeedPlaced(v1, v2, v3, v4) /\ FeedList(v1)
  BY DEF FeedInv, FeedTyped
<1>2. /\ top \in Feed!Answers /\ here \subseteq FeedGiven.Incidents /\ none \in Feed!Answers
      /\ <<>> \in Seq(FeedGiven.Incidents)
  BY <1>1, TopIs, FeedRange, FeedEmpty
<1>3. FeedHook(h) /\ h.es = "opening"
  <2>1. h \in [es : {"opening"}, attempt : {0}, failed : {FALSE}]
    BY DEF Feed!Unmounted
  <2> HIDE DEF h
  <2>2. 0 \in 0 .. FeedGiven.MaxAttempts
    BY FeedNumbers
  <2>3. h.es = "opening"
    BY <2>1
  <2> QED  BY <2>1, <2>2, <2>3 DEF FeedHook
<1>4. CASE Feed!Visit
  <2>1. ~v4.here /\ v4.visits < FeedGiven.MaxVisits /\ v4' = p
    BY <1>4 DEF Feed!Visit, Feed!Listed, FeedTop
  <2>2. v1' = v1 /\ v2' = v2 /\ v3' = h /\ v5' = v5
    BY <1>4 DEF Feed!Visit
  <2>3. count \in 0 .. FeedGiven.MaxVisits
    BY <1>1, <2>1, FeedNumbers DEF FeedPage
  <2>4. first \in Feed!Answers
    BY <1>2
  <2>5. v2.at = "closed" /\ ~v2.primed
    BY <1>1, <2>1 DEF FeedPlaced
  <2> HIDE DEF count, first, here, top, none, h
  <2>6. p \in [list : {<<>>}, first : {first}, cached : {v4.cached}, polled : {v4.polled},
               visits : {count}, here : {TRUE}, past : {here}]
    BY <1>1 DEF FeedPage
  <2> HIDE DEF p
  <2>7. FeedPage(p) /\ p.here = TRUE /\ p.past = here
    BY <1>1, <1>2, <2>3, <2>4, <2>6 DEF FeedPage
  <2>8. FeedPlaced(v1, v2, h, p)
    BY <2>5, <2>7 DEF FeedPlaced, here
  <2>9. FeedKnown(v1, v2, p.past)
    BY <2>5 DEF FeedKnown
  <2> QED  BY <1>1, <1>3, <2>1, <2>2, <2>5, <2>7, <2>8, <2>9, FeedStays
<1>5. CASE Feed!Quit
  <2> DEFINE closed == Feed!Closed
             off == Feed!Unmounted
             bare == Feed!NoBanner
  <2>1. v1' = v1 /\ v4' = q
    BY <1>5 DEF Feed!Quit
  <2>2. v2' = closed /\ v3' = off /\ v5' = bare
    BY <1>5 DEF Feed!Quit
  <2>3. /\ FeedLive(closed) /\ FeedHook(off) /\ FeedWall(bare)
        /\ closed.at = "closed" /\ closed.primed = FALSE /\ off.es = "none"
    BY FeedEmpty DEF Feed!Closed, Feed!Unmounted
  <2> HIDE DEF none, closed, off, bare
  <2>4. q \in [list : {<<>>}, first : {none}, cached : {v4.cached}, polled : {none},
               visits : {v4.visits}, here : {FALSE}, past : {v4.past}]
    BY <1>1 DEF FeedPage
  <2> HIDE DEF q
  <2>5. FeedPage(q) /\ q.past = v4.past
    BY <1>1, <1>2, <2>4 DEF FeedPage
  <2>6. FeedPlaced(v1, closed, off, q) /\ FeedKnown(v1, closed, q.past)
    BY <1>1, <2>3, <2>5 DEF FeedPlaced, FeedKnown
  <2> QED  BY <2>1, <2>2, <2>3, <2>5, <2>6, FeedStays
<1> QED  BY <1>4, <1>5

LEMMA FeedAnswered ==
  ASSUME FeedInv, \/ Feed!InitialAnswers \/ Feed!InitialFails
                  \/ Feed!PagePolls \/ Feed!PagePollAnswers
  PROVE  FeedInv'
<1>1. v4.here /\ v1' = v1 /\ v2' = v2 /\ v3' = v3 /\ v5' = v5
  BY DEF Feed!InitialAnswers, Feed!InitialFails, Feed!PagePolls, Feed!PagePollAnswers
<1>2. /\ FeedLive(v2) /\ FeedHook(v3) /\ FeedPage(v4) /\ FeedWall(v5) /\ FeedList(v1)
      /\ FeedPlaced(v1, v2, v3, v4) /\ FeedKnown(v1, v2, v4.past)
      /\ v2.at = "asks" => FeedList(v2.answer)
  BY DEF FeedInv, FeedTyped
<1> DEFINE none == FeedGiven.NoAnswer
           top == FeedTop(v1)
           all == Feed!MergeAll(v4.list, v4.polled)
<1>3. /\ none \in Feed!Answers /\ top \in Feed!Answers
      /\ v4.first # none => v4.first \in Seq(FeedGiven.Incidents)
      /\ v4.polled # none => all \in Seq(FeedGiven.Incidents)
  <2>1. v4.first \in Feed!Answers /\ v4.polled \in Feed!Answers /\ FeedList(v4.list)
    BY <1>2 DEF FeedPage, FeedList
  <2>2. v4.first # none => FeedList(v4.first)
    BY <2>1, AnswerIsList
  <2>3. v4.polled # none => FeedList(all)
    <3> DEFINE a == v4.polled
               l == v4.list
    <3>1. a # none => FeedList(a)
      BY <2>1, AnswerIsList
    <3>2. FeedList(l)
      BY <2>1
    <3> HIDE DEF a, l
    <3>3. a # none => FeedList(Feed!MergeAll(l, a))
      BY <3>1, <3>2, MergeAllKeeps
    <3> QED  BY <3>3 DEF a, l
  <2> QED  BY <1>2, <2>2, <2>3, TopIs, FeedEmpty DEF FeedList
<1> DEFINE first == v4.first
<1>4. \/ first # none /\ v4' = [v4 EXCEPT !.list = first, !.first = none, !.cached = TRUE]
      \/ v4' = [v4 EXCEPT !.first = none]
      \/ v4' = [v4 EXCEPT !.polled = top]
      \/ v4.polled # none /\ v4' = [v4 EXCEPT !.list = all, !.polled = none]
  BY DEF Feed!InitialAnswers, Feed!InitialFails, Feed!PagePolls, Feed!PagePollAnswers,
         Feed!Listed, FeedTop
<1>5. first # none => first \in Seq(FeedGiven.Incidents)
  BY <1>3
<1> HIDE DEF none, top, all, first
<1>6. FeedPage(v4') /\ v4'.here = v4.here /\ v4'.past = v4.past
  BY <1>2, <1>3, <1>4, <1>5 DEF FeedPage
<1>7. FeedPlaced(v1, v2, v3, v4') /\ FeedKnown(v1, v2, v4'.past)
  BY <1>2, <1>6 DEF FeedPlaced
<1> QED  BY <1>1, <1>2, <1>6, <1>7, FeedStays

(* A list of distinct members without its first ones, and with one more.   *)
LEMMA TailIs ==
  ASSUME NEW l, FeedList(l), Feed!IsInjective(l), NEW n \in 1 .. Len(l)
  PROVE  LET t == SubSeq(l, n, Len(l))
         IN /\ FeedList(t) /\ Len(t) = Len(l) - n + 1 /\ Feed!IsInjective(t)
            /\ Feed!Range(t) \subseteq Feed!Range(l)
<1> DEFINE K == FeedGiven.Incidents
           t == SubSeq(l, n, Len(l))
<1>1. l \in Seq(K) /\ Len(l) \in Nat /\ n \in Nat /\ n >= 1 /\ n <= Len(l)
  BY DEF FeedList
<1> HIDE DEF K
<1>2. /\ t \in Seq(K) /\ Len(t) = Len(l) - n + 1
      /\ \A k \in 1 .. Len(l) - n + 1 : t[k] = l[n + k - 1]
  BY <1>1
<1> HIDE DEF t
<1>3. ASSUME NEW k \in 1 .. Len(t) PROVE n + k - 1 \in 1 .. Len(l) /\ t[k] = l[n + k - 1]
  BY <1>1, <1>2
<1>4. FeedList(t) /\ DOMAIN t = 1 .. Len(t) /\ DOMAIN l = 1 .. Len(l)
  BY <1>1, <1>2 DEF FeedList, K
<1>5. Feed!IsInjective(t)
  <2>1. ASSUME NEW i \in 1 .. Len(t), NEW j \in 1 .. Len(t), t[i] = t[j] PROVE i = j
    <3>1. n + i - 1 = n + j - 1
      BY <1>3, <1>4, <2>1 DEF Feed!IsInjective
    <3> QED  BY <3>1, <1>1, <1>2
  <2> QED  BY <2>1, <1>4 DEF Feed!IsInjective
<1>6. ASSUME NEW x \in Feed!Range(t) PROVE x \in Feed!Range(l)
  <2>1. PICK k \in 1 .. Len(t) : x = t[k]
    BY <1>4, FeedRange
  <2> QED  BY <2>1, <1>3, FeedRange
<1> QED  BY <1>2, <1>4, <1>5, <1>6 DEF t

LEMMA OneMoreIs ==
  ASSUME NEW l, FeedList(l), Feed!IsInjective(l), NEW x \in FeedGiven.Incidents,
         x \notin Feed!Range(l)
  PROVE  LET m == Append(l, x)
         IN FeedList(m) /\ Len(m) = Len(l) + 1 /\ Feed!IsInjective(m)
<1> DEFINE K == FeedGiven.Incidents
           m == Behind(l, x)
<1>1. l \in Seq(K) /\ Len(l) \in Nat
  BY DEF FeedList
<1>2. /\ m \in Seq(K) /\ Len(m) = Len(l) + 1 /\ m[Len(l) + 1] = x
      /\ \A k \in 1 .. Len(l) : m[k] = l[k]
  <2> HIDE DEF K, m
  <2> QED  BY <1>1, AtEitherEnd DEF K, m
<1>3. \A k \in 1 .. Len(l) : l[k] # x
  BY FeedRange
<1>4. m = Append(l, x)
  BY DEF Behind
<1> HIDE DEF m, K
<1>5. DOMAIN m = 1 .. Len(m) /\ DOMAIN l = 1 .. Len(l)
  BY <1>1, <1>2
<1>6. ASSUME NEW i \in 1 .. Len(m), NEW j \in 1 .. Len(m), m[i] = m[j] PROVE i = j
  <2>1. (i \in 1 .. Len(l) \/ i = Len(l) + 1) /\ (j \in 1 .. Len(l) \/ j = Len(l) + 1)
    BY <1>1, <1>2
  <2>2. i \in 1 .. Len(l) /\ j \in 1 .. Len(l) => i = j
    BY <1>2, <1>5, <1>6 DEF Feed!IsInjective
  <2> QED  BY <1>2, <1>3, <1>6, <2>1, <2>2
<1>7. Feed!IsInjective(m)
  BY <1>5, <1>6 DEF Feed!IsInjective
<1>8. FeedList(m)
  BY <1>2 DEF FeedList, K
<1> QED  BY <1>2, <1>4, <1>7, <1>8

LEMMA FeedShows ==
  ASSUME FeedInv, \/ Feed!Render \/ Feed!TimerEnds
                  \/ \E i \in Feed!Range(v5.up) : Feed!Dismiss(i)
  PROVE  FeedInv' /\ (v5'.rendered \/ ~v5.rendered) /\ v5'.trigger = v5.trigger /\ v4' = v4
<1>1. v1' = v1 /\ v2' = v2 /\ v3' = v3 /\ v4' = v4
  BY DEF Feed!Render, Feed!TimerEnds, Feed!Dismiss
<1>2. /\ FeedLive(v2) /\ FeedHook(v3) /\ FeedPage(v4) /\ FeedWall(v5) /\ FeedList(v1)
      /\ FeedPlaced(v1, v2, v3, v4) /\ FeedKnown(v1, v2, v4.past)
      /\ v2.at = "asks" => FeedList(v2.answer)
  BY DEF FeedInv, FeedTyped
<1> DEFINE up == v5.up
           new == v5.trigger
           max == FeedGiven.MaxBanners
           from == Len(up) - max + 2
           room == IF Len(up) >= max THEN SubSeq(up, from, Len(up)) ELSE up
           more == IF new \in Feed!Range(up) THEN up ELSE Append(room, new)
           none == FeedGiven.NoIncident
           Less(i) == Feed!Filter(up, FeedGiven.Incidents \ {i})
           Good(l) == FeedList(l) /\ Len(l) <= max /\ Feed!IsInjective(l)
<1>3. Good(up) /\ max \in Nat \ {0} /\ Len(up) \in Nat
  BY <1>2, FeedNumbers DEF FeedWall, FeedList
<1> HIDE DEF up
<1>4. ASSUME new \in FeedGiven.Incidents PROVE Good(more)
  <2>1. CASE new \in Feed!Range(up)
    BY <1>3, <2>1
  <2>2. CASE new \notin Feed!Range(up)
    <3>1. /\ FeedList(room) /\ Len(room) + 1 <= max /\ Feed!IsInjective(room)
          /\ Feed!Range(room) \subseteq Feed!Range(up)
      <4>1. CASE Len(up) >= max /\ from <= Len(up)
        <5> DEFINE t == SubSeq(up, from, Len(up))
        <5>1. from \in 1 .. Len(up)
          BY <1>3, <4>1
        <5> HIDE DEF from
        <5>2. /\ FeedList(t) /\ Len(t) = Len(up) - from + 1 /\ Feed!IsInjective(t)
              /\ Feed!Range(t) \subseteq Feed!Range(up)
          BY <1>3, <5>1, TailIs
        <5>3. room = t
          BY <4>1 DEF from
        <5> HIDE DEF t, room
        <5>4. Len(t) + 1 <= max
          BY <1>3, <4>1, <5>2 DEF from
        <5> QED  BY <5>2, <5>3, <5>4
      <4>2. CASE Len(up) >= max /\ from > Len(up)
        <5>0. Len(up) \in Nat /\ max \in Nat /\ max >= 1 /\ Len(up) <= max /\ Len(up) >= max
          BY <1>3, <4>2
        <5>1. max = 1 /\ Len(up) = 1 /\ from = 2
          <6> DEFINE n == Len(up)
          <6>1. n \in Nat /\ max \in Nat /\ max >= 1 /\ n <= max /\ n >= max /\ n - max + 2 > n
            BY <5>0, <4>2
          <6> HIDE DEF n, max, Good
          <6>2. max = 1 /\ n = 1 /\ n - max + 2 = 2
            BY <6>1
          <6> QED  BY <6>2 DEF n
        <5>2. up \in Seq(FeedGiven.Incidents)
          BY <1>3 DEF FeedList
        <5>3. SubSeq(up, 2, 1) = <<>>
          BY <5>2
        <5>4. room = <<>>
          BY <4>2, <5>1, <5>3
        <5>5. Feed!IsInjective(<<>>) /\ Len(<<>>) = 0
          <6>1. DOMAIN <<>> = {} /\ Len(<<>>) = 0
            OBVIOUS
          <6> QED  BY <6>1 DEF Feed!IsInjective
        <5> HIDE DEF room
        <5> QED  BY <5>1, <5>4, <5>5, FeedEmpty
      <4>3. CASE Len(up) < max
        <5>1. room = up
          BY <1>3, <4>3
        <5> HIDE DEF room
        <5> QED  BY <1>3, <4>3, <5>1
      <4> QED  BY <1>3, <4>1, <4>2, <4>3
    <3> DEFINE m == Append(room, new)
    <3>2. new \notin Feed!Range(room)
      BY <2>2, <3>1
    <3>3. more = m
      BY <2>2
    <3> HIDE DEF room, new
    <3>4. FeedList(m) /\ Len(m) = Len(room) + 1 /\ Feed!IsInjective(m)
      BY <1>4, <3>1, <3>2, OneMoreIs
    <3> HIDE DEF m, more
    <3> QED  BY <3>1, <3>3, <3>4
  <2> QED  BY <2>1, <2>2
<1>5. ASSUME NEW i PROVE Good(Less(i))
  <2> DEFINE some == FeedGiven.Incidents \ {i}
             k == Feed!Filter(up, some)
  <2> HIDE DEF some
  <2>1. FeedList(k) /\ Len(k) <= Len(up) /\ Feed!IsInjective(k)
    BY <1>3, FilterKeeps
  <2> HIDE DEF k
  <2>2. Len(k) \in Nat
    BY <2>1 DEF FeedList
  <2>3. Good(k)
    BY <1>3, <2>1, <2>2
  <2> HIDE DEF Good
  <2> QED  BY <2>3 DEF k, some
<1> DEFINE Shown(t, l) == [v5 EXCEPT !.rendered = TRUE, !.timer = t, !.up = l]
           Gone(t, l) == [v5 EXCEPT !.up = l, !.timer = t]
<1>6. \/ ~v5.rendered /\ v5' = Shown(new, more)
      \/ v5' = Gone(none, Less(v5.timer))
      \/ \E i \in Feed!Range(up) : v5' = [v5 EXCEPT !.up = Less(i)]
  BY DEF Feed!Render, Feed!TimerEnds, Feed!Dismiss, Feed!Without, up
<1> HIDE DEF more, Less, Good
<1>7. ASSUME NEW l, Good(l), NEW t \in FeedNews
      PROVE  FeedWall(Gone(t, l)) /\ Gone(t, l).rendered = v5.rendered /\ Gone(t, l).trigger = new
  <2> DEFINE w == Gone(t, l)
  <2>1. w \in [trigger : {new}, rendered : {v5.rendered}, up : {l}, timer : {t}]
    BY <1>2 DEF FeedWall
  <2> HIDE DEF w
  <2>2. w.trigger = new /\ w.rendered = v5.rendered /\ w.up = l
    BY <2>1
  <2>3. l \in Seq(FeedGiven.Incidents) /\ Len(l) <= max /\ Feed!IsInjective(l)
    BY <1>7 DEF Good, FeedList
  <2>4. w \in [trigger : FeedNews, rendered : BOOLEAN, up : Seq(FeedGiven.Incidents), timer : FeedNews]
    BY <1>2, <1>7, <2>1, <2>3 DEF FeedWall
  <2>5. FeedWall(w)
    BY <1>2, <2>2, <2>3, <2>4 DEF FeedWall
  <2> QED  BY <2>2, <2>5 DEF w
<1>8. CASE ~v5.rendered /\ v5' = Shown(new, more)
  <2> DEFINE w == Shown(new, more)
  <2>1. w \in [trigger : {new}, rendered : {TRUE}, up : {more}, timer : {new}]
    BY <1>2 DEF FeedWall
  <2>2. new \in FeedGiven.Incidents
    BY <1>2, <1>8 DEF FeedWall
  <2>3. more \in Seq(FeedGiven.Incidents) /\ Len(more) <= max /\ Feed!IsInjective(more)
    BY <1>4, <2>2 DEF Good, FeedList
  <2> HIDE DEF w
  <2>4. w.trigger = new /\ w.rendered = TRUE /\ w.up = more
    BY <2>1
  <2>5. w \in [trigger : FeedNews, rendered : BOOLEAN, up : Seq(FeedGiven.Incidents), timer : FeedNews]
    BY <2>1, <2>2, <2>3 DEF FeedNews
  <2>6. FeedWall(w)
    BY <2>3, <2>4, <2>5 DEF FeedWall
  <2>7. v5' = w
    BY <1>8 DEF w
  <2> QED  BY <1>1, <1>2, <1>8, <2>4, <2>6, <2>7, FeedStays
<1>9. CASE v5' = Gone(none, Less(v5.timer))
  <2> DEFINE l == Less(v5.timer)
  <2>1. Good(l) /\ none \in FeedNews
    BY <1>5 DEF FeedNews
  <2> HIDE DEF l, none
  <2>2. /\ FeedWall(Gone(none, l)) /\ Gone(none, l).rendered = v5.rendered
        /\ Gone(none, l).trigger = new
    BY <1>7, <2>1
  <2> HIDE DEF Gone
  <2> QED  BY <1>1, <1>2, <1>9, <2>2, FeedStays DEF l
<1>a. CASE \E i \in Feed!Range(up) : v5' = [v5 EXCEPT !.up = Less(i)]
  <2>1. PICK i : v5' = [v5 EXCEPT !.up = Less(i)]
    BY <1>a
  <2> DEFINE l == Less(i)
             t == v5.timer
  <2>2. Good(l) /\ t \in FeedNews
    BY <1>2, <1>5 DEF FeedWall
  <2>3. v5' = [v5 EXCEPT !.up = l]
    BY <2>1
  <2>4. v5' = Gone(t, l)
    <3> HIDE DEF l
    <3> QED  BY <1>2, <2>3 DEF FeedWall
  <2> HIDE DEF l, t
  <2>5. /\ FeedWall(Gone(t, l)) /\ Gone(t, l).rendered = v5.rendered
        /\ Gone(t, l).trigger = new
    BY <1>7, <2>2
  <2> HIDE DEF Gone
  <2> QED  BY <1>1, <1>2, <2>4, <2>5, FeedStays
<1> QED  BY <1>6, <1>8, <1>9, <1>a

LEMMA FeedStep == ASSUME FeedInv, [Feed!Next]_(Feed!vars) PROVE FeedInv'
<1>1. CASE UNCHANGED Feed!vars
  <2>1. v1' = v1 /\ v2' = v2 /\ v3' = v3 /\ v4' = v4 /\ v5' = v5
    BY <1>1 DEF Feed!vars
  <2> QED  BY <2>1 DEF FeedInv, FeedTyped
<1>2. CASE Feed!Next
  BY <1>2, FeedHappens, FeedPollAsks, FeedPollFails, FeedPollAnswers, FeedConnects, FeedVisits,
     FeedAnswered, FeedShows DEF Feed!Next, Feed!Server, Feed!Screen, Feed!Viewer
<1> QED  BY <1>1, <1>2

LEMMA FeedPromise == FeedInv => Feed!TypeOK /\ Feed!BannersCapped
<1> SUFFICES ASSUME FeedInv PROVE Feed!TypeOK /\ Feed!BannersCapped
  OBVIOUS
<1>1. FeedList(v1) /\ FeedLive(v2) /\ FeedHook(v3) /\ FeedPage(v4) /\ FeedWall(v5)
  BY DEF FeedInv, FeedTyped
<1>2. Feed!Range(v1) \subseteq FeedGiven.Incidents
  BY <1>1, FeedRange
<1>3. Feed!Range(v4.list) \subseteq FeedGiven.Incidents
  <2> DEFINE l == v4.list
  <2>1. FeedList(l)
    BY <1>1 DEF FeedPage, FeedList
  <2> HIDE DEF l
  <2> QED  BY <2>1, FeedRange DEF l
<1>4. Feed!Range(v5.up) \subseteq FeedGiven.Incidents
  <2> DEFINE l == v5.up
  <2>1. FeedList(l)
    BY <1>1 DEF FeedWall, FeedList
  <2> HIDE DEF l
  <2> QED  BY <2>1, FeedRange DEF l
<1>5. /\ v2.at \in {"closed", "asks", "waits"} /\ v2.seen \subseteq FeedGiven.Incidents
      /\ v2.primed \in BOOLEAN /\ v2.answer \in Feed!Answers
  BY <1>1 DEF FeedLive
<1>6. /\ v3.es \in {"none", "opening", "open", "later"}
      /\ v3.attempt \in 0 .. FeedGiven.MaxAttempts /\ v3.failed \in BOOLEAN
  BY <1>1 DEF FeedHook
<1>7. /\ v4.first \in Feed!Answers /\ v4.cached \in BOOLEAN /\ v4.polled \in Feed!Answers
      /\ v4.visits \in 0 .. FeedGiven.MaxVisits /\ v4.past \subseteq FeedGiven.Incidents
  BY <1>1 DEF FeedPage
<1>8. /\ v5.trigger \in FeedNews /\ v5.rendered \in BOOLEAN /\ v5.timer \in FeedNews
      /\ Feed!BannersCapped
  BY <1>1 DEF FeedWall, Feed!BannersCapped
<1> QED  BY <1>2, <1>3, <1>4, <1>5, <1>6, <1>7, <1>8 DEF Feed!TypeOK, FeedNews

(* What the feed tells is news, and what the page shows stays.             *)
LEMMA FeedTells ==
  ASSUME FeedInv, Feed!Next
  PROVE  Feed!NewsStep /\ Feed!StaysStep
<1>0. FeedPage(v4) /\ FeedWall(v5) /\ FeedPlaced(v1, v2, v3, v4) /\ FeedKnown(v1, v2, v4.past)
  BY DEF FeedInv, FeedTyped
<1>1. CASE Feed!PollAnswers
  <2> DEFINE e == IF v2.primed THEN Feed!Unseen(v2.answer) ELSE <<>>
  <2>1. v2.at = "asks" /\ Feed!Receive(e) /\ FeedList(v2.answer)
    BY <1>1 DEF Feed!PollAnswers, FeedInv, FeedTyped
  <2>2. /\ FeedList(e)
        /\ Feed!Range(e) \subseteq Feed!Range(v2.answer) \ v2.seen
        /\ ~v2.primed => Feed!Range(e) = {}
    BY <2>1, EventsAre, FeedEmpty DEF Feed!Unseen
  <2> HIDE DEF e
  <2>3. /\ Feed!Range(v4.list) \subseteq Feed!Range(v4'.list)
        /\ v5' = v5 \/ (~v5'.rendered /\ v5'.trigger \in Feed!Range(e))
    BY <2>1, <2>2, FeedReceives
  <2>4. ASSUME NEW x \in Feed!Range(e) PROVE x \notin v4.past
    <3>1. v2.primed
      BY <2>2
    <3> QED  BY <1>0, <2>1, <2>2, <3>1 DEF FeedKnown
  <2> QED  BY <2>3, <2>4 DEF Feed!NewsStep, Feed!Asked, Feed!StaysStep
<1>2. CASE \/ Feed!Render \/ Feed!TimerEnds
           \/ \E i \in Feed!Range(v5.up) : Feed!Dismiss(i)
  <2>1. (v5'.rendered \/ ~v5.rendered) /\ v5'.trigger = v5.trigger /\ v4' = v4
    BY <1>2, FeedShows
  <2> QED  BY <2>1 DEF Feed!NewsStep, Feed!Asked, Feed!StaysStep
<1>3. CASE \/ Feed!PollAsks \/ Feed!PollFails \/ Feed!Connect \/ Feed!Opens \/ Feed!Breaks
           \/ \E i \in FeedGiven.Incidents : Feed!Happens(i)
  <2>1. v4' = v4 /\ v5' = v5
    BY <1>3 DEF Feed!PollAsks, Feed!PollFails, Feed!Connect, Feed!Opens, Feed!Breaks, Feed!Happens
  <2> QED  BY <2>1 DEF Feed!NewsStep, Feed!Asked, Feed!StaysStep
<1>4. CASE Feed!Visit
  <2>1. ~v4.here /\ v5' = v5
    BY <1>4 DEF Feed!Visit
  <2> QED  BY <2>1 DEF Feed!NewsStep, Feed!Asked, Feed!StaysStep
<1>5. CASE Feed!Quit
  <2> DEFINE q == [v4 EXCEPT !.here = FALSE, !.list = <<>>, !.polled = FeedGiven.NoAnswer,
                             !.first = FeedGiven.NoAnswer]
  <2>1. v4' = q /\ v5' = Feed!NoBanner
    BY <1>5 DEF Feed!Quit
  <2>2. q.here = FALSE
    BY <1>0 DEF FeedPage
  <2> HIDE DEF q
  <2>3. ~v4'.here /\ v5'.rendered
    BY <2>1, <2>2 DEF Feed!NoBanner
  <2> QED  BY <2>3 DEF Feed!NewsStep, Feed!Asked, Feed!StaysStep
<1>6. CASE Feed!InitialAnswers
  <2> DEFINE p == [v4 EXCEPT !.list = v4.first, !.first = FeedGiven.NoAnswer, !.cached = TRUE]
  <2>1. v4' = p /\ v5' = v5 /\ v4.first # FeedGiven.NoAnswer
    BY <1>6 DEF Feed!InitialAnswers
  <2>2. p.first = FeedGiven.NoAnswer
    BY <1>0 DEF FeedPage
  <2> HIDE DEF p
  <2> QED  BY <2>1, <2>2 DEF Feed!NewsStep, Feed!Asked, Feed!StaysStep
<1>7. CASE Feed!InitialFails \/ Feed!PagePolls
  <2>1. v4'.list = v4.list /\ v5' = v5
    BY <1>0, <1>7 DEF Feed!InitialFails, Feed!PagePolls, FeedPage
  <2> QED  BY <2>1 DEF Feed!NewsStep, Feed!Asked, Feed!StaysStep
<1>8. CASE Feed!PagePollAnswers
  <2> DEFINE a == v4.polled
             l == v4.list
             all == Feed!MergeAll(l, a)
  <2>1. v4' = [v4 EXCEPT !.list = all, !.polled = FeedGiven.NoAnswer] /\ v5' = v5
        /\ a # FeedGiven.NoAnswer
    BY <1>8 DEF Feed!PagePollAnswers
  <2>2. FeedList(a) /\ FeedList(l)
    BY <1>0, <2>1, AnswerIsList DEF FeedPage, FeedList
  <2> HIDE DEF a, l
  <2>3. Feed!Range(l) \subseteq Feed!Range(all)
    BY <2>2, MergeAllKeeps
  <2> HIDE DEF all
  <2>4. v4'.list = all
    BY <1>0, <2>1 DEF FeedPage
  <2> QED  BY <2>1, <2>3, <2>4 DEF Feed!NewsStep, Feed!Asked, Feed!StaysStep, l
<1> QED
  BY <1>1, <1>2, <1>3, <1>4, <1>5, <1>6, <1>7, <1>8
  DEF Feed!Next, Feed!Server, Feed!Screen, Feed!Viewer

--------------------------------------------------------------------------------
(* The pipeline snapshot (aggregator.ts): v1 a node's pods, v2 what the    *)
(* collectors find, v3 the counters, v4 their samples, v5 the snapshot, v6 *)
(* the clock.                                                              *)
PipelineColours == {"ok", "warn", "fail", "unknown", "none"}
PipelineRates == Pipeline!Rates \union {PipelineGiven.NoFigure}
PipelineSample(s, time) ==
  /\ s \in [ts : Nat, total : Nat, rate : PipelineRates, there : BOOLEAN]
  /\ s.ts <= time
PipelineFound(f) ==
  /\ f = [p \in Pipeline!Probes |-> f[p]]
  /\ \A p \in Pipeline!Probes : f[p] \in Pipeline!Range(Pipeline!Outcomes[p])
PipelineClock(c) == c \in [time : Nat, moves : Nat]
PipelineSnap(s, samples) ==
  /\ \A n \in DOMAIN s.nodes : s.nodes[n] \in PipelineColours
  /\ s.rates["s3"] # PipelineGiven.NoFigure => samples["s3"].there
PipelineTyped ==
  /\ v1 \in PipelineGiven.PodLists /\ PipelineFound(v2)
  /\ v3 \in [Pipeline!Counted -> Nat] /\ PipelineClock(v6)
  /\ DOMAIN v4 = Pipeline!Counted /\ \A k \in Pipeline!Counted : PipelineSample(v4[k], v6.time)
PipelineInv == PipelineTyped /\ PipelineSnap(v5, v4)

(* The merge of the pods: it is as bad as the worst, and one of theirs.    *)
PodRank(h) == Pipeline!Rank[h]
LEMMA MergedIs ==
  ASSUME v1 \in PipelineGiven.PodLists
  PROVE  /\ Pipeline!PodNode \in PipelineColours
         /\ Pipeline!WorstPodShows
<1> DEFINE Pods == [phase : STRING, ready : BOOLEAN]
           N == Len(v1)
           S == PipelineColours
           step == [c \in S \X (1 .. N) |-> Pipeline!MergePod(c[1], v1[c[2]])]
           Is(f) == f = [n \in 0 .. N |-> IF n = 0 THEN "none"
                                          ELSE Pipeline!MergePod(f[n - 1], v1[n])]
<1>0. v1 \in Seq(Pods)
  BY PipelineAssumption
<1>1. N \in Nat /\ DOMAIN v1 = 1 .. N /\ "none" \in S
  BY <1>0 DEF PipelineColours
<1>2. \A p : Pipeline!PodHealth(p) \in {"ok", "warn", "fail", "unknown"}
  BY DEF Pipeline!PodHealth
<1>3. \A c \in S : \A p : Pipeline!MergePod(c, p) \in S
  BY <1>2 DEF Pipeline!MergePod, PipelineColours
<1> HIDE DEF N, S
<1>4. step \in [S \X (1 .. N) -> S]
  BY <1>3
<1>5. \E f : Is(f)
  <2>0. PICK f : Unfolds(f, S, N, "none", step)
    <3> DEFINE base == "none"
    <3>1. base \in S
      BY <1>1
    <3> HIDE DEF step, base
    <3>2. \E f : Unfolds(f, S, N, base, step)
      BY <1>1, <1>4, <3>1, UnfoldsTo
    <3> QED  BY <3>2 DEF base
  <2>1. f \in [0 .. N -> S] /\ f[0] = "none" /\ \A n \in 1 .. N : f[n] = step[<<f[n - 1], n>>]
    <3> HIDE DEF step
    <3> QED  BY <2>0 DEF Unfolds
  <2>2. ASSUME NEW n \in 1 .. N PROVE step[<<f[n - 1], n>>] = Pipeline!MergePod(f[n - 1], v1[n])
    <3>1. f[n - 1] \in S
      <4>1. n - 1 \in 0 .. N
        BY <1>1
      <4> HIDE DEF step
      <4> QED  BY <2>1, <4>1
    <3> QED  BY <3>1
  <2>3. \A n \in 1 .. N : f[n] = Pipeline!MergePod(f[n - 1], v1[n])
    BY <2>1, <2>2
  <2> HIDE DEF step
  <2>4. Is(f)
    BY <2>1, <2>3
  <2> QED  BY <2>4
<1> DEFINE f == CHOOSE f : Is(f)
<1>6. Is(f)
  BY <1>5
<1>7. Pipeline!PodNode = f[N]
  BY DEF Pipeline!PodNode, N
<1> HIDE DEF f
<1> DEFINE H(i) == Pipeline!PodHealth(v1[i])
           Known == \A i \in 1 .. N : H(i) # "unknown"
           Fits(h, n) ==
             /\ h \in S
             /\ Known => /\ h # "unknown" /\ \A i \in 1 .. n : PodRank(H(i)) <= PodRank(h)
                         /\ n # 0 => \E i \in 1 .. n : H(i) = h
                         /\ n = 0 => h = "none"
           T == {n \in 0 .. N : Fits(f[n], n)}
<1>8. 0 \in T
  BY <1>1, <1>6
<1>9. ASSUME NEW n \in 0 .. (N - 1), n \in T PROVE n + 1 \in T
  <2>1. n + 1 \in 1 .. N /\ f[n + 1] = Pipeline!MergePod(f[n], v1[n + 1]) /\ n \in Nat
    <3>1. n + 1 \in 1 .. N /\ n + 1 \in 0 .. N /\ (n + 1) - 1 = n /\ n + 1 # 0 /\ n \in Nat
      BY <1>1
    <3> QED  BY <3>1, <1>6
  <2> DEFINE old == f[n]
             add == H(n + 1)
             new == f[n + 1]
  <2>2. Fits(old, n)
    BY <1>9
  <2>3. /\ add \in {"ok", "warn", "fail", "unknown"}
        /\ new = IF old = "none" \/ add = "fail" \/ (add = "warn" /\ old = "ok")
                    \/ (add = "ok" /\ old = "unknown") THEN add ELSE old
    BY <1>2, <2>1 DEF Pipeline!MergePod
  <2>4. new \in S
    BY <1>3, <2>1, <2>2
  <2>5. ASSUME Known
        PROVE  /\ new # "unknown" /\ \A i \in 1 .. (n + 1) : PodRank(H(i)) <= PodRank(new)
               /\ \E i \in 1 .. (n + 1) : H(i) = new
    <3>1. /\ add # "unknown" /\ old # "unknown" /\ old \in S
          /\ \A i \in 1 .. n : PodRank(H(i)) <= PodRank(old)
          /\ n # 0 => \E i \in 1 .. n : H(i) = old
          /\ n = 0 => old = "none"
      BY <2>1, <2>2, <2>5
    <3>2. /\ PodRank("none") = 0 /\ PodRank("ok") = 1 /\ PodRank("warn") = 2 /\ PodRank("fail") = 3
      BY DEF PodRank, Pipeline!Rank
    <3>3. \A i \in 1 .. (n + 1) : i \in 1 .. n \/ i = n + 1
      BY <2>1
    <3>4. old \in {"ok", "warn", "fail", "none"}
      BY <3>1 DEF S, PipelineColours
    <3>5. ASSUME NEW i \in 1 .. n PROVE H(i) \in {"ok", "warn", "fail"}
      <4>1. i \in 1 .. N
        BY <2>1, <1>1
      <4> QED  BY <4>1, <1>2, <2>5
    <3> HIDE DEF old, add, new, H
    <3>6. /\ PodRank(old) <= PodRank(new) /\ PodRank(add) <= PodRank(new) /\ new # "unknown"
          /\ PodRank(old) \in Nat /\ PodRank(new) \in Nat
      BY <2>3, <3>1, <3>2, <3>4
    <3>7. ASSUME NEW i \in 1 .. (n + 1) PROVE PodRank(H(i)) <= PodRank(new)
      <4>1. CASE i = n + 1
        BY <4>1, <3>6 DEF add
      <4>2. CASE i \in 1 .. n
        <5>1. PodRank(H(i)) <= PodRank(old) /\ PodRank(H(i)) \in Nat
          BY <4>2, <3>1, <3>2, <3>5
        <5> QED  BY <5>1, <3>6
      <4> QED  BY <3>3, <4>1, <4>2
    <3>8. \E i \in 1 .. (n + 1) : H(i) = new
      <4>1. CASE new = add
        <5>1. n + 1 \in 1 .. (n + 1)
          BY <2>1
        <5> QED  BY <4>1, <5>1 DEF add
      <4>2. CASE new = old /\ old # "none"
        <5>1. PICK i \in 1 .. n : H(i) = old
          BY <3>1, <4>2
        <5>2. i \in 1 .. (n + 1)
          BY <2>1
        <5> QED  BY <4>2, <5>1, <5>2
      <4> QED  BY <2>3, <4>1, <4>2
    <3> QED  BY <3>6, <3>7, <3>8
  <2>6. n + 1 # 0 /\ n + 1 \in 0 .. N
    BY <2>1
  <2> HIDE DEF H, Known
  <2>7. Fits(new, n + 1)
    BY <2>4, <2>5, <2>6
  <2> HIDE DEF Fits
  <2> QED  BY <2>6, <2>7
<1>a. Fits(f[N], N)
  <2> HIDE DEF Fits
  <2>1. N \in T
    <3> HIDE DEF T
    <3>1. 0 .. N \subseteq T
      BY <1>1, <1>8, <1>9, UpwardsTo
    <3> QED  BY <3>1, <1>1
  <2> QED  BY <2>1
<1> DEFINE shown == Pipeline!PodNode
<1>b. Fits(shown, N)
  BY <1>7, <1>a
<1>c. v1 # <<>> => N # 0
  BY <1>0 DEF N
<1> HIDE DEF shown
<1>d. Pipeline!WorstPodShows
  BY <1>1, <1>b, <1>c DEF Pipeline!WorstPodShows, PodRank, shown
<1> QED  BY <1>b, <1>d DEF S, shown

LEMMA OutcomesAre ==
  ASSUME NEW p \in Pipeline!Probes
  PROVE  /\ 1 \in DOMAIN Pipeline!Outcomes[p]
         /\ \A i \in DOMAIN Pipeline!Outcomes[p] :
              Pipeline!Outcomes[p][i] \in Pipeline!Range(Pipeline!Outcomes[p])
<1>1. p \in {"gpu", "s3", "cache", "feeds", "kafka", "nim", "postgres", "redis", "mediamtx"}
  BY DEF Pipeline!Probes, Pipeline!Outcomes
<1>2. /\ 1 \in DOMAIN Pipeline!GpuOutcomes /\ 1 \in DOMAIN Pipeline!S3Outcomes
      /\ 1 \in DOMAIN Pipeline!CacheOutcomes /\ 1 \in DOMAIN Pipeline!FeedOutcomes
      /\ 1 \in DOMAIN Pipeline!KafkaOutcomes /\ 1 \in DOMAIN Pipeline!NimOutcomes
      /\ 1 \in DOMAIN Pipeline!PostgresOutcomes /\ 1 \in DOMAIN Pipeline!RedisOutcomes
      /\ 1 \in DOMAIN Pipeline!MediamtxOutcomes
  BY DEF Pipeline!GpuOutcomes, Pipeline!S3Outcomes, Pipeline!CacheOutcomes,
     Pipeline!FeedOutcomes, Pipeline!KafkaOutcomes, Pipeline!NimOutcomes,
     Pipeline!PostgresOutcomes, Pipeline!RedisOutcomes, Pipeline!MediamtxOutcomes
<1>3. 1 \in DOMAIN Pipeline!Outcomes[p]
  BY <1>1, <1>2 DEF Pipeline!Outcomes
<1> QED  BY <1>3 DEF Pipeline!Range

LEMMA FoundsAre == \A f \in Pipeline!Founds : PipelineFound(f)
<1> DEFINE Good(p, o) == o \in Pipeline!Range(Pipeline!Outcomes[p])
<1>1. ASSUME NEW p \in Pipeline!Probes
      PROVE  /\ 1 \in DOMAIN Pipeline!Outcomes[p]
             /\ \A i \in DOMAIN Pipeline!Outcomes[p] : Good(p, Pipeline!Outcomes[p][i])
  BY OutcomesAre
<1> SUFFICES ASSUME NEW f \in Pipeline!Founds PROVE PipelineFound(f)
  OBVIOUS
<1>a. PICK p \in Pipeline!Probes, q \in Pipeline!Probes :
        \E i \in DOMAIN Pipeline!Outcomes[p], j \in DOMAIN Pipeline!Outcomes[q] :
          f = [Pipeline!Quiet EXCEPT ![p] = Pipeline!Outcomes[p][i],
                                     ![q] = Pipeline!Outcomes[q][j]]
  BY DEF Pipeline!Founds
<1>2. PICK i \in DOMAIN Pipeline!Outcomes[p], j \in DOMAIN Pipeline!Outcomes[q] :
        f = [Pipeline!Quiet EXCEPT ![p] = Pipeline!Outcomes[p][i], ![q] = Pipeline!Outcomes[q][j]]
  BY <1>a
<1>3. DOMAIN Pipeline!Quiet = Pipeline!Probes
      /\ \A r \in Pipeline!Probes : Good(r, Pipeline!Quiet[r])
  BY <1>1 DEF Pipeline!Quiet
<1>4. Good(p, Pipeline!Outcomes[p][i]) /\ Good(q, Pipeline!Outcomes[q][j])
  BY <1>1, <1>2
<1> DEFINE quiet == Pipeline!Quiet
           a == Pipeline!Outcomes[p][i]
           b == Pipeline!Outcomes[q][j]
<1>5. f = [quiet EXCEPT ![p] = a, ![q] = b]
  BY <1>2
<1> HIDE DEF quiet, a, b, Good
<1>6. DOMAIN f = Pipeline!Probes
      /\ \A r \in Pipeline!Probes : f[r] = IF r = q THEN b ELSE IF r = p THEN a ELSE quiet[r]
  BY <1>3, <1>5 DEF quiet
<1>7. f = [r \in Pipeline!Probes |-> f[r]]
  BY <1>3, <1>5 DEF quiet
<1>8. \A r \in Pipeline!Probes : Good(r, f[r])
  BY <1>3, <1>4, <1>6 DEF quiet, a, b
<1> QED  BY <1>7, <1>8 DEF PipelineFound, Good

LEMMA SamplesMove ==
  ASSUME PipelineTyped, NEW k \in Pipeline!Counted
  PROVE  /\ PipelineSample(Pipeline!Advance(k), v6.time) /\ Pipeline!Advance(k).there
         /\ k = "s3" /\ v4[k].there /\ v4[k].total = v3[k] => Pipeline!Advance(k) = v4[k]
         /\ k # "s3" /\ Pipeline!Advance(k).rate # PipelineGiven.NoFigure
              => Pipeline!Advance(k).total = v4[k].total + Pipeline!Advance(k).rate.grown
<1> DEFINE prev == v4[k]
           total == v3[k]
           time == v6.time
           none == PipelineGiven.NoFigure
           over == time - prev.ts
           grown == total - prev.total
           put == IF total > prev.total THEN grown ELSE 0
           a == Pipeline!AdvancePutRate(prev, total)
           c == Pipeline!CounterRate(prev, total)
           b == [ts |-> time, total |-> total, there |-> TRUE, rate |-> c]
<1>1. /\ prev.ts \in Nat /\ prev.total \in Nat /\ prev.rate \in PipelineRates
      /\ prev.there \in BOOLEAN /\ prev.ts <= time /\ total \in Nat /\ time \in Nat
      /\ PipelineSample(prev, time)
  BY DEF PipelineTyped, PipelineSample, PipelineClock
<1>2. time # prev.ts => over \in Nat \ {0}
  BY <1>1
<1>3. put \in Nat /\ (~(total < prev.total) => grown \in Nat)
  BY <1>1
<1>4. /\ a = IF prev.there /\ prev.total = total THEN prev
             ELSE [ts |-> time, total |-> total, there |-> TRUE,
                   rate |-> IF ~prev.there \/ time = prev.ts THEN prev.rate
                            ELSE [grown |-> put, over |-> over]]
      /\ c = IF ~prev.there \/ time = prev.ts \/ total < prev.total THEN none
             ELSE [grown |-> grown, over |-> over]
      /\ Pipeline!Advance(k) = IF k = "s3" THEN a ELSE b
  BY DEF Pipeline!AdvancePutRate, Pipeline!CounterRate, Pipeline!Advance
<1>5. time \in Nat /\ total \in Nat /\ none \in PipelineRates /\ prev.rate \in PipelineRates
  BY <1>1 DEF PipelineRates
<1> HIDE DEF over, grown, put, total, time, none
<1>6. c \in PipelineRates /\ (c # none => c = [grown |-> grown, over |-> over])
  BY <1>2, <1>3, <1>4, <1>5 DEF PipelineRates, Pipeline!Rates
<1>7. ASSUME NEW r \in PipelineRates
      PROVE  LET s == [ts |-> time, total |-> total, there |-> TRUE, rate |-> r]
             IN PipelineSample(s, time) /\ s.there = TRUE
  BY <1>5 DEF PipelineSample
<1>8. CASE k = "s3"
  <2>1. CASE prev.there /\ prev.total = total
    <3>1. Pipeline!Advance(k) = prev
      BY <1>4, <1>8, <2>1
    <3> HIDE DEF prev
    <3> QED  BY <1>1, <1>8, <2>1, <3>1 DEF prev, time
  <2>2. CASE ~(prev.there /\ prev.total = total)
    <3> DEFINE r == IF ~prev.there \/ time = prev.ts THEN prev.rate ELSE [grown |-> put, over |-> over]
               s == [ts |-> time, total |-> total, there |-> TRUE, rate |-> r]
    <3>1. r \in PipelineRates
      BY <1>2, <1>3, <1>5 DEF PipelineRates, Pipeline!Rates
    <3>2. Pipeline!Advance(k) = s
      BY <1>4, <1>8, <2>2
    <3> HIDE DEF r
    <3>3. PipelineSample(s, time) /\ s.there = TRUE
      BY <1>7, <3>1
    <3> HIDE DEF s
    <3> QED  BY <1>8, <2>2, <3>2, <3>3 DEF time, total
  <2> QED  BY <2>1, <2>2
<1>9. CASE k # "s3"
  <2>1. Pipeline!Advance(k) = b
    BY <1>4, <1>9
  <2>2. PipelineSample(b, time) /\ b.there = TRUE
    BY <1>6, <1>7
  <2>3. b.rate = c /\ b.total = total
    OBVIOUS
  <2> HIDE DEF b
  <2>4. ASSUME b.rate # none PROVE b.total = prev.total + b.rate.grown
    <3>1. b.rate = [grown |-> grown, over |-> over]
      BY <1>6, <2>3, <2>4
    <3>2. b.rate.grown = grown
      BY <3>1
    <3>3. total = prev.total + grown
      BY <1>1 DEF grown, total
    <3> QED  BY <2>3, <3>2, <3>3
  <2> QED  BY <1>9, <2>1, <2>2, <2>4 DEF time, none
<1> QED  BY <1>8, <1>9

LEMMA PipelineLooks ==
  ASSUME PipelineTyped
  PROVE  /\ \A n \in DOMAIN Pipeline!Snapshot.nodes : Pipeline!Snapshot.nodes[n] \in PipelineColours
         /\ \A k \in Pipeline!Counted :
              Pipeline!Snapshot.rates[k] = IF k \in Pipeline!Answering THEN Pipeline!Advance(k).rate
                                           ELSE PipelineGiven.NoFigure
<1> DEFINE rates == [k \in Pipeline!Counted |->
                       IF k \in Pipeline!Answering THEN Pipeline!Advance(k).rate
                       ELSE PipelineGiven.NoFigure]
           nodes == Pipeline!Nodes(v2, rates)
<1>1. Pipeline!Snapshot = [nodes |-> nodes, edges |-> Pipeline!Edges(v2, rates), rates |-> rates]
  BY DEF Pipeline!Snapshot
<1>2. Pipeline!Snapshot.nodes = nodes /\ Pipeline!Snapshot.rates = rates
  BY <1>1
<1>3. Pipeline!PodNode \in PipelineColours
  BY MergedIs DEF PipelineTyped
<1>4. \A n \in DOMAIN nodes : nodes[n] \in PipelineColours
  <2> HIDE DEF rates
  <2> QED  BY <1>3 DEF Pipeline!Nodes, Pipeline!UpNode, PipelineColours
<1> QED  BY <1>2, <1>4

LEMMA PipelineStart == Pipeline!Init => PipelineInv
<1> SUFFICES ASSUME Pipeline!Init PROVE PipelineInv
  OBVIOUS
<1>1. /\ v1 \in PipelineGiven.PodLists /\ v2 \in Pipeline!Founds
      /\ v3 = [k \in Pipeline!Counted |-> 1] /\ v5 = Pipeline!Snapshot
      /\ v4 = [k \in Pipeline!Counted |-> Pipeline!NoSample]
  BY DEF Pipeline!Init
<1> DEFINE moves == IF v1 = <<>> /\ v2 = Pipeline!Quiet THEN 0 ELSE PipelineGiven.MaxMoves
<1>2. v6 = [time |-> 0, moves |-> moves] /\ moves \in Nat
  BY PipelineAssumption DEF Pipeline!Init
<1> HIDE DEF moves
<1>3. PipelineClock(v6) /\ v6.time = 0
  BY <1>2 DEF PipelineClock
<1>4. PipelineSample(Pipeline!NoSample, 0) /\ Pipeline!NoSample.rate = PipelineGiven.NoFigure
      /\ Pipeline!NoSample.there = FALSE
  BY DEF PipelineSample, PipelineRates, Pipeline!NoSample
<1>5. PipelineFound(v2)
  BY <1>1, FoundsAre
<1>6. PipelineTyped
  BY <1>1, <1>3, <1>4, <1>5 DEF PipelineTyped
<1>7. v5.rates["s3"] = PipelineGiven.NoFigure
  <2> DEFINE prev == v4["s3"]
             total == v3["s3"]
  <2>1. "s3" \in Pipeline!Counted
    BY DEF Pipeline!Counted
  <2>2. prev = Pipeline!NoSample
    BY <1>1, <2>1
  <2> HIDE DEF prev, total
  <2>3. Pipeline!AdvancePutRate(prev, total).rate = PipelineGiven.NoFigure
    BY <1>4, <2>2 DEF Pipeline!AdvancePutRate
  <2>4. Pipeline!Advance("s3").rate = PipelineGiven.NoFigure
    BY <2>3 DEF Pipeline!Advance, prev, total
  <2> QED  BY <1>1, <1>6, <2>1, <2>4, PipelineLooks
<1> QED  BY <1>1, <1>6, <1>7, PipelineLooks DEF PipelineInv, PipelineSnap

LEMMA PipelineCollects ==
  ASSUME PipelineInv, Pipeline!Collect
  PROVE  PipelineInv' /\ Pipeline!PutRateStep /\ Pipeline!RateStep
<1>1. /\ v5' = Pipeline!Snapshot /\ v1' = v1 /\ v2' = v2 /\ v3' = v3 /\ v6' = v6
      /\ v4' = [k \in Pipeline!Counted |->
                  IF k \in Pipeline!Answering THEN Pipeline!Advance(k) ELSE v4[k]]
  BY DEF Pipeline!Collect
<1>2. PipelineTyped /\ PipelineSnap(v5, v4)
  BY DEF PipelineInv
<1>3. /\ \A n \in DOMAIN v5'.nodes : v5'.nodes[n] \in PipelineColours
      /\ \A k \in Pipeline!Counted :
           v5'.rates[k] = IF k \in Pipeline!Answering THEN Pipeline!Advance(k).rate
                          ELSE PipelineGiven.NoFigure
  BY <1>1, <1>2, PipelineLooks
<1>4. \A k \in Pipeline!Counted :
        /\ PipelineSample(v4'[k], v6.time)
        /\ k \in Pipeline!Answering => v4'[k] = Pipeline!Advance(k) /\ v4'[k].there
        /\ k \notin Pipeline!Answering => v4'[k] = v4[k]
  BY <1>1, <1>2, SamplesMove DEF PipelineTyped
<1>5. "s3" \in Pipeline!Counted
  BY DEF Pipeline!Counted
<1>6. PipelineSnap(v5', v4')
  BY <1>3, <1>4, <1>5 DEF PipelineSnap
<1>7. PipelineTyped'
  <2>1. DOMAIN v4' = Pipeline!Counted
    BY <1>1
  <2> QED  BY <1>1, <1>2, <1>4, <2>1 DEF PipelineTyped
<1>8. Pipeline!PutRateStep
  <2> SUFFICES ASSUME v5.rates["s3"] # PipelineGiven.NoFigure, v3["s3"] = v4["s3"].total,
                      "s3" \in Pipeline!Answering
               PROVE  v5'.rates["s3"] = v4["s3"].rate
    BY DEF Pipeline!PutRateStep
  <2>1. v4["s3"].there
    BY <1>2 DEF PipelineSnap
  <2>2. Pipeline!Advance("s3") = v4["s3"]
    <3> DEFINE k == "s3"
    <3>1. k = "s3" /\ k \in Pipeline!Counted /\ v4[k].there /\ v4[k].total = v3[k]
      BY <1>5, <2>1
    <3> HIDE DEF k
    <3>2. Pipeline!Advance(k) = v4[k]
      BY <1>2, <3>1, SamplesMove
    <3> QED  BY <3>2 DEF k
  <2> QED  BY <1>3, <1>5, <2>2
<1>9. Pipeline!RateStep
  <2> SUFFICES ASSUME NEW k \in Pipeline!Counted \ {"s3"}, v4'[k] # v4[k],
                      v4'[k].rate # PipelineGiven.NoFigure
               PROVE  v4'[k].total = v4[k].total + v4'[k].rate.grown
    BY DEF Pipeline!RateStep
  <2>1. v4'[k] = Pipeline!Advance(k)
    BY <1>4
  <2> QED  BY <1>2, <2>1, SamplesMove
<1> QED  BY <1>6, <1>7, <1>8, <1>9 DEF PipelineInv

LEMMA PipelineMoves ==
  ASSUME PipelineInv, \/ \E k \in Pipeline!Counted : Pipeline!Moves(k)
                      \/ Pipeline!Tick
                      \/ \E p \in Pipeline!Probes : \E i \in DOMAIN Pipeline!Outcomes[p] :
                           Pipeline!Turns(p, Pipeline!Outcomes[p][i])
  PROVE  PipelineInv' /\ v4' = v4 /\ v5' = v5
<1>1. v1' = v1 /\ v4' = v4 /\ v5' = v5
  BY DEF Pipeline!Moves, Pipeline!Tick, Pipeline!Turns
<1>2. PipelineTyped /\ PipelineSnap(v5, v4)
  BY DEF PipelineInv
<1>3. PipelineClock(v6') /\ v6.time <= v6'.time
  <2>1. v6.time \in Nat /\ v6.moves \in Nat
    BY <1>2 DEF PipelineTyped, PipelineClock
  <2> DEFINE n == v6.moves + 1
             t == v6.time + 1
  <2>2. n \in Nat /\ t \in Nat /\ v6.time <= t /\ v6.time <= v6.time
    BY <2>1
  <2>3. v6' = [v6 EXCEPT !.moves = n] \/ v6' = [v6 EXCEPT !.time = t]
    BY DEF Pipeline!Moves, Pipeline!Tick, Pipeline!Turns
  <2> HIDE DEF n, t
  <2>4. CASE v6' = [v6 EXCEPT !.moves = n]
    BY <1>2, <2>2, <2>4 DEF PipelineTyped, PipelineClock
  <2>5. CASE v6' = [v6 EXCEPT !.time = t]
    BY <1>2, <2>2, <2>5 DEF PipelineTyped, PipelineClock
  <2> QED  BY <2>3, <2>4, <2>5
<1>4. \A k \in Pipeline!Counted : PipelineSample(v4[k], v6'.time)
  <2>1. v6.time \in Nat /\ v6'.time \in Nat
    BY <1>2, <1>3 DEF PipelineTyped, PipelineClock
  <2> QED  BY <1>2, <1>3, <2>1 DEF PipelineTyped, PipelineSample
<1>5. v3' \in [Pipeline!Counted -> Nat]
  <2>1. CASE v3' = v3
    BY <1>2, <2>1 DEF PipelineTyped
  <2>2. CASE \E k \in Pipeline!Counted : Pipeline!Moves(k)
    <3>1. PICK k \in Pipeline!Counted : v3' \in {[v3 EXCEPT ![k] = @ + 1], [v3 EXCEPT ![k] = 0]}
      BY <2>2 DEF Pipeline!Moves
    <3> DEFINE n == v3[k] + 1
    <3>2. n \in Nat /\ 0 \in Nat /\ (v3' = [v3 EXCEPT ![k] = n] \/ v3' = [v3 EXCEPT ![k] = 0])
      BY <1>2, <3>1 DEF PipelineTyped
    <3> HIDE DEF n
    <3> QED  BY <1>2, <3>2 DEF PipelineTyped
  <2> QED  BY <2>1, <2>2 DEF Pipeline!Tick, Pipeline!Turns
<1>6. PipelineFound(v2')
  <2>1. CASE v2' = v2
    BY <1>2, <2>1 DEF PipelineTyped
  <2>2. CASE \E p \in Pipeline!Probes : \E i \in DOMAIN Pipeline!Outcomes[p] :
               Pipeline!Turns(p, Pipeline!Outcomes[p][i])
    <3>1. PICK p \in Pipeline!Probes : \E i \in DOMAIN Pipeline!Outcomes[p] :
                 Pipeline!Turns(p, Pipeline!Outcomes[p][i])
      BY <2>2
    <3>2. PICK i \in DOMAIN Pipeline!Outcomes[p] : Pipeline!Turns(p, Pipeline!Outcomes[p][i])
      BY <3>1
    <3> DEFINE o == Pipeline!Outcomes[p][i]
    <3>3. v2' = [v2 EXCEPT ![p] = o]
      BY <3>2 DEF Pipeline!Turns
    <3>4. o \in Pipeline!Range(Pipeline!Outcomes[p])
      BY OutcomesAre
    <3> HIDE DEF o
    <3> QED  BY <1>2, <3>3, <3>4 DEF PipelineTyped, PipelineFound
  <2> QED  BY <2>1, <2>2 DEF Pipeline!Moves, Pipeline!Tick
<1>7. PipelineTyped'
  BY <1>1, <1>2, <1>3, <1>4, <1>5, <1>6 DEF PipelineTyped
<1> QED  BY <1>1, <1>2, <1>7 DEF PipelineInv

LEMMA PipelineStep == ASSUME PipelineInv, [Pipeline!Next]_(Pipeline!vars) PROVE PipelineInv'
<1>1. CASE UNCHANGED Pipeline!vars
  <2>1. v1' = v1 /\ v2' = v2 /\ v3' = v3 /\ v4' = v4 /\ v5' = v5 /\ v6' = v6
    BY <1>1 DEF Pipeline!vars
  <2> QED  BY <2>1 DEF PipelineInv, PipelineTyped
<1>2. CASE Pipeline!Next
  BY <1>2, PipelineCollects, PipelineMoves DEF Pipeline!Next
<1> QED  BY <1>1, <1>2

LEMMA PipelinePromise == PipelineInv => Pipeline!TypeOK /\ Pipeline!WorstPodShows
<1> SUFFICES ASSUME PipelineInv PROVE Pipeline!TypeOK /\ Pipeline!WorstPodShows
  OBVIOUS
<1>1. PipelineTyped /\ PipelineSnap(v5, v4)
  BY DEF PipelineInv
<1>2. \A k \in Pipeline!Counted :
        v4[k].rate = PipelineGiven.NoFigure \/ v4[k].rate \in Pipeline!Rates
  BY <1>1 DEF PipelineTyped, PipelineSample, PipelineRates
<1>3. Pipeline!WorstPodShows
  BY <1>1, MergedIs DEF PipelineTyped
<1> QED
  BY <1>1, <1>2, <1>3
  DEF Pipeline!TypeOK, PipelineTyped, PipelineFound, PipelineSnap, PipelineColours

(* Rates are of what the counters did since the sample before.             *)
LEMMA PipelineRatesHold ==
  ASSUME PipelineInv, Pipeline!Next
  PROVE  Pipeline!PutRateStep /\ Pipeline!RateStep
<1>1. CASE Pipeline!Collect
  BY <1>1, PipelineCollects
<1>2. CASE ~Pipeline!Collect
  <2>1. v4' = v4 /\ v5' = v5
    BY <1>2, PipelineMoves DEF Pipeline!Next
  <2> QED  BY <2>1 DEF Pipeline!PutRateStep, Pipeline!RateStep
<1> QED  BY <1>1, <1>2

--------------------------------------------------------------------------------
(* The GPUs (lib/gpu-allocation.ts, lib/stream-density.ts): v1 the         *)
(* cluster, v2 the cached probe, v3 the last answer, v4 the card.          *)
GpuWorld(c) ==
  c \in [pods : GpuGiven.PodSets, nodes : GpuGiven.NodeLists, series : GpuGiven.Series,
         remote : {"200", "401", "404", "500", "none"}, turns : 0 .. GpuGiven.MaxTurns]
GpuCache(c) ==
  /\ c \in [there : BOOLEAN, age : 0 .. GpuGiven.Ttl,
            health : {"ok", "auth-error", "bad-url", "unreachable", "unknown"}]
  /\ c.there => c.age # 0
GpuShared(strategy, replicas) ==
  \/ strategy = "unknown"
  \/ strategy = Gpu!Strategy(v1.nodes) /\ replicas = Gpu!Replicas(v1.nodes)
GpuInv ==
  /\ GpuWorld(v1) /\ GpuCache(v2) /\ v4 \in {"loading", "unavailable", "scheduler", "devices"}
  /\ GpuShared(v3.strategy, v3.replicas) /\ v3.age \in 0 .. GpuGiven.Ttl - 1
  /\ Gpu!AllocationAddsUp

LEMMA GpuCounts == \A S : Gpu!Cardinality(S) = Cardinality(S)
BY DEF Gpu!Cardinality, Cardinality

(* What a refresh answers, field by field.                                 *)
LEMMA GpuAnswers ==
  ASSUME NEW prom \in BOOLEAN, NEW nodesOk \in BOOLEAN, NEW upto, Gpu!Collect(prom, nodesOk, upto)
  PROVE  /\ v3'.strategy = (IF nodesOk THEN Gpu!Strategy(v1.nodes) ELSE "unknown")
         /\ v3'.replicas = (IF nodesOk THEN Gpu!Replicas(v1.nodes) ELSE GpuGiven.Unknown)
         /\ LET running == {p \in Gpu!Listed(upto) : p.phase = "Running"}
            IN /\ v3'.allocated = Gpu!Cardinality(Gpu!GpusOf(running))
               /\ v3'.held = {Gpu!Workload(p) : p \in running}
         /\ v3'.pending = {Gpu!Workload(p) : p \in {q \in Gpu!Listed(upto) : q.phase = "Pending"}}
         /\ v3'.remote = Gpu!Probed.health /\ v3'.age = Gpu!Probed.age
         /\ upto # Len(GpuGiven.Namespaces) => "pods" \in v3'.warnings
         /\ v4' \in {"scheduler", "devices"} /\ v1' = v1
         /\ v2' = [Gpu!Probed EXCEPT !.age = IF @ < GpuGiven.Ttl THEN @ + 1 ELSE @]
<1> DEFINE pods    == Gpu!Listed(upto)
           running == {p \in pods : p.phase = "Running"}
           gpus    == IF prom THEN Gpu!Gpus(v1.series) ELSE {}
           s == IF nodesOk THEN Gpu!Strategy(v1.nodes) ELSE "unknown"
           r == IF nodesOk THEN Gpu!Replicas(v1.nodes) ELSE GpuGiven.Unknown
           t == IF nodesOk /\ Gpu!GpuNodes(v1.nodes) # {}
                THEN Gpu!Schedulable(v1.nodes) ELSE GpuGiven.Unknown
           a == Gpu!Cardinality(Gpu!GpusOf(running))
           h == {Gpu!Workload(p) : p \in running}
           q == {Gpu!Workload(p) : p \in {x \in pods : x.phase = "Pending"}}
           m == Gpu!Probed.health
           o == Gpu!Probed.age
           w == (IF prom THEN {} ELSE {"prometheus"}) \union (IF nodesOk THEN {} ELSE {"nodes"})
                  \union (IF upto = Len(GpuGiven.Namespaces) THEN {} ELSE {"pods"})
<1>1. /\ v3'.strategy = s /\ v3'.replicas = r
  BY DEF Gpu!Collect
<1>6. v3'.allocated = a
  BY DEF Gpu!Collect
<1>7. v3'.held = h
  BY DEF Gpu!Collect
<1>8. v3'.pending = q
  BY DEF Gpu!Collect
<1>9. v3'.remote = m /\ v3'.age = o
  BY DEF Gpu!Collect
<1>10. v3'.warnings = w
  BY DEF Gpu!Collect
<1>5. /\ v4' = (IF gpus = {} THEN "scheduler" ELSE "devices") /\ v1' = v1
      /\ v2' = [Gpu!Probed EXCEPT !.age = IF @ < GpuGiven.Ttl THEN @ + 1 ELSE @]
  BY DEF Gpu!Collect
<1>2. upto # Len(GpuGiven.Namespaces) => "pods" \in w
  OBVIOUS
<1> HIDE DEF gpus, s, r, t, a, h, q, m, o, w
<1> QED  BY <1>1, <1>2, <1>5, <1>6, <1>7, <1>8, <1>9, <1>10 DEF s, r, a, h, q, m, o

(* The probe is asked again only when there is none of less than its age.  *)
LEMMA GpuProbed ==
  ASSUME GpuInv
  PROVE  /\ GpuCache(v2) /\ Gpu!Probed \in [there : {TRUE}, age : 0 .. GpuGiven.Ttl - 1,
                                health : {"ok", "auth-error", "bad-url", "unreachable", "unknown"}]
         /\ Gpu!Probed.age = 0 => Gpu!Probed.health = Gpu!Health(v1.remote, TRUE)
<1> DEFINE e == Gpu!Health(v1.remote, TRUE)
           H == {"ok", "auth-error", "bad-url", "unreachable", "unknown"}
           n == [there |-> TRUE, age |-> 0, health |-> e]
<1>1. e \in H
  BY DEF Gpu!Health
<1>2. GpuCache(v2) /\ Gpu!Probed = IF v2.there /\ v2.age < GpuGiven.Ttl THEN v2 ELSE n
  BY DEF GpuInv, Gpu!Probed
<1>3. 0 \in 0 .. GpuGiven.Ttl - 1
  BY GpuAssumption
<1> HIDE DEF e, H
<1>4. n \in [there : {TRUE}, age : 0 .. GpuGiven.Ttl - 1, health : H] /\ n.health = e
  BY <1>1, <1>3
<1> HIDE DEF n
<1>5. ASSUME v2.there, v2.age < GpuGiven.Ttl
      PROVE  v2 \in [there : {TRUE}, age : 0 .. GpuGiven.Ttl - 1, health : H] /\ v2.age # 0
  <2> DEFINE k == v2.age
  <2>1. k \in 0 .. GpuGiven.Ttl /\ v2.there = TRUE /\ k # 0
    BY <1>2, <1>5 DEF GpuCache
  <2>2. k \in 0 .. GpuGiven.Ttl - 1
    BY <1>5, <2>1, GpuAssumption
  <2>3. v2 \in [there : BOOLEAN, age : 0 .. GpuGiven.Ttl, health : H]
    BY <1>2 DEF GpuCache, H
  <2> QED  BY <2>1, <2>2, <2>3
<1> QED  BY <1>2, <1>4, <1>5 DEF e, H

LEMMA GpuStart == Gpu!Init => GpuInv
<1> SUFFICES ASSUME Gpu!Init PROVE GpuInv
  OBVIOUS
<1>1. /\ v1 \in [pods : GpuGiven.PodSets, nodes : GpuGiven.NodeLists, series : GpuGiven.Series,
                 remote : {"200"}, turns : {0}]
      /\ v2 = Gpu!NoCache /\ v3 = Gpu!NoSnap /\ v4 = "loading"
  BY DEF Gpu!Init
<1>2. 0 \in 0 .. GpuGiven.MaxTurns /\ 0 \in 0 .. GpuGiven.Ttl /\ 0 \in 0 .. GpuGiven.Ttl - 1
  BY GpuAssumption
<1>3. GpuWorld(v1)
  BY <1>1, <1>2 DEF GpuWorld
<1>4. GpuCache(v2)
  BY <1>1, <1>2 DEF GpuCache, Gpu!NoCache
<1>5. /\ v3.strategy = "unknown" /\ v3.age = 0 /\ v3.allocated = 0 /\ v3.held = {}
      /\ v3.pending = {}
  BY <1>1 DEF Gpu!NoSnap
<1>6. Gpu!GpusOf({}) = {} /\ Gpu!Cardinality({}) = 0
  BY GpuCounts, FS_EmptySet DEF Gpu!GpusOf
<1>7. Gpu!AllocationAddsUp
  <2> DEFINE held == v3.held
             pending == v3.pending
             n == v3.allocated
  <2>1. Gpu!AllocationAddsUp <=>
          /\ n = Gpu!Cardinality(Gpu!GpusOf(held))
          /\ \A w \in held, p \in pending : <<w.ns, w.pod>> # <<p.ns, p.pod>>
    BY DEF Gpu!AllocationAddsUp
  <2>2. n = 0 /\ held = {}
    BY <1>5
  <2> HIDE DEF n, held, pending
  <2> QED  BY <1>6, <2>1, <2>2
<1>8. GpuShared(v3.strategy, v3.replicas)
  BY <1>5 DEF GpuShared
<1> QED  BY <1>1, <1>2, <1>3, <1>4, <1>5, <1>7, <1>8 DEF GpuInv

LEMMA SlotsAre ==
  ASSUME NEW S
  PROVE  \A x : x \in Gpu!GpusOf(S) <=> \E p \in S : \E i \in 1 .. p.gpus : x = <<p, i>>
<1> SUFFICES ASSUME NEW x
             PROVE  x \in Gpu!GpusOf(S) <=> \E p \in S : \E i \in 1 .. p.gpus : x = <<p, i>>
  OBVIOUS
<1>1. x \in Gpu!GpusOf(S) <=> \E p \in S : x \in {p} \X (1 .. p.gpus)
  BY DEF Gpu!GpusOf
<1>2. \A p : x \in {p} \X (1 .. p.gpus) <=> \E i \in 1 .. p.gpus : x = <<p, i>>
  OBVIOUS
<1> QED  BY <1>1, <1>2

(* As many GPUs are counted of what is shown of pods as of the pods, when  *)
(* each is shown apart with the GPUs it has.                               *)
LEMMA SlotsAlike ==
  ASSUME NEW S, IsFiniteSet(S), \A p \in S : p.gpus \in Nat,
         NEW T, NEW f \in Bijection(S, T), \A p \in S : f[p].gpus = p.gpus
  PROVE  Cardinality(Gpu!GpusOf(S)) = Cardinality(Gpu!GpusOf(T))
<1> DEFINE of == [p \in S |-> {p} \X (1 .. p.gpus)]
           sets == {{p} \X (1 .. p.gpus) : p \in S}
           g == [x \in Gpu!GpusOf(S) |-> <<f[x[1]], x[2]>>]
<1>1. IsFiniteSet(Gpu!GpusOf(S))
  <2>1. of \in Surjection(S, sets)
    <3>1. of \in [S -> sets] /\ \A t \in sets : \E p \in S : of[p] = t
      OBVIOUS
    <3> HIDE DEF of, sets
    <3> QED  BY <3>1 DEF Surjection
  <2>2. IsFiniteSet(sets)
    <3> HIDE DEF of, sets
    <3> QED  BY <2>1, FS_Surjection
  <2>3. \A t \in sets : IsFiniteSet(t)
    <3> SUFFICES ASSUME NEW p \in S PROVE IsFiniteSet({p} \X (1 .. p.gpus))
      OBVIOUS
    <3>1. IsFiniteSet({p})
      BY FS_Singleton
    <3>2. IsFiniteSet(1 .. p.gpus)
      BY FS_Interval
    <3> QED  BY <3>1, <3>2, FS_Product
  <2>4. Gpu!GpusOf(S) = UNION sets
    BY DEF Gpu!GpusOf
  <2> HIDE DEF sets
  <2> QED  BY <2>2, <2>3, <2>4, FS_UNION
<1>2. /\ f \in [S -> T] /\ \A t \in T : \E p \in S : f[p] = t
      /\ \A p, q \in S : f[p] = f[q] => p = q
  BY DEF Bijection, Surjection, Injection, IsInjective
<1>3. \A x \in Gpu!GpusOf(S) : x[1] \in S /\ x[2] \in 1 .. x[1].gpus /\ x = <<x[1], x[2]>>
  BY SlotsAre
<1>4. g \in [Gpu!GpusOf(S) -> Gpu!GpusOf(T)]
  <2> SUFFICES ASSUME NEW x \in Gpu!GpusOf(S) PROVE <<f[x[1]], x[2]>> \in Gpu!GpusOf(T)
    OBVIOUS
  <2> DEFINE t == f[x[1]]
  <2>1. t \in T /\ t.gpus = x[1].gpus /\ x[2] \in 1 .. t.gpus
    BY <1>2, <1>3
  <2> HIDE DEF t
  <2>2. <<t, x[2]>> \in Gpu!GpusOf(T)
    BY <2>1, SlotsAre
  <2> QED  BY <2>2 DEF t
<1>5. \A x, y \in Gpu!GpusOf(S) : g[x] = g[y] => x = y
  <2> SUFFICES ASSUME NEW x \in Gpu!GpusOf(S), NEW y \in Gpu!GpusOf(S), g[x] = g[y] PROVE x = y
    OBVIOUS
  <2>1. f[x[1]] = f[y[1]] /\ x[2] = y[2]
    OBVIOUS
  <2>2. x[1] = y[1]
    BY <1>2, <1>3, <2>1
  <2> QED  BY <1>3, <2>1, <2>2
<1>6. \A z \in Gpu!GpusOf(T) : \E x \in Gpu!GpusOf(S) : g[x] = z
  <2> SUFFICES ASSUME NEW z \in Gpu!GpusOf(T) PROVE \E x \in Gpu!GpusOf(S) : g[x] = z
    OBVIOUS
  <2>1. PICK t \in T : \E i \in 1 .. t.gpus : z = <<t, i>>
    BY SlotsAre
  <2>2. PICK i \in 1 .. t.gpus : z = <<t, i>>
    BY <2>1
  <2>3. PICK p \in S : f[p] = t
    BY <1>2
  <2> DEFINE x == <<p, i>>
  <2>4. x \in Gpu!GpusOf(S)
    BY <2>2, <2>3, SlotsAre
  <2>5. g[x] = <<f[p], i>>
    BY <2>4
  <2> QED  BY <2>2, <2>3, <2>4, <2>5
<1>7. g \in Bijection(Gpu!GpusOf(S), Gpu!GpusOf(T))
  <2> HIDE DEF g
  <2>1. g \in Injection(Gpu!GpusOf(S), Gpu!GpusOf(T))
    BY <1>4, <1>5 DEF Injection, IsInjective
  <2>2. g \in Surjection(Gpu!GpusOf(S), Gpu!GpusOf(T))
    BY <1>4, <1>6 DEF Surjection
  <2> QED  BY <2>1, <2>2 DEF Bijection
<1> QED  BY <1>1, <1>7, FS_Bijection DEF ExistsBijection

LEMMA GpuCollects ==
  ASSUME GpuInv, NEW prom \in BOOLEAN, NEW nodesOk \in BOOLEAN,
         NEW upto \in 0 .. Len(GpuGiven.Namespaces), Gpu!Collect(prom, nodesOk, upto)
  PROVE  GpuInv'
<1> DEFINE pods == Gpu!Listed(upto)
           running == {p \in pods : p.phase = "Running"}
           held == {Gpu!Workload(p) : p \in running}
           pending == {Gpu!Workload(p) : p \in {q \in pods : q.phase = "Pending"}}
           f == [p \in running |-> Gpu!Workload(p)]
<1>1. /\ v3'.strategy = (IF nodesOk THEN Gpu!Strategy(v1.nodes) ELSE "unknown")
      /\ v3'.replicas = (IF nodesOk THEN Gpu!Replicas(v1.nodes) ELSE GpuGiven.Unknown)
      /\ v3'.allocated = Gpu!Cardinality(Gpu!GpusOf(running)) /\ v3'.held = held
      /\ v3'.pending = pending /\ v3'.age = Gpu!Probed.age
      /\ v4' \in {"scheduler", "devices"} /\ v1' = v1
      /\ v2' = [Gpu!Probed EXCEPT !.age = IF @ < GpuGiven.Ttl THEN @ + 1 ELSE @]
  BY GpuAnswers
<1>2. GpuCache(v2') /\ v3'.age \in 0 .. GpuGiven.Ttl - 1
  <2> DEFINE o == Gpu!Probed
             k == o.age
             n == IF k < GpuGiven.Ttl THEN k + 1 ELSE k
  <2>1. o \in [there : {TRUE}, age : 0 .. GpuGiven.Ttl - 1,
               health : {"ok", "auth-error", "bad-url", "unreachable", "unknown"}]
    BY GpuProbed
  <2>2. k \in 0 .. GpuGiven.Ttl - 1 /\ v2' = [o EXCEPT !.age = n] /\ v3'.age = k
    BY <1>1, <2>1
  <2> HIDE DEF o, k
  <2>3. n \in 0 .. GpuGiven.Ttl /\ n # 0
    BY <2>2, GpuAssumption
  <2> HIDE DEF n
  <2> QED  BY <2>1, <2>2, <2>3 DEF GpuCache
<1>3. /\ pods \subseteq v1.pods /\ IsFiniteSet(v1.pods)
      /\ \A p \in pods : p \in GpuPods
      /\ \A p, q \in pods : p.ns = q.ns /\ p.name = q.name => p = q
  <2>1. v1.pods \in GpuGiven.PodSets
    BY DEF GpuInv, GpuWorld
  <2>2. pods \subseteq v1.pods
    BY DEF Gpu!Listed
  <2> HIDE DEF pods
  <2> QED  BY <2>1, <2>2, GpuAssumption
<1>4. \A p \in pods : /\ p.gpus \in Nat /\ Gpu!Workload(p).gpus = p.gpus
                      /\ Gpu!Workload(p).ns = p.ns /\ Gpu!Workload(p).pod = p.name
  <2> HIDE DEF pods
  <2>1. \A p \in pods : p.gpus \in Nat
    BY <1>3 DEF GpuPods
  <2>2. ASSUME NEW p \in pods
        PROVE  /\ Gpu!Workload(p).gpus = p.gpus
               /\ Gpu!Workload(p).ns = p.ns /\ Gpu!Workload(p).pod = p.name
    <3> DEFINE c == Gpu!Chip(p)
    <3>1. Gpu!Workload(p) = [pod |-> p.name, ns |-> p.ns, gpus |-> p.gpus, chip |-> c]
      BY DEF Gpu!Workload
    <3> HIDE DEF c
    <3> QED  BY <3>1
  <2> QED  BY <2>1, <2>2
<1> HIDE DEF pods
<1>5. Cardinality(Gpu!GpusOf(running)) = Cardinality(Gpu!GpusOf(held))
  <2>1. IsFiniteSet(running)
    BY <1>3, FS_Subset
  <2>2. f \in Bijection(running, held)
    <3>1. f \in [running -> held] /\ \A t \in held : \E p \in running : f[p] = t
      OBVIOUS
    <3>2. \A p, q \in running : f[p] = f[q] => p = q
      BY <1>3, <1>4
    <3> HIDE DEF f, running, held
    <3> QED  BY <3>1, <3>2 DEF Bijection, Injection, Surjection, IsInjective
  <2>3. /\ \A p \in running : p.gpus \in Nat
        /\ \A p \in running : f[p].gpus = p.gpus
    BY <1>4
  <2> HIDE DEF f, running, held
  <2> QED  BY <2>1, <2>2, <2>3, SlotsAlike
<1>6. \A w \in held, p \in pending : <<w.ns, w.pod>> # <<p.ns, p.pod>>
  <2> SUFFICES ASSUME NEW a \in running, NEW b \in pods, b.phase = "Pending",
                      Gpu!Workload(a).ns = Gpu!Workload(b).ns,
                      Gpu!Workload(a).pod = Gpu!Workload(b).pod
               PROVE  FALSE
    OBVIOUS
  <2> QED  BY <1>3, <1>4
<1>7. Gpu!AllocationAddsUp'
  <2> HIDE DEF running, held, pending
  <2> QED  BY <1>1, <1>5, <1>6, GpuCounts DEF Gpu!AllocationAddsUp
<1>8. GpuShared(v3.strategy, v3.replicas)'
  <2>1. \/ v3'.strategy = "unknown"
        \/ v3'.strategy = Gpu!Strategy(v1'.nodes) /\ v3'.replicas = Gpu!Replicas(v1'.nodes)
    BY <1>1
  <2> QED  BY <2>1 DEF GpuShared
<1> QED  BY <1>1, <1>2, <1>7, <1>8 DEF GpuInv

LEMMA GpuStep == ASSUME GpuInv, [Gpu!Next]_(Gpu!vars) PROVE GpuInv'
<1>0. ASSUME v3' = v3, v1'.nodes = v1.nodes PROVE Gpu!AllocationAddsUp' /\ GpuShared(v3.strategy, v3.replicas)'
  BY <1>0 DEF GpuInv, Gpu!AllocationAddsUp, GpuShared
<1>1. CASE UNCHANGED Gpu!vars
  <2>1. v1' = v1 /\ v2' = v2 /\ v3' = v3 /\ v4' = v4
    BY <1>1 DEF Gpu!vars
  <2> QED  BY <1>0, <2>1 DEF GpuInv
<1>2. ASSUME NEW pods \in GpuGiven.PodSets, NEW remote \in {"200", "401", "404", "500", "none"},
             Gpu!Turn(pods, remote)
      PROVE  GpuInv'
  <2> DEFINE n == v1.turns + 1
  <2>1. /\ v1.turns < GpuGiven.MaxTurns /\ v2' = v2 /\ v3' = v3 /\ v4' = v4
        /\ v1' = [v1 EXCEPT !.pods = pods, !.remote = remote, !.turns = n]
    BY <1>2 DEF Gpu!Turn
  <2>2. n \in 0 .. GpuGiven.MaxTurns
    BY <2>1, GpuAssumption DEF GpuInv, GpuWorld
  <2> HIDE DEF n
  <2>3. GpuWorld(v1') /\ v1'.nodes = v1.nodes
    BY <2>1, <2>2 DEF GpuInv, GpuWorld
  <2> QED  BY <1>0, <2>1, <2>3 DEF GpuInv
<1>3. CASE Gpu!RequestFails
  <2> DEFINE k == v2.age
             n == IF v2.there /\ k < GpuGiven.Ttl THEN k + 1 ELSE k
  <2>1. v4' = "unavailable" /\ v1' = v1 /\ v3' = v3 /\ v2' = [v2 EXCEPT !.age = n]
    BY <1>3 DEF Gpu!RequestFails
  <2>2. GpuCache(v2) /\ k \in 0 .. GpuGiven.Ttl
    BY DEF GpuInv, GpuCache
  <2> HIDE DEF k
  <2>3. n \in 0 .. GpuGiven.Ttl /\ (k # 0 => n # 0)
    BY <2>2, GpuAssumption
  <2> HIDE DEF n
  <2>4. GpuCache(v2')
    BY <2>1, <2>2, <2>3 DEF GpuCache, k
  <2> QED  BY <1>0, <2>1, <2>4 DEF GpuInv
<1> QED  BY <1>1, <1>2, <1>3, GpuCollects DEF Gpu!Next

(* A strategy is one of the five, and "exclusive" where there are no more  *)
(* GPUs to schedule than are there and none has replicas.                  *)
LEMMA GpuStrategies ==
  ASSUME NEW nodes \in GpuGiven.NodeLists
  PROVE  /\ Gpu!Strategy(nodes) \in {"exclusive", "time-slicing", "mps", "mig", "unknown"}
         /\ Gpu!Strategy(nodes) = "exclusive" =>
              /\ ~Gpu!Oversubscribed(nodes)
              /\ Gpu!Replicas(nodes) \in {GpuGiven.Unknown, 1}
<1> DEFINE L == Gpu!Labelled(nodes)
           R == Gpu!Replicated(nodes)
           l == Gpu!Max(L)
           r == Gpu!Max(R)
           over == Gpu!Oversubscribed(nodes)
<1>1. nodes \in Seq(GpuHosts)
  BY GpuAssumption
<1>2. \A i \in DOMAIN nodes : nodes[i] \in GpuHosts
  BY <1>1
<1>3. ASSUME NEW S, S \subseteq DOMAIN nodes, S # {} PROVE Gpu!Max(S) \in S
  <2> DEFINE N == Len(nodes)
             below == {i \in 1 .. N : i \in S}
  <2>1. N \in Nat /\ DOMAIN nodes = 1 .. N
    BY <1>1
  <2>2. IsFiniteSet(S)
    <3> HIDE DEF N
    <3>1. IsFiniteSet(1 .. N)
      BY <2>1, FS_Interval
    <3> QED  BY <1>3, <2>1, <3>1, FS_Subset
  <2>3. S \in SUBSET Nat
    BY <1>3, <2>1
  <2>4. PICK m \in S : \A k \in S : k <= m
    <3> HIDE DEF N
    <3> QED  BY <1>3, <2>2, <2>3, GreatestIn
  <2>5. \A k \in S : m >= k
    <3> HIDE DEF N
    <3> QED  BY <2>3, <2>4
  <2> QED  BY <2>5 DEF Gpu!Max
<1>4. L # {} => nodes[l].strategy \in {"time-slicing", "mps"}
  <2> SUFFICES ASSUME L # {} PROVE nodes[l].strategy \in {"time-slicing", "mps"}
    OBVIOUS
  <2>1. L \subseteq DOMAIN nodes /\ \A i \in L : nodes[i].strategy # "none"
    BY DEF Gpu!Labelled, Gpu!GpuNodes
  <2>2. l \in L
    BY <1>3, <2>1
  <2> HIDE DEF l, L
  <2>3. nodes[l] \in GpuHosts
    BY <1>2, <2>1, <2>2
  <2> QED  BY <2>1, <2>2, <2>3 DEF GpuHosts
<1>5. R # {} => nodes[r].replicas \in Nat \ {0}
  <2> SUFFICES ASSUME R # {} PROVE nodes[r].replicas \in Nat \ {0}
    OBVIOUS
  <2>1. R \subseteq DOMAIN nodes /\ \A i \in R : nodes[i].replicas # 0
    BY DEF Gpu!Replicated, Gpu!GpuNodes
  <2>2. r \in R
    BY <1>3, <2>1
  <2> HIDE DEF r, R
  <2>3. nodes[r] \in GpuHosts
    BY <1>2, <2>1, <2>2
  <2> QED  BY <2>1, <2>2, <2>3 DEF GpuHosts
<1>6. \/ Gpu!Strategy(nodes) \in {"unknown", "mig", "time-slicing"}
      \/ L # {} /\ Gpu!Strategy(nodes) = nodes[l].strategy
      \/ /\ Gpu!Strategy(nodes) = "exclusive" /\ ~over
         /\ ~(R # {} /\ nodes[r].replicas > 1)
  <2> HIDE DEF l, r, over, L, R
  <2> QED  BY DEF Gpu!Strategy, l, r, over, L, R
<1>7. R # {} => Gpu!Replicas(nodes) = nodes[r].replicas
  BY DEF Gpu!Replicas
<1>8. R = {} /\ ~over => Gpu!Replicas(nodes) = GpuGiven.Unknown
  BY DEF Gpu!Replicas
<1> HIDE DEF l, r, over, L, R
<1>9. R # {} /\ ~(nodes[r].replicas > 1) => nodes[r].replicas = 1
  BY <1>5
<1> QED  BY <1>4, <1>6, <1>7, <1>8, <1>9 DEF over

(* Of a quotient.                                                          *)
LEMMA PercentFits ==
  ASSUME NEW used \in Nat, NEW free \in Nat, used + free > 0
  PROVE  Gpu!Percent(used, used + free) \in 0 .. 100
<1> DEFINE t == used + free
           m == 200 * used + t
           n == 2 * t
           q == m \div n
<1>1. t \in Nat \ {0} /\ used <= t
  OBVIOUS
<1> HIDE DEF t
<1>2. n \in Nat \ {0} /\ m \in Nat /\ m < 101 * n
  BY <1>1
<1> HIDE DEF m, n
<1>3. q \in Int /\ n * q <= m /\ m < n * (q + 1)
  BY <1>2
<1> HIDE DEF q
<1>4. q >= 0
  BY <1>2, <1>3
<1>5. q < 101
  BY <1>2, <1>3
<1>6. q \in 0 .. 100
  BY <1>3, <1>4, <1>5
<1> QED  BY <1>6 DEF Gpu!Percent, q, m, n, t

(* A card's figures are those of a series of it.                           *)
LEMMA CardsAre ==
  ASSUME NEW series \in GpuGiven.Series, NEW d \in Gpu!Cards(series)
  PROVE  \E r \in GpuRows : /\ d.index \in Nat /\ d.index = r.gpu
                            /\ d.util = r.util /\ d.used = r.used /\ d.total = r.used + r.free
                            /\ d = Gpu!Card(series, d.index)
<1>1. series \in Seq(GpuRows)
  BY GpuAssumption
<1>2. PICK g \in Gpu!Indices(series) : d = Gpu!Card(series, g)
  BY DEF Gpu!Cards
<1> DEFINE S == Gpu!OfGpu(series, g)
           m == Gpu!Min(S)
           r == Gpu!First(series, g)
<1>3. S \in SUBSET Nat /\ S # {} /\ S \subseteq DOMAIN series /\ \A i \in S : series[i].gpu = g
  BY <1>1, <1>2 DEF Gpu!OfGpu, Gpu!Indices
<1>4. m \in S
  <2> HIDE DEF S
  <2>1. PICK k \in S : \A j \in S : k <= j
    BY <1>3, SmallestIn
  <2> QED  BY <2>1 DEF Gpu!Min
<1>5. r = series[m]
  BY DEF Gpu!First
<1> HIDE DEF S, m, r
<1>6. r \in GpuRows /\ r.gpu = g
  BY <1>1, <1>3, <1>4, <1>5
<1>7. d = [index |-> g, util |-> r.util, used |-> r.used, total |-> r.used + r.free]
  BY <1>2 DEF Gpu!Card, r
<1>8. /\ d.index = g /\ d.util = r.util /\ d.used = r.used /\ d.total = r.used + r.free
      /\ g \in Nat
  <2> DEFINE u == r.util
             n == r.used
             t == r.used + r.free
  <2>1. d = [index |-> g, util |-> u, used |-> n, total |-> t]
    BY <1>7
  <2>2. g \in Nat
    BY <1>6 DEF GpuRows
  <2> HIDE DEF u, n, t
  <2>3. d.index = g /\ d.util = u /\ d.used = n /\ d.total = t
    BY <2>1
  <2> QED  BY <2>2, <2>3 DEF u, n, t
<1> QED  BY <1>2, <1>6, <1>8

LEMMA Busier ==
  ASSUME NEW x \in 0 .. 100, NEW y \in 0 .. 100
  PROVE  (y > x <=> x <= y /\ x # y) /\ (x <= y <=> y > x \/ y = x)
OBVIOUS

(* No card is busier than the headline.                                    *)
LEMMA BusiestIs ==
  ASSUME NEW series \in GpuGiven.Series, series # <<>>
  PROVE  /\ Gpu!Busiest(series) \in Gpu!Cards(series)
         /\ \A d \in Gpu!Cards(series) : d.util <= Gpu!Busiest(series).util
<1> DEFINE C == Gpu!Cards(series)
           U == {100 - d.util : d \in C}
<1>1. \A d \in C : d.index \in Nat /\ d.util \in 0 .. 100 /\ d = Gpu!Card(series, d.index)
  <2> SUFFICES ASSUME NEW d \in C
               PROVE  d.index \in Nat /\ d.util \in 0 .. 100 /\ d = Gpu!Card(series, d.index)
    OBVIOUS
  <2>1. PICK r \in GpuRows : /\ d.index \in Nat /\ d.index = r.gpu
                             /\ d.util = r.util /\ d.used = r.used /\ d.total = r.used + r.free
                             /\ d = Gpu!Card(series, d.index)
    BY CardsAre
  <2>2. r.util \in 0 .. 100
    BY DEF GpuRows
  <2> QED  BY <2>1, <2>2
<1>2. C # {}
  <2>1. 1 \in DOMAIN series
    <3>1. series \in Seq(GpuRows)
      BY GpuAssumption
    <3>2. Len(series) \in Nat /\ Len(series) # 0 /\ DOMAIN series = 1 .. Len(series)
      BY <3>1
    <3> QED  BY <3>2
  <2>2. series[1].gpu \in Gpu!Indices(series)
    BY <2>1 DEF Gpu!Indices
  <2> QED  BY <2>2 DEF Gpu!Cards
<1> HIDE DEF C
<1>3. PICK a \in C : \A d \in C : d.util <= a.util
  <2>1. U \in SUBSET Nat /\ U # {}
    <3>1. \A d \in C : 100 - d.util \in Nat
      <4> SUFFICES ASSUME NEW d \in C PROVE 100 - d.util \in Nat
        OBVIOUS
      <4> DEFINE n == d.util
      <4>1. n \in 0 .. 100
        BY <1>1
      <4> HIDE DEF n
      <4>2. 100 - n \in Nat
        BY <4>1
      <4> QED  BY <4>2 DEF n
    <3> QED  BY <1>2, <3>1
  <2>2. PICK u \in U : \A w \in U : u <= w
    <3> HIDE DEF U
    <3> QED  BY <2>1, SmallestIn
  <2>3. PICK a \in C : u = 100 - a.util
    BY <2>2
  <2>4. \A d \in C : d.util <= a.util
    <3> SUFFICES ASSUME NEW d \in C PROVE d.util <= a.util
      OBVIOUS
    <3> DEFINE n == d.util
               m == a.util
    <3>1. n \in 0 .. 100 /\ m \in 0 .. 100
      BY <1>1
    <3>2. 100 - m <= 100 - n
      BY <2>2, <2>3
    <3> HIDE DEF n, m
    <3>3. n <= m
      BY <3>1, <3>2
    <3> QED  BY <3>3 DEF n, m
  <2> QED  BY <2>4
<1> DEFINE I == {d.index : d \in {e \in C : e.util = a.util}}
<1>4. PICK n \in I : \A k \in I : n <= k
  <2>1. I \in SUBSET Nat /\ I # {}
    BY <1>1
  <2> HIDE DEF I
  <2> QED  BY <2>1, SmallestIn
<1>5. PICK b \in C : b.util = a.util /\ b.index = n
  BY <1>4
<1> HIDE DEF U, I
<1>6. \A e \in C : b.util > e.util \/ (b.util = e.util /\ b.index <= e.index)
  <2> SUFFICES ASSUME NEW e \in C
               PROVE  b.util > e.util \/ (b.util = e.util /\ b.index <= e.index)
    OBVIOUS
  <2>1. CASE e.util = a.util
    <3>1. e.index \in I
      BY <2>1 DEF I
    <3> QED  BY <1>4, <1>5, <2>1, <3>1
  <2>2. CASE e.util # a.util
    <3> DEFINE x == e.util
               y == a.util
    <3>1. x <= y /\ y \in 0 .. 100 /\ x \in 0 .. 100 /\ x # y /\ b.util = y
      BY <1>1, <1>3, <1>5, <2>2
    <3> HIDE DEF y, x
    <3>2. y > x
      BY <3>1, Busier
    <3> QED  BY <3>1, <3>2 DEF x
  <2> QED  BY <2>1, <2>2
<1> DEFINE top == Gpu!Busiest(series)
<1>7. top \in C /\ \A e \in C : top.util > e.util \/ (top.util = e.util /\ top.index <= e.index)
  BY <1>6 DEF Gpu!Busiest, C
<1> HIDE DEF top
<1>8. \A d \in C : d.util <= top.util
  <2> SUFFICES ASSUME NEW d \in C PROVE d.util <= top.util
    OBVIOUS
  <2> DEFINE x == d.util
             y == top.util
  <2>1. x \in 0 .. 100 /\ y \in 0 .. 100 /\ (y > x \/ y = x)
    BY <1>1, <1>7
  <2> HIDE DEF x, y
  <2>2. x <= y
    BY <2>1, Busier
  <2> QED  BY <2>2 DEF x, y
<1> QED  BY <1>7, <1>8 DEF C, top

LEMMA HeadlineIs ==
  ASSUME NEW series \in GpuGiven.Series, series # <<>>
  PROVE  /\ \A d \in Gpu!Cards(series) : d.util <= Gpu!Headline(series).gpu.util
         /\ Gpu!Headline(series).vram \in {GpuGiven.Unknown} \union (0 .. 100)
<1> DEFINE d == Gpu!Busiest(series)
           v == IF d.total > 0 THEN Gpu!Percent(d.used, d.total) ELSE GpuGiven.Unknown
           w == IF Gpu!Cardinality(Gpu!Cards(series)) > 1 THEN Gpu!Cards(series) ELSE {}
<1>1. d \in Gpu!Cards(series) /\ \A e \in Gpu!Cards(series) : e.util <= d.util
  BY BusiestIs
<1>2. Gpu!Headline(series) = [gpu |-> d, vram |-> v, rows |-> w]
  BY DEF Gpu!Headline
<1>3. v \in {GpuGiven.Unknown} \union (0 .. 100)
  <2> HIDE DEF d
  <2>1. PICK r \in GpuRows : /\ d.index \in Nat /\ d.index = r.gpu
                             /\ d.util = r.util /\ d.used = r.used /\ d.total = r.used + r.free
                             /\ d = Gpu!Card(series, d.index)
    BY <1>1, CardsAre
  <2> DEFINE used == r.used
             free == r.free
  <2>2. used \in Nat /\ free \in Nat /\ d.used = used /\ d.total = used + free
    BY <2>1 DEF GpuRows
  <2> HIDE DEF used, free
  <2>3. used + free > 0 => Gpu!Percent(used, used + free) \in 0 .. 100
    BY <2>2, PercentFits
  <2> QED  BY <2>2, <2>3
<1> HIDE DEF d, v, w
<1>4. Gpu!Headline(series).gpu = d /\ Gpu!Headline(series).vram = v
  BY <1>2
<1> QED  BY <1>1, <1>3, <1>4

(* A verdict never improves with the chunks' time, nor as less is served.  *)
LEMMA VerdictsGrow ==
  ASSUME NEW b \in {49, 50, 79, 80}, NEW c \in {49, 50, 79, 80},
         NEW s \in {2, 3, 4}, NEW t \in {2, 3, 4}, b <= c, s >= t
  PROVE  Gpu!Rank(Gpu!Verdict(b, 4, s)) <= Gpu!Rank(Gpu!Verdict(c, 4, t))
<1> DEFINE Judged(x, y) == IF x >= 80 \/ 4 - y >= 2 THEN "saturated"
                           ELSE IF x >= 50 \/ 4 - y = 1 THEN "warn" ELSE "ok"
<1>1. \A x \in Int, y \in Int : Gpu!Verdict(x, 4, y) = Judged(x, y)
  <2> SUFFICES ASSUME NEW x \in Int, NEW y \in Int PROVE Gpu!Verdict(x, 4, y) = Judged(x, y)
    OBVIOUS
  <2>1. x # GpuGiven.Unknown /\ y # GpuGiven.Unknown /\ 4 # GpuGiven.Unknown
    BY GpuAssumption
  <2> QED  BY <2>1 DEF Gpu!Verdict
<1>2. /\ Gpu!Rank("ok") = 0 /\ Gpu!Rank("warn") = 1 /\ Gpu!Rank("saturated") = 2
  BY DEF Gpu!Rank
<1>3. Gpu!Verdict(b, 4, s) = Judged(b, s) /\ Gpu!Verdict(c, 4, t) = Judged(c, t)
  BY <1>1
<1> QED  BY <1>2, <1>3

LEMMA GpuPromise ==
  GpuInv => /\ Gpu!TypeOK /\ Gpu!RemoteAges
            /\ Gpu!AllocationAddsUp /\ Gpu!ExclusiveMeansWhole /\ Gpu!VerdictIsMonotone
<1> SUFFICES ASSUME GpuInv
             PROVE  /\ Gpu!TypeOK /\ Gpu!RemoteAges
                    /\ Gpu!AllocationAddsUp /\ Gpu!ExclusiveMeansWhole /\ Gpu!VerdictIsMonotone
  OBVIOUS
<1>0. v1.nodes \in GpuGiven.NodeLists /\ v1.series \in GpuGiven.Series
  BY DEF GpuInv, GpuWorld
<1>1. Gpu!TypeOK
  <2>1. v3.strategy \in {"exclusive", "time-slicing", "mps", "mig", "unknown"}
    BY <1>0, GpuStrategies DEF GpuInv, GpuShared
  <2> QED  BY <2>1 DEF Gpu!TypeOK, GpuInv, GpuWorld, GpuCache
<1>2. Gpu!RemoteAges
  BY GpuAssumption DEF GpuInv, Gpu!RemoteAges
<1>3. Gpu!AllocationAddsUp
  BY DEF GpuInv
<1>4. Gpu!ExclusiveMeansWhole
  BY <1>0, GpuStrategies DEF GpuInv, GpuShared, Gpu!ExclusiveMeansWhole
<1>5. Gpu!VerdictIsMonotone
  <2>1. v1.series # <<>> =>
          /\ \A d \in Gpu!Cards(v1.series) : d.util <= Gpu!Headline(v1.series).gpu.util
          /\ Gpu!Headline(v1.series).vram \in {GpuGiven.Unknown} \union (0 .. 100)
    BY <1>0, HeadlineIs
  <2>2. \A b, c \in {49, 50, 79, 80}, s, t \in {2, 3, 4} :
          b <= c /\ s >= t => Gpu!Rank(Gpu!Verdict(b, 4, s)) <= Gpu!Rank(Gpu!Verdict(c, 4, t))
    BY VerdictsGrow
  <2> QED  BY ONLY <2>1, <2>2 DEF Gpu!VerdictIsMonotone
<1> QED  BY <1>1, <1>2, <1>3, <1>4, <1>5

(* No pod is missing from a refresh that warns of none, and what is asked  *)
(* anew of a remote model is what it answers now.                          *)
LEMMA GpuTells == ASSUME GpuInv, Gpu!Next PROVE Gpu!MissingStep /\ Gpu!RemoteStep
<1>1. CASE Gpu!RequestFails \/ \E pods \in GpuGiven.PodSets,
             remote \in {"200", "401", "404", "500", "none"} : Gpu!Turn(pods, remote)
  <2>1. v3' = v3
    BY <1>1 DEF Gpu!RequestFails, Gpu!Turn
  <2> QED  BY <2>1 DEF Gpu!MissingStep, Gpu!RemoteStep
<1>2. ASSUME NEW prom \in BOOLEAN, NEW nodesOk \in BOOLEAN,
             NEW upto \in 0 .. Len(GpuGiven.Namespaces), Gpu!Collect(prom, nodesOk, upto)
      PROVE  Gpu!MissingStep /\ Gpu!RemoteStep
  <2> DEFINE pods == Gpu!Listed(upto)
             running == {p \in pods : p.phase = "Running"}
             waiting == {q \in pods : q.phase = "Pending"}
             N == GpuGiven.Namespaces
  <2>1. /\ v3'.held = {Gpu!Workload(p) : p \in running}
        /\ v3'.pending = {Gpu!Workload(p) : p \in waiting}
        /\ v3'.remote = Gpu!Probed.health /\ v3'.age = Gpu!Probed.age
        /\ upto # Len(N) => "pods" \in v3'.warnings
    BY <1>2, GpuAnswers
  <2>2. Gpu!RemoteStep
    BY <2>1, GpuProbed DEF Gpu!RemoteStep
  <2>3. ASSUME upto = Len(N), NEW p \in v1.pods, p.gpus > 0,
               p.phase \in {"Running", "Pending"}, p.ns \in Gpu!Range(N)
        PROVE  Gpu!Workload(p) \in v3'.held \union v3'.pending
    <3>1. \E i \in 1 .. upto : N[i] = p.ns
      <4>1. PICK i \in DOMAIN N : N[i] = p.ns
        BY <2>3 DEF Gpu!Range
      <4>2. DOMAIN N = 1 .. Len(N)
        BY GpuAssumption
      <4> QED  BY <2>3, <4>1, <4>2
    <3>2. p \in pods
      BY <2>3, <3>1 DEF Gpu!Listed
    <3> HIDE DEF pods
    <3>3. p \in running \/ p \in waiting
      BY <2>3, <3>2
    <3> HIDE DEF running, waiting
    <3> QED  BY <2>1, <3>3
  <2>4. Gpu!MissingStep
    BY <2>1, <2>3 DEF Gpu!MissingStep
  <2> QED  BY <2>2, <2>4
<1> QED  BY <1>1, <1>2 DEF Gpu!Next

--------------------------------------------------------------------------------
(* The topology page (api/topology, app/topology): v1 VST's list, v2 the   *)
(* box, v3 the graph last answered, v4 the connection, v5 the placed nodes.*)
GraphBoxes == [sim : BOOLEAN, nim : {"listed", "absent", "unlistable"},
               turns : 0 .. GraphGiven.MaxTurns]
GraphPayload(p) == p \in [list : Seq(GraphSensors), box : GraphBoxes, there : BOOLEAN]
GraphConn(c) ==
  /\ c \in [es : {"none", "opening", "open", "later"}, attempt : 0 .. GraphGiven.MaxAttempts,
            failed : BOOLEAN]
  /\ c.es = "none" => c.failed
GraphInv ==
  /\ v1 \in Seq(GraphSensors) /\ v2 \in GraphBoxes /\ GraphPayload(v3) /\ GraphConn(v4)
  /\ Len(v3.list) <= Len(v1)

LEMMA GraphStart == Graph!Init => GraphInv
<1> SUFFICES ASSUME Graph!Init PROVE GraphInv
  OBVIOUS
<1>1. /\ v1 \in GraphGiven.SensorLists /\ v3 = Graph!NoPayload
      /\ v2 \in [sim : BOOLEAN, nim : {"listed", "absent", "unlistable"}, turns : {0}]
      /\ v4 = [es |-> "opening", attempt |-> 0, failed |-> FALSE]
  BY DEF Graph!Init
<1>2. 0 \in 0 .. GraphGiven.MaxTurns /\ 0 \in 0 .. GraphGiven.MaxAttempts
  BY GraphAssumption
<1>3. v1 \in Seq(GraphSensors)
  BY <1>1, GraphAssumption
<1>4. v2 \in GraphBoxes
  BY <1>1, <1>2 DEF GraphBoxes
<1>5. GraphConn(v4)
  BY <1>1, <1>2 DEF GraphConn
<1>6. GraphPayload(v3) /\ v3.list = <<>>
  <2>1. <<>> \in Seq(GraphSensors)
    OBVIOUS
  <2> DEFINE b == [sim |-> FALSE, nim |-> "absent", turns |-> 0]
  <2>2. b \in GraphBoxes
    BY <1>2 DEF GraphBoxes
  <2>3. v3 = [list |-> <<>>, box |-> b, there |-> FALSE]
    BY <1>1 DEF Graph!NoPayload
  <2> HIDE DEF b
  <2>4. v3.list = <<>>
    BY <2>3
  <2> QED  BY <2>1, <2>2, <2>3, <2>4 DEF GraphPayload
<1>7. Len(v3.list) <= Len(v1)
  <2>1. Len(<<>>) = 0 /\ Len(v1) \in Nat
    BY <1>3
  <2> QED  BY <1>6, <2>1
<1> QED  BY <1>3, <1>4, <1>5, <1>6, <1>7 DEF GraphInv

LEMMA GraphTurnsOver ==
  ASSUME GraphInv, v3' = v3, v4' = v4, v1' \in Seq(GraphSensors), Len(v1) <= Len(v1'),
         NEW nim \in {"listed", "absent", "unlistable"}, v2.turns < GraphGiven.MaxTurns,
         v2' = [v2 EXCEPT !.nim = nim, !.turns = @ + 1]
  PROVE  GraphInv'
<1> DEFINE n == v2.turns + 1
<1>1. n \in 0 .. GraphGiven.MaxTurns /\ v2' = [v2 EXCEPT !.nim = nim, !.turns = n]
  BY GraphAssumption DEF GraphInv, GraphBoxes
<1> HIDE DEF n
<1>2. v2' \in GraphBoxes
  BY <1>1 DEF GraphInv, GraphBoxes
<1>3. Len(v3'.list) <= Len(v1')
  <2>1. v3.list \in Seq(GraphSensors) /\ v1 \in Seq(GraphSensors)
    BY DEF GraphInv, GraphPayload
  <2>2. Len(v3.list) \in Nat /\ Len(v1) \in Nat /\ Len(v1') \in Nat
    BY <2>1
  <2> QED  BY <2>2 DEF GraphInv
<1> QED  BY <1>2, <1>3 DEF GraphInv

LEMMA GraphChanges ==
  ASSUME GraphInv,
         \/ \E i \in DOMAIN v1 : Graph!CameraTurns([v1 EXCEPT ![i].state = "removed"])
         \/ \E c \in GraphGiven.Added : Graph!CameraTurns(Append(v1, c))
         \/ \E nim \in {"listed", "absent", "unlistable"} : Graph!NimTurns(nim)
  PROVE  GraphInv'
<1>0. v1 \in Seq(GraphSensors) /\ v2.nim \in {"listed", "absent", "unlistable"} /\ Len(v1) \in Nat
  BY DEF GraphInv, GraphBoxes
<1>1. ASSUME NEW list \in Seq(GraphSensors), Len(v1) <= Len(list), Graph!CameraTurns(list)
      PROVE  GraphInv'
  <2>1. /\ v2.turns < GraphGiven.MaxTurns /\ v1' = list /\ v3' = v3 /\ v4' = v4
        /\ v2' = [v2 EXCEPT !.turns = @ + 1]
    BY <1>1 DEF Graph!CameraTurns
  <2> DEFINE nim == v2.nim
             n == v2.turns + 1
  <2>2. v2' = [v2 EXCEPT !.nim = nim, !.turns = @ + 1]
    <3>1. v2' = [v2 EXCEPT !.turns = n]
      BY <2>1
    <3> HIDE DEF n
    <3>2. v2' = [v2 EXCEPT !.nim = nim, !.turns = n]
      BY <3>1 DEF GraphInv, GraphBoxes
    <3> QED  BY <3>2 DEF n
  <2> HIDE DEF nim
  <2>3. nim \in {"listed", "absent", "unlistable"}
    BY <1>0 DEF nim
  <2> QED  BY <1>1, <2>1, <2>2, <2>3, GraphTurnsOver
<1>2. CASE \E i \in DOMAIN v1 : Graph!CameraTurns([v1 EXCEPT ![i].state = "removed"])
  <2>1. PICK i \in DOMAIN v1 : Graph!CameraTurns([v1 EXCEPT ![i].state = "removed"])
    BY <1>2
  <2> DEFINE s == [v1[i] EXCEPT !.state = "removed"]
             list == [v1 EXCEPT ![i] = s]
  <2>2. s \in GraphSensors
    <3>1. v1[i] \in GraphSensors
      BY <1>0
    <3> QED  BY <3>1 DEF GraphSensors
  <2>3. Graph!CameraTurns(list)
    BY <2>1
  <2> HIDE DEF s
  <2>4. list \in Seq(GraphSensors) /\ Len(v1) <= Len(list)
    BY <1>0, <2>2
  <2> HIDE DEF list
  <2> QED  BY <1>1, <2>3, <2>4
<1>3. CASE \E c \in GraphGiven.Added : Graph!CameraTurns(Append(v1, c))
  <2>1. PICK c \in GraphGiven.Added : Graph!CameraTurns(Append(v1, c))
    BY <1>3
  <2> DEFINE list == Append(v1, c)
  <2>2. c \in GraphSensors
    BY GraphAssumption
  <2>3. list \in Seq(GraphSensors) /\ Len(v1) <= Len(list)
    BY <1>0, <2>2
  <2>4. Graph!CameraTurns(list)
    BY <2>1
  <2> HIDE DEF list
  <2> QED  BY <1>1, <2>3, <2>4
<1>4. CASE \E nim \in {"listed", "absent", "unlistable"} : Graph!NimTurns(nim)
  <2>1. PICK nim \in {"listed", "absent", "unlistable"} : Graph!NimTurns(nim)
    BY <1>4
  <2>2. /\ v2.turns < GraphGiven.MaxTurns /\ v1' = v1 /\ v3' = v3 /\ v4' = v4
        /\ v2' = [v2 EXCEPT !.nim = nim, !.turns = @ + 1] /\ Len(v1) <= Len(v1)
    BY <1>0, <2>1 DEF Graph!NimTurns
  <2> QED  BY <1>0, <2>2, GraphTurnsOver
<1> QED  BY <1>2, <1>3, <1>4

LEMMA GraphPoll == ASSUME GraphInv, NEW listed \in BOOLEAN, Graph!Poll(listed) PROVE GraphInv'
<1> DEFINE list == IF listed THEN v1 ELSE <<>>
<1>1. /\ v3' = [list |-> list, box |-> v2, there |-> TRUE]
      /\ v1' = v1 /\ v2' = v2 /\ v4' = v4
  BY DEF Graph!Poll
<1>2. v1 \in Seq(GraphSensors) /\ v2 \in GraphBoxes
  BY DEF GraphInv
<1>5. list \in Seq(GraphSensors) /\ Len(list) <= Len(v1)
  BY <1>2
<1> HIDE DEF list
<1>3. GraphPayload(v3') /\ v3'.list = list
  BY <1>1, <1>2, <1>5 DEF GraphPayload
<1>4. Len(v3'.list) <= Len(v1')
  BY <1>1, <1>3, <1>5
<1> QED  BY <1>1, <1>3, <1>4 DEF GraphInv

LEMMA GraphConnects ==
  ASSUME GraphInv, Graph!Breaks \/ Graph!Reconnects \/ Graph!SnapshotComes
  PROVE  GraphInv'
<1> DEFINE h == [v4 EXCEPT !.es = "none", !.failed = TRUE]
           k == [v4 EXCEPT !.es = "later", !.attempt = @ + 1]
           m == [v4 EXCEPT !.es = "opening"]
           o == [es |-> "open", attempt |-> 0, failed |-> FALSE]
<1>1. v1' = v1 /\ v2' = v2 /\ v3' = v3 /\ GraphConn(v4) /\ 0 \in 0 .. GraphGiven.MaxAttempts
  BY GraphAssumption DEF Graph!Breaks, Graph!Reconnects, Graph!SnapshotComes, GraphInv
<1>2. \/ v4' = h
      \/ v4.attempt < GraphGiven.MaxAttempts /\ v4' = k
      \/ v4' = m \/ v4' = o
  <2> DEFINE n == v4.attempt
  <2>1. n \in Nat
    BY <1>1 DEF GraphConn
  <2>2. \/ v4' = IF n >= GraphGiven.MaxAttempts THEN h ELSE k
        \/ v4' = m \/ v4' = o
    BY DEF Graph!Breaks, Graph!Reconnects, Graph!SnapshotComes
  <2> HIDE DEF h, k, m, o, n
  <2>3. ~(n >= GraphGiven.MaxAttempts) => n < GraphGiven.MaxAttempts
    BY <2>1, GraphAssumption
  <2> QED  BY <2>2, <2>3 DEF n
<1>3. GraphConn(h)
  BY <1>1 DEF GraphConn
<1>4. ASSUME v4.attempt < GraphGiven.MaxAttempts PROVE GraphConn(k)
  <2> DEFINE n == v4.attempt + 1
  <2>1. n \in 0 .. GraphGiven.MaxAttempts /\ k = [v4 EXCEPT !.es = "later", !.attempt = n]
    BY <1>1, <1>4, GraphAssumption DEF GraphConn
  <2> HIDE DEF n, k
  <2> QED  BY <1>1, <2>1 DEF GraphConn
<1>5. GraphConn(m)
  BY <1>1 DEF GraphConn
<1>6. GraphConn(o)
  BY <1>1 DEF GraphConn
<1> HIDE DEF h, k, m, o
<1>7. GraphConn(v4')
  BY <1>2, <1>3, <1>4, <1>5, <1>6
<1> QED  BY <1>1, <1>7 DEF GraphInv

LEMMA GraphStep == ASSUME GraphInv, [Graph!Next]_(Graph!vars) PROVE GraphInv'
<1>1. CASE UNCHANGED Graph!vars
  <2>1. v1' = v1 /\ v2' = v2 /\ v3' = v3 /\ v4' = v4
    BY <1>1 DEF Graph!vars
  <2> QED  BY <2>1 DEF GraphInv
<1>2. CASE Graph!Next
  <2>1. CASE Graph!ResetLayout
             \/ \E n \in {<<"sensor", 0>>, <<"kafka", 0>>, <<"feed", 1>>} : Graph!Drag(n)
    <3>1. v1' = v1 /\ v2' = v2 /\ v3' = v3 /\ v4' = v4
      BY <2>1 DEF Graph!ResetLayout, Graph!Drag
    <3> QED  BY <3>1 DEF GraphInv
  <2> QED  BY <1>2, <2>1, GraphChanges, GraphPoll, GraphConnects DEF Graph!Next
<1> QED  BY <1>1, <1>2

(* A camera has one node, whatever VST keeps of it.                        *)
LEMMA FeedsAreOnce ==
  ASSUME NEW list \in Seq(GraphSensors)
  PROVE  LET feeds == Graph!Feeds(list)
         IN /\ \A i, j \in feeds : list[i].name = list[j].name => i = j
            /\ \A i \in Graph!Live(list) : \E j \in feeds :
                 /\ list[j].name = list[i].name
                 /\ list[i].state = "online" => list[j].state = "online"
<1> DEFINE same(x) == Graph!Named(list, x)
           online(x) == {j \in same(x) : list[j].state = "online"}
           pick(x) == IF online(x) # {} THEN Graph!Least(online(x)) ELSE Graph!Greatest(same(x))
<1>1. \A i : i \in Graph!Feeds(list) <=> i \in Graph!Live(list) /\ i = pick(list[i].name)
  BY DEF Graph!Feeds
<1>2. \A x : same(x) \in SUBSET (1 .. Len(list)) /\ \A j \in same(x) : list[j].name = x
  BY DEF Graph!Named, Graph!Live
<1>3. ASSUME NEW x, same(x) # {}
      PROVE  pick(x) \in same(x) /\ (online(x) # {} => pick(x) \in online(x))
  <2> DEFINE S == same(x)
             T == online(x)
  <2>1. Len(list) \in Nat /\ S \in SUBSET (1 .. Len(list)) /\ T \subseteq S /\ S # {}
    BY <1>2, <1>3
  <2> HIDE DEF S, T
  <2>2. ASSUME T # {} PROVE Graph!Least(T) \in T
    <3>1. T \in SUBSET Nat
      BY <2>1
    <3>2. \E k \in T : \A j \in T : k <= j
      BY <2>2, <3>1, SmallestIn
    <3> QED  BY <3>2 DEF Graph!Least
  <2>3. Graph!Greatest(S) \in S
    <3> DEFINE N == Len(list)
               R == {N - i : i \in S}
    <3>0. \A i \in S : N - i \in Nat
      <4> SUFFICES ASSUME NEW i \in S PROVE N - i \in Nat
        OBVIOUS
      <4>1. i \in 1 .. N /\ N \in Nat
        BY <2>1
      <4> QED  BY <4>1
    <3>1. R \in SUBSET Nat /\ R # {}
      <4> HIDE DEF N
      <4> QED  BY <2>1, <3>0
    <3>2. PICK k \in R : \A j \in R : k <= j
      <4> HIDE DEF R, N
      <4> QED  BY <3>1, SmallestIn
    <3>3. PICK m \in S : k = N - m
      BY <3>2
    <3>4. \A i \in S : i <= m
      <4> SUFFICES ASSUME NEW i \in S PROVE i <= m
        OBVIOUS
      <4>1. N - i \in R
        OBVIOUS
      <4>2. k <= N - i
        BY <3>2, <4>1
      <4> QED  BY <2>1, <3>3, <4>2
    <3> QED  BY <3>4 DEF Graph!Greatest
  <2> QED  BY <2>1, <2>2, <2>3 DEF S, T
<1>4. \A i \in Graph!Live(list) : i \in same(list[i].name)
  BY DEF Graph!Named
<1> HIDE DEF pick
<1>5. ASSUME NEW i \in Graph!Feeds(list), NEW j \in Graph!Feeds(list), list[i].name = list[j].name
      PROVE  i = j
  BY <1>1, <1>5
<1>6. ASSUME NEW i \in Graph!Live(list)
      PROVE  \E j \in Graph!Feeds(list) :
               /\ list[j].name = list[i].name
               /\ list[i].state = "online" => list[j].state = "online"
  <2> DEFINE x == list[i].name
             j == pick(x)
  <2>1. i \in same(x)
    BY <1>4
  <2>2. j \in same(x) /\ (online(x) # {} => j \in online(x))
    BY <1>3, <2>1
  <2>3. list[j].name = x
    BY <1>2, <2>2
  <2>4. j \in Graph!Feeds(list)
    <3>1. j \in Graph!Live(list)
      BY <2>2 DEF Graph!Named
    <3> HIDE DEF j
    <3> QED  BY <1>1, <2>3, <3>1 DEF j
  <2>5. list[i].state = "online" => list[j].state = "online"
    BY <2>1, <2>2
  <2> QED  BY <2>3, <2>4, <2>5
<1> QED  BY <1>5, <1>6

LEMMA GraphPromise ==
  GraphInv => Graph!TypeOK /\ Graph!NeverBlind /\ Graph!CamerasOnce /\ Graph!NoDanglingEdge
<1> SUFFICES ASSUME GraphInv
             PROVE  Graph!TypeOK /\ Graph!NeverBlind /\ Graph!CamerasOnce /\ Graph!NoDanglingEdge
  OBVIOUS
<1>1. Graph!NeverBlind
  BY DEF GraphInv, GraphConn, Graph!NeverBlind
<1>2. Graph!CamerasOnce
  <2> DEFINE list == v3.list
  <2>1. list \in Seq(GraphSensors)
    BY DEF GraphInv, GraphPayload
  <2> HIDE DEF list
  <2> QED  BY <2>1, FeedsAreOnce DEF Graph!CamerasOnce, list
<1>3. Graph!TypeOK
  <2>1. \A i \in DOMAIN v1 : v1[i].state \in {"online", "offline", "removed"}
    <3> SUFFICES ASSUME NEW i \in DOMAIN v1
                 PROVE  v1[i].state \in {"online", "offline", "removed"}
      OBVIOUS
    <3>1. v1 \in Seq(GraphSensors)
      BY DEF GraphInv
    <3>2. v1[i] \in GraphSensors
      BY <3>1
    <3> QED  BY <3>2 DEF GraphSensors
  <2> QED  BY <2>1 DEF Graph!TypeOK, GraphInv, GraphBoxes, GraphPayload, GraphConn
<1>4. Graph!NoDanglingEdge
  <2> SUFFICES ASSUME NEW e \in Graph!Edges(v3)
               PROVE  /\ e[1] \in Graph!Nodes(v3) \union {<<"console", 0>>}
                      /\ e[2] \in Graph!Nodes(v3)
    BY DEF Graph!NoDanglingEdge
  <2> DEFINE absent == Graph!Absent(v3.box)
             here == Graph!Present(v3)
  <2>0. \A c \in here : <<c, 0>> \in Graph!Nodes(v3)
    BY DEF Graph!Nodes
  <2>1. ASSUME NEW d \in Graph!StaticEdges, d[1] \notin absent, d[2] \notin absent,
               e = <<<<d[1], 0>>, <<d[2], 0>>>>
        PROVE  /\ e[1] \in Graph!Nodes(v3) \union {<<"console", 0>>}
               /\ e[2] \in Graph!Nodes(v3)
    <3>1. /\ d[1] \in DOMAIN Graph!Components \union {"console"}
          /\ d[2] \in DOMAIN Graph!Components
      <4> HIDE DEF absent
      <4> QED  BY DEF Graph!StaticEdges, Graph!Components
    <3>2. d[1] \in here \union {"console"} /\ d[2] \in here
      BY <2>1, <3>1 DEF Graph!Present
    <3> HIDE DEF here
    <3>3. e[1] = <<d[1], 0>> /\ e[2] = <<d[2], 0>>
      BY <2>1
    <3> QED  BY <2>0, <3>2, <3>3
  <2>2. CASE \E n \in Graph!FeedNodes(v3) :
               e = <<n, <<IF v3.box.sim THEN "mediamtx" ELSE "sensor", 0>>>>
    <3> DEFINE c == IF v3.box.sim THEN "mediamtx" ELSE "sensor"
    <3>1. PICK n \in Graph!FeedNodes(v3) : e = <<n, <<c, 0>>>>
      BY <2>2
    <3>2. "mediamtx" \in DOMAIN Graph!Components /\ "sensor" \in DOMAIN Graph!Components
      BY DEF Graph!Components
    <3>3. c \notin absent
      BY DEF Graph!Absent
    <3>4. c \in here
      <4> HIDE DEF absent
      <4> QED  BY <3>2, <3>3 DEF Graph!Present, absent
    <3> HIDE DEF c, absent, here
    <3>5. e[1] = n /\ e[2] = <<c, 0>>
      BY <3>1
    <3> QED  BY <2>0, <3>4, <3>5 DEF Graph!Nodes
  <2> QED  BY <2>1, <2>2 DEF Graph!Edges
<1> QED  BY <1>1, <1>2, <1>3, <1>4

--------------------------------------------------------------------------------
(* The layout (app/topology, applyFlowLayout).                             *)
LEMMA GraphCounts == \A S : Graph!Cardinality(S) = Cardinality(S)
BY DEF Graph!Cardinality, Cardinality

(* Two of a finite set that is put in an order have different places.      *)
LEMMA PlacesDiffer ==
  ASSUME NEW S, IsFiniteSet(S), NEW R,
         \A a \in S : <<a, a>> \notin R,
         \A a, b \in S : a # b => <<a, b>> \in R \/ <<b, a>> \in R,
         \A a, b, c \in S : <<a, b>> \in R /\ <<b, c>> \in R => <<a, c>> \in R,
         NEW x \in S, NEW y \in S, x # y
  PROVE  Cardinality({a \in S : <<a, x>> \in R}) # Cardinality({a \in S : <<a, y>> \in R})
<1> DEFINE Below(z) == {a \in S : <<a, z>> \in R}
<1>1. ASSUME NEW u \in S, NEW w \in S, <<u, w>> \in R
      PROVE  Cardinality(Below(u)) # Cardinality(Below(w))
  <2>1. /\ Below(u) \in SUBSET Below(w) /\ Below(w) \in SUBSET S
        /\ u \in Below(w) /\ u \notin Below(u)
    BY <1>1
  <2> HIDE DEF Below
  <2>2. IsFiniteSet(Below(w))
    BY <2>1, FS_Subset
  <2>3. Cardinality(Below(w)) = Cardinality(Below(u)) => Below(w) = Below(u)
    BY <2>1, <2>2, FS_Subset
  <2> QED  BY <2>1, <2>3
<1>2. <<x, y>> \in R \/ <<y, x>> \in R
  OBVIOUS
<1>3. Cardinality(Below(x)) # Cardinality(Below(y))
  <2> HIDE DEF Below
  <2> QED  BY <1>1, <1>2
<1> QED  BY <1>3

(* Numbers in a row of that many columns: no two in one place.             *)
LEMMA GridSeparates ==
  ASSUME NEW c \in Nat \ {0}, NEW k \in Nat, NEW l \in Nat,
         k % c = l % c, k \div c = l \div c
  PROVE  k = l
<1>1. k = c * (k \div c) + (k % c) /\ l = c * (l \div c) + (l % c)
  OBVIOUS
<1> QED  BY <1>1

LEMMA RootIs == ASSUME NEW n \in Nat \ {0} PROVE Graph!RoundedRoot(n) \in 0 .. n
<1> DEFINE T == {k \in Nat : 4 * n < (2 * k + 1) * (2 * k + 1)}
           Is(k) == /\ (2 * k - 1) * (2 * k - 1) <= 4 * n
                    /\ 4 * n < (2 * k + 1) * (2 * k + 1)
<1>1. n \in T
  <2>1. (2 * n + 1) * (2 * n + 1) = 4 * (n * n) + 4 * n + 1 /\ n * n \in Nat
    OBVIOUS
  <2> QED  BY <2>1
<1>2. PICK k \in T : \A j \in T : k <= j
  <2>1. T \in SUBSET Nat /\ T # {}
    BY <1>1
  <2> HIDE DEF T
  <2> QED  BY <2>1, SmallestIn
<1>3. k \in 0 .. n
  BY <1>1, <1>2
<1>4. k # 0
  BY <1>2
<1>5. k - 1 \in Nat /\ k - 1 \notin T
  <2>1. k - 1 \in Nat /\ ~(k <= k - 1)
    BY <1>3, <1>4
  <2> HIDE DEF T
  <2> QED  BY <1>2, <2>1
<1>6. 2 * (k - 1) + 1 = 2 * k - 1
  BY <1>3
<1>7. Is(k)
  <2> DEFINE m == 2 * k - 1
  <2>1. m \in Int /\ ~(4 * n < m * m) /\ 4 * n < (2 * k + 1) * (2 * k + 1)
    BY <1>2, <1>3, <1>5, <1>6
  <2>2. m * m \in Int
    BY <2>1
  <2> DEFINE mm == m * m
  <2>3. mm <= 4 * n
    <3> HIDE DEF mm
    <3> QED  BY <2>1, <2>2 DEF mm
  <2> QED  BY <2>1, <2>3
<1> HIDE DEF Is
<1>8. Is(CHOOSE j \in 0 .. n : Is(j)) /\ (CHOOSE j \in 0 .. n : Is(j)) \in 0 .. n
  BY <1>3, <1>7
<1> QED  BY <1>8 DEF Graph!RoundedRoot, Is

LEMMA ColumnsAre ==
  ASSUME NEW n \in Nat
  PROVE  /\ Graph!Columns(n) \in Nat /\ (n # 0 => Graph!Columns(n) # 0)
         /\ Graph!LaneWidth(n) \in Nat
         /\ n # 0 => Graph!LaneWidth(n) = Graph!Columns(n) * 132 + 80
<1> DEFINE r == Graph!RoundedRoot(n)
           c == IF n = 0 THEN 0 ELSE IF r < 2 THEN 2 ELSE r
<1>1. n # 0 => r \in 0 .. n
  BY RootIs
<1> HIDE DEF r
<1>2. c \in Nat /\ (n # 0 => c # 0) /\ (n = 0 => c = 0)
  BY <1>1
<1>3. Graph!Columns(n) = c
  BY DEF Graph!Columns, r
<1> HIDE DEF c
<1>4. Graph!LaneWidth(n) = IF n = 0 THEN 0 ELSE c * 132 + 80
  BY <1>3 DEF Graph!LaneWidth
<1> QED  BY <1>2, <1>3, <1>4

(* The components, by their number in the list.                            *)
Authored == <<"camera_sim", "mediamtx", "sensor", "streamprocessing", "rtvi_vlm", "nim", "kafka",
              "analytics", "agent", "s3", "cache", "postgres", "redis">>

LEMMA AuthoredAre ==
  /\ IsFiniteSet(DOMAIN Graph!Components)
  /\ \A c \in DOMAIN Graph!Components :
       /\ Graph!Components[c][2] \in Int /\ Graph!Components[c][3] \in 1 .. 13
       /\ Authored[Graph!Components[c][3]] = c
<1>1. \A c \in DOMAIN Graph!Components :
        /\ Graph!Components[c][2] \in Int /\ Graph!Components[c][3] \in 1 .. 13
        /\ Authored[Graph!Components[c][3]] = c
  BY DEF Graph!Components, Authored
<1>2. IsFiniteSet(DOMAIN Graph!Components)
  <2> DEFINE D == DOMAIN Graph!Components
             f == [c \in D |-> Graph!Components[c][3]]
  <2>1. f \in Injection(D, 1 .. 13)
    <3>1. f \in [D -> 1 .. 13] /\ \A a, b \in D : f[a] = f[b] => a = b
      <4> HIDE DEF D
      <4> QED  BY <1>1 DEF D
    <3> HIDE DEF D, f
    <3> QED  BY <3>1 DEF Injection, IsInjective
  <2>2. IsFiniteSet(1 .. 13)
    <3> DEFINE last == 13
    <3>1. last \in Int
      OBVIOUS
    <3> HIDE DEF last
    <3>2. IsFiniteSet(1 .. last)
      BY <3>1, FS_Interval
    <3> QED  BY <3>2 DEF last
  <2> HIDE DEF D, f
  <2> QED  BY <2>1, <2>2, FS_Injection DEF D
<1> QED  BY <1>1, <1>2

LEMMA NodesFinite ==
  ASSUME NEW p, p.list \in Seq(GraphSensors)
  PROVE  /\ \A n \in Graph!FeedNodes(p) : n = <<"feed", n[2]>> /\ n[2] \in Nat
         /\ IsFiniteSet(Graph!FeedNodes(p)) /\ IsFiniteSet(Graph!Nodes(p))
<1> DEFINE list == p.list
           S == Graph!Feeds(list)
           C == Graph!Present(p)
           f == [i \in S |-> <<"feed", i>>]
           g == [c \in C |-> <<c, 0>>]
           Here == {<<c, 0>> : c \in C}
<1>1. S \subseteq 1 .. Len(list) /\ Len(list) \in Nat
  BY DEF Graph!Feeds, Graph!Live
<1>2. IsFiniteSet(S)
  <2>1. IsFiniteSet(1 .. Len(list))
    BY <1>1, FS_Interval
  <2> HIDE DEF S
  <2> QED  BY <1>1, <2>1, FS_Subset
<1>3. IsFiniteSet(C)
  <2>1. C \subseteq DOMAIN Graph!Components
    BY DEF Graph!Present
  <2> HIDE DEF C
  <2> QED  BY <2>1, AuthoredAre, FS_Subset
<1>4. Graph!FeedNodes(p) = {<<"feed", i>> : i \in S}
  BY DEF Graph!FeedNodes
<1>5. f \in Surjection(S, Graph!FeedNodes(p))
  <2> HIDE DEF S
  <2>1. f \in [S -> Graph!FeedNodes(p)] /\ \A n \in Graph!FeedNodes(p) : \E i \in S : f[i] = n
    BY <1>4
  <2> HIDE DEF f
  <2> QED  BY <2>1 DEF Surjection
<1>6. g \in Surjection(C, Here)
  <2> HIDE DEF C
  <2>1. g \in [C -> Here] /\ \A n \in Here : \E c \in C : g[c] = n
    OBVIOUS
  <2> HIDE DEF g, Here
  <2> QED  BY <2>1 DEF Surjection
<1>7. Graph!Nodes(p) = Here \union Graph!FeedNodes(p)
  BY DEF Graph!Nodes
<1>8. \A n \in Graph!FeedNodes(p) : n = <<"feed", n[2]>> /\ n[2] \in Nat
  <2> HIDE DEF S
  <2> QED  BY <1>1, <1>4
<1> HIDE DEF S, C, f, g, Here
<1>9. IsFiniteSet(Graph!FeedNodes(p)) /\ IsFiniteSet(Here)
  BY <1>2, <1>3, <1>5, <1>6, FS_Surjection
<1> QED  BY <1>7, <1>8, <1>9, FS_Union

LEMMA StagesAre ==
  ASSUME NEW p, p.list \in Seq(GraphSensors), NEW n \in Graph!Nodes(p)
  PROVE  Graph!Stages(p)[n] \in Nat
<1> DEFINE N == Graph!Nodes(p)
           xs == {Graph!Across(p, m) : m \in N}
           bucket == [m \in N |-> (Graph!Across(p, m) - Graph!Least(xs) + 100) \div 200]
           B == Graph!Range(bucket)
           less == {b \in B : b < bucket[n]}
<1>1. IsFiniteSet(N)
  BY NodesFinite
<1>2. bucket \in Surjection(N, B)
  <2> HIDE DEF N, xs
  <2>1. DOMAIN bucket = N /\ B = {bucket[m] : m \in N}
    BY DEF Graph!Range
  <2>2. bucket \in [N -> B] /\ \A b \in B : \E m \in N : bucket[m] = b
    <3>1. bucket = [m \in N |-> bucket[m]]
      OBVIOUS
    <3> HIDE DEF bucket, B
    <3> QED  BY <2>1, <3>1
  <2> HIDE DEF bucket, B
  <2> QED  BY <2>2 DEF Surjection
<1>3. Graph!Stages(p)[n] = Graph!Cardinality(less)
  BY DEF Graph!Stages
<1>4. less \in SUBSET B
  OBVIOUS
<1> HIDE DEF N, bucket, B, less
<1>5. IsFiniteSet(B)
  BY <1>1, <1>2, FS_Surjection
<1>6. IsFiniteSet(less)
  BY <1>4, <1>5, FS_Subset
<1>7. Cardinality(less) \in Nat
  BY <1>6, FS_CardinalityType
<1> QED  BY <1>3, <1>7, GraphCounts

(* The cameras' block: each camera that is not placed by hand, no two in   *)
(* one place, and all left of the pipeline.                                *)
LEMMA FeedsArePlaced ==
  ASSUME GraphInv
  PROVE  /\ {a[1] : a \in Graph!FeedPlaces(v3)} = Graph!FeedNodes(v3) \ v5
         /\ \A a, b \in Graph!FeedPlaces(v3) : a[1] # b[1] => <<a[2], a[3]>> # <<b[2], b[3]>>
         /\ \A a \in Graph!FeedPlaces(v3) :
              /\ a[2] \in Int
              /\ a[2] < 2 * (40 + Graph!LaneWidth(Graph!Cardinality(Graph!FeedNodes(v3) \ v5)))
<1> DEFINE S == Graph!FeedNodes(v3) \ v5
           size == Graph!Cardinality(S)
           cols == Graph!Columns(size)
           rows == Graph!Ceil(size, cols)
           R == {u \in S \X S : u[1][2] < u[2][2]}
           nth(n) == Graph!Cardinality({m \in S : m[2] < n[2]})
           x(k) == 2 * (40 + (k % cols) * 132)
           y(k) == 2 * 320 - (rows - 1) * 72 + 2 * (k \div cols) * 72
           place(n) == <<n, x(nth(n)), y(nth(n))>>
<1>1. v3.list \in Seq(GraphSensors)
  BY DEF GraphInv, GraphPayload
<1>2. IsFiniteSet(S) /\ \A n \in S : n = <<"feed", n[2]>> /\ n[2] \in Nat
  <2>1. IsFiniteSet(Graph!FeedNodes(v3)) /\ S \subseteq Graph!FeedNodes(v3)
    BY <1>1, NodesFinite
  <2>2. \A n \in Graph!FeedNodes(v3) : n = <<"feed", n[2]>> /\ n[2] \in Nat
    BY <1>1, NodesFinite
  <2> HIDE DEF S
  <2> QED  BY <2>1, <2>2, FS_Subset
<1>3. Graph!FeedPlaces(v3) = {place(n) : n \in S}
  BY DEF Graph!FeedPlaces
<1> HIDE DEF S
<1>4. size \in Nat /\ (S # {} => size # 0)
  BY <1>2, GraphCounts, FS_CardinalityType, FS_EmptySet
<1>5. cols \in Nat /\ Graph!LaneWidth(size) \in Nat
      /\ (S # {} => cols # 0 /\ Graph!LaneWidth(size) = cols * 132 + 80)
  <2> HIDE DEF size
  <2> QED  BY <1>4, ColumnsAre
<1> HIDE DEF size, cols, R
<1>6. \A n \in S : nth(n) \in Nat
  <2> SUFFICES ASSUME NEW n \in S PROVE nth(n) \in Nat
    OBVIOUS
  <2> DEFINE T == {m \in S : m[2] < n[2]}
  <2>1. T \in SUBSET S
    OBVIOUS
  <2>2. nth(n) = Cardinality(T)
    BY GraphCounts
  <2> HIDE DEF T
  <2> QED  BY <1>2, <2>1, <2>2, FS_Subset, FS_CardinalityType
<1>7. ASSUME NEW m \in S, NEW n \in S, m # n PROVE nth(m) # nth(n)
  <2>1. \A z \in S : nth(z) = Cardinality({a \in S : <<a, z>> \in R})
    <3> SUFFICES ASSUME NEW z \in S PROVE nth(z) = Cardinality({a \in S : <<a, z>> \in R})
      OBVIOUS
    <3>1. {a \in S : a[2] < z[2]} = {a \in S : <<a, z>> \in R}
      BY DEF R
    <3> QED  BY <3>1, GraphCounts
  <2>2. \A a, b \in S : <<a, b>> \in R <=> a[2] < b[2]
    BY DEF R
  <2>3. \A a, b \in S : a # b => a[2] # b[2]
    BY <1>2
  <2>4. /\ \A a \in S : <<a, a>> \notin R
        /\ \A a, b \in S : a # b => <<a, b>> \in R \/ <<b, a>> \in R
        /\ \A a, b, c \in S : <<a, b>> \in R /\ <<b, c>> \in R => <<a, c>> \in R
    BY <1>2, <2>2, <2>3
  <2>5. Cardinality({a \in S : <<a, m>> \in R}) # Cardinality({a \in S : <<a, n>> \in R})
    BY <1>2, <1>7, <2>4, PlacesDiffer
  <2> HIDE DEF nth
  <2> QED  BY <2>1, <2>5
<1> HIDE DEF nth
<1>8. ASSUME cols # 0, NEW k \in Nat
      PROVE  /\ k % cols \in 0 .. cols - 1 /\ k \div cols \in Int /\ rows \in Int
             /\ x(k) \in Int /\ x(k) < 2 * (40 + cols * 132 + 80)
  <2>1. k % cols \in 0 .. cols - 1 /\ k \div cols \in Int
    BY <1>5, <1>8
  <2>2. rows \in Int
    BY <1>4, <1>5, <1>8 DEF Graph!Ceil
  <2> DEFINE c == k % cols
  <2>3. x(k) = 2 * (40 + c * 132)
    OBVIOUS
  <2> HIDE DEF c, x
  <2> QED  BY <1>5, <2>1, <2>2, <2>3 DEF c
<1>9. ASSUME cols # 0, NEW k \in Nat, NEW l \in Nat, x(k) = x(l), y(k) = y(l) PROVE k = l
  <2> DEFINE c == k % cols
             d == l % cols
             e == k \div cols
             f == l \div cols
  <2>1. c \in Int /\ d \in Int /\ e \in Int /\ f \in Int /\ rows \in Int
    BY <1>8, <1>9
  <2>2. /\ 2 * (40 + c * 132) = 2 * (40 + d * 132)
        /\ 2 * 320 - (rows - 1) * 72 + 2 * e * 72 = 2 * 320 - (rows - 1) * 72 + 2 * f * 72
    BY <1>9
  <2> HIDE DEF c, d, e, f, rows, x, y
  <2>3. c = d /\ e = f
    BY <2>1, <2>2
  <2> QED  BY <1>5, <1>9, <2>3, GridSeparates DEF c, d, e, f
<1> HIDE DEF x, y, rows
<1>10. {a[1] : a \in Graph!FeedPlaces(v3)} = S
  <2>1. \A n \in S : place(n)[1] = n
    OBVIOUS
  <2> HIDE DEF place
  <2> QED  BY <1>3, <2>1
<1>11. ASSUME NEW a \in Graph!FeedPlaces(v3), NEW b \in Graph!FeedPlaces(v3), a[1] # b[1]
       PROVE  <<a[2], a[3]>> # <<b[2], b[3]>>
  <2>1. PICK m \in S : a = place(m)
    BY <1>3
  <2>2. PICK n \in S : b = place(n)
    BY <1>3
  <2>3. /\ a[1] = m /\ a[2] = x(nth(m)) /\ a[3] = y(nth(m))
        /\ b[1] = n /\ b[2] = x(nth(n)) /\ b[3] = y(nth(n))
    BY <2>1, <2>2
  <2>4. nth(m) # nth(n) /\ nth(m) \in Nat /\ nth(n) \in Nat /\ cols # 0
    BY <1>5, <1>6, <1>7, <1>11, <2>3
  <2>5. ~(x(nth(m)) = x(nth(n)) /\ y(nth(m)) = y(nth(n)))
    BY <1>9, <2>4
  <2> QED  BY <2>3, <2>5
<1>12. ASSUME NEW a \in Graph!FeedPlaces(v3)
       PROVE  a[2] \in Int /\ a[2] < 2 * (40 + Graph!LaneWidth(size))
  <2>1. PICK m \in S : a = place(m)
    BY <1>3
  <2>2. a[2] = x(nth(m)) /\ nth(m) \in Nat /\ cols # 0
        /\ Graph!LaneWidth(size) = cols * 132 + 80
    BY <1>5, <1>6, <2>1
  <2>3. x(nth(m)) \in Int /\ x(nth(m)) < 2 * (40 + cols * 132 + 80)
    BY <1>8, <2>2
  <2>4. 40 + cols * 132 + 80 = 40 + (cols * 132 + 80)
    BY <1>5
  <2> QED  BY <2>2, <2>3, <2>4
<1> QED  BY <1>10, <1>11, <1>12 DEF S, size

(* The pipeline's columns: each component that is there and not placed by  *)
(* hand, no two in one place, and all right of the cameras' lane.          *)
LEMMA PipelineIsPlaced ==
  ASSUME GraphInv
  PROVE  /\ {a[1] : a \in Graph!PipelinePlaces(v3)}
            = Graph!Nodes(v3) \ (Graph!FeedNodes(v3) \union v5)
         /\ \A a, b \in Graph!PipelinePlaces(v3) : a[1] # b[1] => <<a[2], a[3]>> # <<b[2], b[3]>>
         /\ \A a \in Graph!PipelinePlaces(v3) :
              /\ a[2] \in Int
              /\ 2 * (40 + Graph!LaneWidth(Graph!Cardinality(Graph!FeedNodes(v3) \ v5))) <= a[2]
<1> DEFINE auto == Graph!Nodes(v3) \ (Graph!FeedNodes(v3) \union v5)
           stage == Graph!Stages(v3)
           stages == {stage[n] : n \in auto}
           left == Graph!LaneWidth(Graph!Cardinality(Graph!FeedNodes(v3) \ v5))
           Column(n) == {m \in auto : stage[m] = stage[n]}
           col(n) == Graph!Cardinality({t \in stages : t < stage[n]})
           row(n) == Graph!Cardinality({m \in Column(n) : Graph!Above(m, n)})
           size(n) == Graph!Cardinality(Column(n))
           x(n) == 2 * (40 + left + col(n) * 248)
           y(n) == 2 * 320 + (2 * row(n) - (size(n) - 1)) * 168
           place(n) == <<n, x(n), y(n)>>
<1>1. v3.list \in Seq(GraphSensors)
  BY DEF GraphInv, GraphPayload
<1>2. left \in Nat
  <2> DEFINE S == Graph!FeedNodes(v3) \ v5
             k == Graph!Cardinality(S)
  <2>1. S \subseteq Graph!FeedNodes(v3) /\ IsFiniteSet(Graph!FeedNodes(v3))
    BY <1>1, NodesFinite
  <2> HIDE DEF S
  <2>2. k \in Nat
    BY <2>1, FS_Subset, FS_CardinalityType, GraphCounts
  <2> HIDE DEF k
  <2> QED  BY <2>2, ColumnsAre DEF S, k
<1>3. IsFiniteSet(auto) /\ \A n \in auto : stage[n] \in Nat
  <2>1. auto \subseteq Graph!Nodes(v3)
    OBVIOUS
  <2>2. IsFiniteSet(Graph!Nodes(v3))
    BY <1>1, NodesFinite
  <2>3. \A n \in Graph!Nodes(v3) : stage[n] \in Nat
    BY <1>1, StagesAre
  <2> HIDE DEF auto, stage
  <2> QED  BY <2>1, <2>2, <2>3, FS_Subset
<1>4. \A n \in auto : n[1] \in DOMAIN Graph!Components /\ n = <<n[1], 0>>
  BY DEF Graph!Nodes, Graph!Present
<1>5. Graph!PipelinePlaces(v3) = {place(n) : n \in auto}
  BY DEF Graph!PipelinePlaces
<1> HIDE DEF auto, stage, left
<1>6. IsFiniteSet(stages) /\ stages \subseteq Nat
  <2> DEFINE f == [n \in auto |-> stage[n]]
  <2>1. f \in [auto -> stages] /\ \A t \in stages : \E n \in auto : f[n] = t
    OBVIOUS
  <2>2. stages \subseteq Nat
    BY <1>3
  <2> HIDE DEF f, stages
  <2>3. f \in Surjection(auto, stages)
    BY <2>1 DEF Surjection
  <2> QED  BY <1>3, <2>2, <2>3, FS_Surjection
<1>7. \A n \in auto : Column(n) \in SUBSET auto /\ IsFiniteSet(Column(n)) /\ n \in Column(n)
  <2> SUFFICES ASSUME NEW n \in auto
               PROVE  Column(n) \in SUBSET auto /\ IsFiniteSet(Column(n)) /\ n \in Column(n)
    OBVIOUS
  <2>1. Column(n) \in SUBSET auto /\ n \in Column(n)
    OBVIOUS
  <2> HIDE DEF Column
  <2> QED  BY <1>3, <2>1, FS_Subset
<1>8. \A n \in auto : size(n) \in Nat
  <2> HIDE DEF Column
  <2> QED  BY <1>7, FS_CardinalityType, GraphCounts
<1>9. \A n \in auto : col(n) \in Nat
  <2> SUFFICES ASSUME NEW n \in auto PROVE col(n) \in Nat
    OBVIOUS
  <2> DEFINE T == {t \in stages : t < stage[n]}
  <2>1. T \in SUBSET stages
    OBVIOUS
  <2> HIDE DEF T, stages
  <2>2. IsFiniteSet(T)
    BY <1>6, <2>1, FS_Subset
  <2> QED  BY <2>2, FS_CardinalityType, GraphCounts DEF T
<1>10. \A n \in auto : row(n) \in Nat
  <2> SUFFICES ASSUME NEW n \in auto PROVE row(n) \in Nat
    OBVIOUS
  <2> DEFINE T == {m \in Column(n) : Graph!Above(m, n)}
  <2>1. T \in SUBSET Column(n)
    OBVIOUS
  <2> HIDE DEF T, Column
  <2>2. IsFiniteSet(T)
    BY <1>7, <2>1, FS_Subset
  <2> QED  BY <2>2, FS_CardinalityType, GraphCounts DEF T
<1>11. ASSUME NEW m \in auto, NEW n \in auto, stage[m] # stage[n]
       PROVE  col(m) # col(n)
  <2> DEFINE R == {u \in stages \X stages : u[1] < u[2]}
             s == stage[m]
             t == stage[n]
  <2>1. s \in stages /\ t \in stages /\ s # t
    BY <1>11
  <2> HIDE DEF stages
  <2>2. \A a, b \in stages : <<a, b>> \in R <=> a < b
    OBVIOUS
  <2>3. \A z \in stages : {a \in stages : a < z} = {a \in stages : <<a, z>> \in R}
    BY <2>2
  <2>4. /\ \A a \in stages : <<a, a>> \notin R
        /\ \A a, b \in stages : a # b => <<a, b>> \in R \/ <<b, a>> \in R
        /\ \A a, b, c \in stages : <<a, b>> \in R /\ <<b, c>> \in R => <<a, c>> \in R
    BY <1>6, <2>2
  <2>5. IsFiniteSet(stages)
    BY <1>6
  <2> HIDE DEF R, s, t
  <2>6. Cardinality({a \in stages : <<a, s>> \in R})
        # Cardinality({a \in stages : <<a, t>> \in R})
    BY <2>1, <2>4, <2>5, PlacesDiffer, SMTT(60)
  <2>7. Cardinality({a \in stages : a < s}) # Cardinality({a \in stages : a < t})
    BY <2>1, <2>3, <2>6
  <2> QED  BY <2>7, GraphCounts DEF s, t
<1>12. ASSUME NEW m \in auto, NEW n \in auto, stage[m] = stage[n], m # n
       PROVE  size(m) = size(n) /\ row(m) # row(n)
  <2> DEFINE C == Column(n)
             R == {u \in C \X C : Graph!Above(u[1], u[2])}
             high(a) == Graph!Components[a[1]][2]
             turn(a) == Graph!Components[a[1]][3]
  <2>1. Column(m) = C /\ size(m) = size(n)
    BY <1>12
  <2>2. C \in SUBSET auto /\ IsFiniteSet(C) /\ m \in C /\ n \in C
    BY <1>7, <2>1
  <2> HIDE DEF C
  <2>3. \A a, b \in C : <<a, b>> \in R <=> Graph!Above(a, b)
    OBVIOUS
  <2>4. \A a, b \in C :
          Graph!Above(a, b) <=> high(a) < high(b) \/ (high(a) = high(b) /\ turn(a) < turn(b))
    BY DEF Graph!Above
  <2>5. \A a \in C :
          high(a) \in Int /\ turn(a) \in Int /\ Authored[turn(a)] = a[1] /\ a = <<a[1], 0>>
    <3> SUFFICES ASSUME NEW a \in C
                 PROVE  /\ high(a) \in Int /\ turn(a) \in Int
                        /\ Authored[turn(a)] = a[1] /\ a = <<a[1], 0>>
      OBVIOUS
    <3>1. a[1] \in DOMAIN Graph!Components /\ a = <<a[1], 0>>
      BY <1>4, <2>2
    <3> QED  BY <3>1, AuthoredAre
  <2>6. \A a, b \in C : a # b => turn(a) # turn(b)
    <3> HIDE DEF turn
    <3> QED  BY <2>5
  <2> HIDE DEF high, turn, R
  <2>7. /\ \A a \in C : <<a, a>> \notin R
        /\ \A a, b \in C : a # b => <<a, b>> \in R \/ <<b, a>> \in R
        /\ \A a, b, c \in C : <<a, b>> \in R /\ <<b, c>> \in R => <<a, c>> \in R
    BY <2>3, <2>4, <2>5, <2>6
  <2>8. Cardinality({a \in C : <<a, m>> \in R}) # Cardinality({a \in C : <<a, n>> \in R})
    BY <1>12, <2>2, <2>7, PlacesDiffer
  <2>9. \A z \in C : {a \in C : Graph!Above(a, z)} = {a \in C : <<a, z>> \in R}
    BY <2>3
  <2>10. Cardinality({a \in C : Graph!Above(a, m)}) # Cardinality({a \in C : Graph!Above(a, n)})
    BY <2>2, <2>8, <2>9
  <2>11. row(m) = Graph!Cardinality({a \in C : Graph!Above(a, m)})
         /\ row(n) = Graph!Cardinality({a \in C : Graph!Above(a, n)})
    BY <2>1 DEF C
  <2>12. row(m) # row(n)
    <3> HIDE DEF row
    <3> QED  BY <2>10, <2>11, GraphCounts
  <2> QED  BY <2>1, <2>12
<1> HIDE DEF stages, Column, col, row, size
<1>13. ASSUME NEW m \in auto, NEW n \in auto, m # n PROVE ~(x(m) = x(n) /\ y(m) = y(n))
  <2>1. /\ left \in Nat /\ col(m) \in Nat /\ col(n) \in Nat
        /\ row(m) \in Nat /\ row(n) \in Nat /\ size(m) \in Nat /\ size(n) \in Nat
    BY <1>2, <1>8, <1>9, <1>10
  <2>2. CASE stage[m] # stage[n]
    <3>1. col(m) # col(n)
      BY <1>11, <2>2
    <3> QED  BY <2>1, <3>1
  <2>3. CASE stage[m] = stage[n]
    <3>1. size(m) = size(n) /\ row(m) # row(n)
      BY <1>12, <1>13, <2>3
    <3>2. y(m) # y(n)
      BY <2>1, <3>1
    <3> QED  BY <3>2
  <2> QED  BY <2>2, <2>3
<1>14. \A n \in auto : x(n) \in Int /\ 2 * (40 + left) <= x(n)
  BY <1>2, <1>9
<1> HIDE DEF x, y
<1>15. {a[1] : a \in Graph!PipelinePlaces(v3)} = auto
  <2>1. \A n \in auto : place(n)[1] = n
    OBVIOUS
  <2> HIDE DEF place
  <2> QED  BY <1>5, <2>1
<1>16. ASSUME NEW a \in Graph!PipelinePlaces(v3), NEW b \in Graph!PipelinePlaces(v3), a[1] # b[1]
       PROVE  <<a[2], a[3]>> # <<b[2], b[3]>>
  <2>1. PICK m \in auto : a = place(m)
    BY <1>5
  <2>2. PICK n \in auto : b = place(n)
    BY <1>5
  <2>3. /\ a[1] = m /\ a[2] = x(m) /\ a[3] = y(m)
        /\ b[1] = n /\ b[2] = x(n) /\ b[3] = y(n)
    BY <2>1, <2>2
  <2>4. ~(x(m) = x(n) /\ y(m) = y(n))
    BY <1>13, <1>16, <2>3
  <2> QED  BY <2>3, <2>4
<1>17. ASSUME NEW a \in Graph!PipelinePlaces(v3)
       PROVE  a[2] \in Int /\ 2 * (40 + left) <= a[2]
  <2>1. PICK m \in auto : a = place(m)
    BY <1>5
  <2>2. a[2] = x(m)
    BY <2>1
  <2> QED  BY <1>14, <2>2
<1> QED  BY <1>15, <1>16, <1>17 DEF auto, left

(* No two of the nodes that the layout places lie on each other, and the   *)
(* cameras are all to the left of the pipeline.                            *)
LEMMA LayoutHolds == GraphInv => Graph!LayoutSeparates
<1> SUFFICES ASSUME GraphInv PROVE Graph!LayoutSeparates
  OBVIOUS
<1> DEFINE F == Graph!FeedPlaces(v3)
           P == Graph!PipelinePlaces(v3)
           lane == Graph!LaneWidth(Graph!Cardinality(Graph!FeedNodes(v3) \ v5))
           edge == 2 * (40 + lane)
           feeds == Graph!FeedNodes(v3)
           nodes == Graph!Nodes(v3)
<1>1. /\ {a[1] : a \in F} = feeds \ v5
      /\ \A a, b \in F : a[1] # b[1] => <<a[2], a[3]>> # <<b[2], b[3]>>
      /\ \A a \in F : a[2] \in Int /\ a[2] < edge
  BY FeedsArePlaced
<1>2. /\ {a[1] : a \in P} = nodes \ (feeds \union v5)
      /\ \A a, b \in P : a[1] # b[1] => <<a[2], a[3]>> # <<b[2], b[3]>>
      /\ \A a \in P : a[2] \in Int /\ edge <= a[2]
  BY PipelineIsPlaced
<1>3. feeds \subseteq nodes
  BY DEF Graph!Nodes
<1>4. lane \in Nat
  <2> DEFINE S == Graph!FeedNodes(v3) \ v5
             k == Graph!Cardinality(S)
  <2>1. S \subseteq Graph!FeedNodes(v3) /\ IsFiniteSet(Graph!FeedNodes(v3))
    BY NodesFinite DEF GraphInv, GraphPayload
  <2> HIDE DEF S
  <2>2. k \in Nat
    BY <2>1, FS_Subset, FS_CardinalityType, GraphCounts
  <2> HIDE DEF k
  <2> QED  BY <2>2, ColumnsAre DEF S, k
<1>5. edge \in Int
  BY <1>4
<1> HIDE DEF F, P, feeds, nodes, edge
<1>6. \A a \in F, b \in P : a[2] < b[2] /\ a[2] # b[2]
  BY <1>1, <1>2, <1>5
<1>7. {a[1] : a \in F \union P} = nodes \ v5
  BY <1>1, <1>2, <1>3
<1>8. \A a, b \in F \union P : a[1] # b[1] => <<a[2], a[3]>> # <<b[2], b[3]>>
  BY <1>1, <1>2, <1>6
<1> QED  BY <1>6, <1>7, <1>8 DEF Graph!LayoutSeparates, F, P, nodes
================================================================================
