-------------------------------- MODULE BoxMode --------------------------------
(***************************************************************************)
(* The GPU switch moves the box between "vss", where the console may write *)
(* the workloads the switch scales, and "llm", where it must not.  The     *)
(* console asks before every such write.  An answer is reused for Ttl; the *)
(* askers that find none share one read of the switch's record, which is   *)
(* over after ReadTimeout whatever the API does, and a read that failed    *)
(* answers "vss".                                                          *)
(*                                                                         *)
(* Time is counted in ticks.  What the code does without waiting is over   *)
(* within one: an asker that has an answer to hand has taken it before the *)
(* next tick, and a read is cut off at its timeout.                        *)
(***************************************************************************)
EXTENDS Naturals

CONSTANTS
  Ttl,          \* for how long an answer is reused
  ReadTimeout,  \* for how long a read is waited for
  Writers       \* routes and passes that write a workload of the switch

ASSUME BoxAssumption == Ttl \in Nat \ {0} /\ ReadTimeout \in Nat \ {0}

VARIABLES
  mode,     \* the record
  since,    \* ticks since it was changed, counted up to Lag
  cached,   \* the last answer and its age; Ttl is an answer too old, or none yet
  reading,  \* the read under way, its age and what the API has read for it
  writer    \* what each writer is doing

vars == <<mode, since, cached, reading, writer>>

Lag      == Ttl + ReadTimeout
Modes    == {"vss", "llm"}
Answers  == [says : Modes, failed : BOOLEAN]
Unread   == [says |-> "vss", failed |-> TRUE]
Asking   == {"asks", "asksAgain"}

(* Every variable keeps the type of what it models.                        *)
TypeOK ==
  /\ mode \in Modes /\ since \in 0 .. Lag
  /\ cached \in [answer : Answers, age : 0 .. Ttl]
  /\ reading \in [age : 0 .. ReadTimeout, got : {"off", "nothing"} \union Modes]
  /\ writer \in [Writers -> Asking \union {"idle", "saves", "writes"}]

Init ==
  /\ mode \in Modes /\ since = Lag
  /\ cached = [answer |-> Unread, age |-> Ttl]
  /\ reading = [age |-> 0, got |-> "off"]
  /\ writer = [w \in Writers |-> "idle"]

(* For how long the box has not been in a mode.                            *)
NotFor(m) == IF mode = m THEN 0 ELSE since

--------------------------------------------------------------------------------
(* getBoxMode.                                                             *)

Fresh    == cached.age < Ttl
UnderWay == reading.got # "off"

Asks(w, step) ==
  /\ writer' = [writer EXCEPT ![w] = step]
  /\ reading' = IF Fresh \/ UnderWay THEN reading
                ELSE [age |-> 0, got |-> "nothing"]
  /\ UNCHANGED <<mode, since, cached>>

(* The API reads the record at some moment while the read is under way.    *)
Sample ==
  /\ reading.got = "nothing"
  /\ reading' = [reading EXCEPT !.got = mode]
  /\ UNCHANGED <<mode, since, cached, writer>>

Answered(answer) ==
  /\ cached' = [answer |-> answer, age |-> 0]
  /\ reading' = [age |-> 0, got |-> "off"]
  /\ UNCHANGED <<mode, since, writer>>

ReadAnswers ==
  /\ reading.got \in Modes
  /\ Answered([says |-> reading.got, failed |-> FALSE])

KeepsLast == \* (variant) a read that failed leaves the last answer in force
  UnderWay /\ Answered([says |-> cached.answer.says, failed |-> TRUE])

AwaitsAPI == \* (variant) a read is waited for until the API answers it
  reading.got \in Modes /\ Answered(Unread)

(* It is refused, malformed or, at the latest at its timeout, cut off.     *)
ReadFails == UnderWay /\ Answered(Unread)

--------------------------------------------------------------------------------
(* A route: boxPausedResponse, what it saves besides, the guarded write.   *)

Ask(w)      == writer[w] = "idle" /\ Asks(w, "asks")
AskAgain(w) == writer[w] = "saves" /\ Asks(w, "asksAgain")

NextStep(w) == IF cached.answer.says = "llm" THEN "idle"
               ELSE IF writer[w] = "asks" THEN "saves" ELSE "writes"

TakeSliding(w) == \* (variant) an answer that is used is good for another Ttl
  /\ writer[w] \in Asking /\ Fresh
  /\ writer' = [writer EXCEPT ![w] = NextStep(w)]
  /\ cached' = [cached EXCEPT !.age = 0]
  /\ UNCHANGED <<mode, since, reading>>

Take(w) ==
  /\ writer[w] \in Asking /\ Fresh
  /\ writer' = [writer EXCEPT ![w] = NextStep(w)]
  /\ UNCHANGED <<mode, since, cached, reading>>

Write(w) ==
  /\ writer[w] = "writes"
  /\ writer' = [writer EXCEPT ![w] = "idle"]
  /\ UNCHANGED <<mode, since, cached, reading>>

--------------------------------------------------------------------------------
Switch ==
  /\ mode' \in Modes \ {mode} /\ since' = 0
  /\ UNCHANGED <<cached, reading, writer>>

Older(n, bound) == IF n < bound THEN n + 1 ELSE n
Prompt == /\ UnderWay => reading.age < ReadTimeout
          /\ Fresh => \A w \in Writers : writer[w] \notin Asking

Passes ==
  /\ since' = Older(since, Lag)
  /\ cached' = [cached EXCEPT !.age = Older(@, Ttl)]
  /\ reading' = [reading EXCEPT !.age = IF UnderWay THEN @ + 1 ELSE @]
  /\ UNCHANGED <<mode, writer>>

TickOn == Passes \* (variant) nothing cuts a read off
Tick   == Prompt /\ Passes

Next == \/ Sample \/ ReadAnswers \/ ReadFails \/ Switch \/ Tick
        \/ \E w \in Writers : Ask(w) \/ AskAgain(w) \/ Take(w) \/ Write(w)

Spec == Init /\ [][Next]_vars

(* Time passes, timers fire and continuations run.  The API owes nothing.  *)
Fairness == /\ WF_vars(Tick)
            /\ WF_vars(ReadFails /\ reading.age = ReadTimeout)
            /\ \A w \in Writers : WF_vars(Take(w))
FairSpec == Spec /\ Fairness

--------------------------------------------------------------------------------
LetThrough(w) == writer[w] \in Asking /\ writer'[w] \in {"saves", "writes"}
Refused(w)    == writer[w] \in Asking /\ writer'[w] = "idle"

(* A write is let through only if the box was in vss mode less than Ttl +  *)
(* ReadTimeout ago, or the record could not be read (box-mode.ts:21-24).   *)
PausesInTime ==
  [][\A w \in Writers :
       LetThrough(w) => cached.answer.failed \/ NotFor("vss") < Lag]_vars

(* A write is refused only if the box was in another mode less than Ttl +  *)
(* ReadTimeout ago: nothing is sticky, and no failure refuses anything.    *)
ResumesInTime == [][\A w \in Writers : Refused(w) => NotFor("llm") < Lag]_vars

(* Whoever asks is answered, also if the API never answers again.          *)
EveryCheckAnswers == \A w \in Writers : writer[w] \in Asking ~> writer[w] \notin Asking
================================================================================
