------------------------------- MODULE FfmpegPool ------------------------------
(***************************************************************************)
(* The pool that bounds how many ffmpeg processes the console runs at      *)
(* once.  A job takes one of MaxConcurrent places or waits in line; the    *)
(* place of a process that closes goes to the first in line.  Node emits   *)
(* "close" for every process, also, after "error", for one that could not  *)
(* be spawned, and the code gives a place back on each of the two.         *)
(***************************************************************************)
EXTENDS Integers, FiniteSets, Sequences

CONSTANTS
  Jobs,           \* transcodings and thumbnails asked for
  MaxConcurrent   \* MAX_CONCURRENT

VARIABLES
  activeCount,    \* places taken, as the pool counts them
  queue,          \* the jobs in line
  job,            \* what each job is doing
  failures        \* history: the jobs that could not be spawned

vars == <<activeCount, queue, job, failures>>

(* A job that got a place spawns a process; "failed" is one whose "error"  *)
(* has been handled and whose "close" has not.                             *)
Stages == {"new", "waits", "placed", "runs", "failed", "over"}

(* Every variable keeps the type of what it models, and who waits is in    *)
(* line.  The count is an integer: places are given back twice.            *)
TypeOK ==
  /\ activeCount \in Int
  /\ queue \in Seq(Jobs) /\ \A i \in 1 .. Len(queue) : job[queue[i]] = "waits"
  /\ job \in [Jobs -> Stages]
  /\ failures \subseteq Jobs

Init == /\ activeCount = 0 /\ queue = <<>>
        /\ job = [j \in Jobs |-> "new"]
        /\ failures = {}

--------------------------------------------------------------------------------
FreeOneMore == activeCount <= MaxConcurrent \* (variant) one process too many
Free        == activeCount < MaxConcurrent

Acquire(j) ==
  /\ job[j] = "new"
  /\ IF Free
     THEN /\ activeCount' = activeCount + 1 /\ UNCHANGED queue
          /\ job' = [job EXCEPT ![j] = "placed"]
     ELSE /\ queue' = Append(queue, j) /\ UNCHANGED activeCount
          /\ job' = [job EXCEPT ![j] = "waits"]
  /\ UNCHANGED failures

ReleaseUnheard(j, stage) == \* (variant) the place is given back and nobody woken
  /\ activeCount' = activeCount - 1 /\ UNCHANGED queue
  /\ job' = [job EXCEPT ![j] = stage]

(* release, by a job that moves to the stage: the first in line gets the   *)
(* place, or, when nobody waits, nobody.                                   *)
Release(j, stage) ==
  IF queue # <<>>
  THEN /\ queue' = Tail(queue) /\ UNCHANGED activeCount
       /\ job' = [job EXCEPT ![j] = stage, ![Head(queue)] = "placed"]
  ELSE /\ activeCount' = activeCount - 1 /\ UNCHANGED queue
       /\ job' = [job EXCEPT ![j] = stage]

Spawn(j) ==
  /\ job[j] = "placed" /\ job' = [job EXCEPT ![j] = "runs"]
  /\ UNCHANGED <<activeCount, queue, failures>>

SpawnFails(j) ==
  /\ job[j] = "placed" /\ Release(j, "failed")
  /\ failures' = failures \union {j}

Close(j) ==
  /\ job[j] \in {"runs", "failed"} /\ Release(j, "over")
  /\ UNCHANGED failures

AllOver == (\A j \in Jobs : job[j] = "over") /\ UNCHANGED vars

Next == AllOver \/ \E j \in Jobs : Acquire(j) \/ Spawn(j) \/ SpawnFails(j) \/ Close(j)

Spec == Init /\ [][Next]_vars

(* Node spawns what is to be spawned, and every process ends.              *)
Start(j) == Spawn(j) \/ SpawnFails(j)
Fairness == \A j \in Jobs : WF_vars(Start(j)) /\ WF_vars(Close(j))
FairSpec == Spec /\ Fairness

--------------------------------------------------------------------------------
(* While a job waits, every place is taken.                                *)
NoIdlePlace == queue # <<>> => ~Free

Processes == {j \in Jobs : job[j] \in {"placed", "runs"}}

(* No more processes run at once than MAX_CONCURRENT and one for each that *)
(* could not be spawned and has closed: a place given back twice is the    *)
(* only one to be had beyond the limit.                                    *)
OverrunIsBounded ==
  Cardinality(Processes)
    <= MaxConcurrent + Cardinality({j \in failures : job[j] = "over"})

(* Who waits in line gets a place.                                         *)
QueuedRuns == \A j \in Jobs : job[j] = "waits" ~> job[j] # "waits"
================================================================================
