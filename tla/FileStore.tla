------------------------------- MODULE FileStore -------------------------------
(***************************************************************************)
(* The file backend of the config store (src/src/lib/config-store/file.ts):*)
(* one YAML document per instance on a volume two pods mount, every edit a *)
(* read-modify-write of the whole document, and a lock file beside it.     *)
(*                                                                         *)
(* Each Call is one invocation of a mutating method.  A process first      *)
(* queues its own calls behind each other (withFileLock), then the call at *)
(* the head competes for the lock file with the other pod (acquire), reads,*)
(* writes a temporary file, renames it over the document (writeDocAtomic)  *)
(* and removes the lock.  Every await of that sequence is a step here, so  *)
(* that the other pod, a crash or the clock can come in between.           *)
(*                                                                         *)
(* The document is the set of the edits it contains: all that matters to   *)
(* the protocol is whether an edit survives the others.  An edit that puts *)
(* an entry into a list makes it non-empty for good; edits that empty a    *)
(* list again are left to the modules that model what an edit says.        *)
(***************************************************************************)
EXTENDS Naturals, FiniteSets, Sequences

CONSTANTS
  Calls,       \* the invocations of a mutating method, each made at most once
  Entries,     \* those that put an entry into the list that fills restore
  Fills,       \* those that are fillEmpty: they restore the list only if it is empty
  Pods,        \* the processes mounting the volume: the console and the agent
  PodOf,       \* the pod each call is made in
  PidOf,       \* the process id of each pod, as writeDocAtomic names its file by
  StaleAge,    \* LOCK_STALE_MS, in ticks
  WaitLimit,   \* LOCK_TIMEOUT_MS, in ticks
  MaxCrashes,  \* bound: how many pod crashes a behaviour contains
  Faults,      \* which file operations may fail: see FaultKinds
  PromptHolder,  \* TRUE: a live holder is done before its lock looks stale
  PromptReclaim  \* TRUE: nobody takes the lock between a reclaimer's stat and rm

FaultKinds == {"open", "stamp", "read", "write", "release", "reclaim"}

ASSUME ConstantsAssumption ==
  /\ Fills \subseteq Entries /\ Entries \subseteq Calls
  /\ PodOf \in [Calls -> Pods]
  /\ DOMAIN PidOf = Pods
  /\ StaleAge \in Nat
  /\ WaitLimit \in Nat
  /\ MaxCrashes \in Nat
  /\ Faults \subseteq FaultKinds
  /\ PromptHolder \in BOOLEAN
  /\ PromptReclaim \in BOOLEAN

Pids == {PidOf[p] : p \in Pods}
None == "none"

ASSUME NoneAssumption == None \notin Calls

VARIABLES
  file,      \* the stored document
  tmp,       \* the temporary file of each pid: its contents, or NoFile
  lockOwner, \* whose open created the lock file that exists now, or None
  lockAge,   \* ticks since that file was last written
  queue,     \* the calls chained in each process, in order
  pc,        \* the await each call is at
  base,      \* the document each call has read
  waited,    \* ticks each call has spent in acquire
  outcome,   \* what the call's function settled to, kept through the finally
  crashes    \* pod crashes so far

vars == <<file, tmp, lockOwner, lockAge, queue, pc, base, waited, outcome, crashes>>
lockVars == <<lockOwner, lockAge>>

NoFile == {None}                 \* no document equals it: None is not an edit
Documents == SUBSET Calls

Acquiring == {"open", "exists", "reclaim"}
Holding   == {"stamp", "read", "write", "rename", "release"}
Points    == {"idle", "queued", "done", "lost"} \union Acquiring \union Holding
Outcomes  == {"none", "ok", "unchanged", "failed"}

TypeOK ==
  /\ file \in Documents
  /\ tmp \in [Pids -> Documents \union {NoFile}]
  /\ lockOwner \in Calls \union {None}
  /\ lockAge \in 0 .. StaleAge + 1
  /\ queue \in [Pods -> Seq(Calls)]
  /\ pc \in [Calls -> Points]
  /\ base \in [Calls -> Documents]
  /\ waited \in [Calls -> 0 .. WaitLimit + 1]
  /\ outcome \in [Calls -> Outcomes]
  /\ crashes \in 0 .. MaxCrashes

Init ==
  /\ file = {}
  /\ tmp = [p \in Pids |-> NoFile]
  /\ lockOwner = None
  /\ lockAge = 0
  /\ queue = [p \in Pods |-> <<>>]
  /\ pc = [c \in Calls |-> "idle"]
  /\ base = [c \in Calls |-> {}]
  /\ waited = [c \in Calls |-> 0]
  /\ outcome = [c \in Calls |-> "none"]
  /\ crashes = 0

Goto(c, from, to) == pc[c] = from /\ pc' = [pc EXCEPT ![c] = to]
Pid(c) == PidOf[PodOf[c]]

--------------------------------------------------------------------------------
(* withFileLock: the per-file promise chain of one process.                *)

MyTurn(c) == queue[PodOf[c]] # <<>> /\ Head(queue[PodOf[c]]) = c
NextTurn(c) == queue' = [queue EXCEPT ![PodOf[c]] = Tail(@)]

Enqueue(c) ==
  /\ Goto(c, "idle", "queued")
  /\ queue' = [queue EXCEPT ![PodOf[c]] = Append(@, c)]
  /\ UNCHANGED <<file, tmp, lockVars, base, waited, outcome, crashes>>

Begin(c) ==
  /\ MyTurn(c)
  /\ Goto(c, "queued", "open")
  /\ UNCHANGED <<file, tmp, lockVars, queue, base, waited, outcome, crashes>>

--------------------------------------------------------------------------------
(* acquire                                                                 *)

\* Mutant: the lock opened with "w", which also opens a file that exists.
CreateOrTruncateLock(c) ==
  /\ Goto(c, "open", "stamp")
  /\ lockOwner' = c
  /\ lockAge' = 0
  /\ UNCHANGED <<file, tmp, queue, base, waited, outcome, crashes>>

(* open(lockPath, "wx") succeeds: the file did not exist.                  *)
CreateLock(c) ==
  /\ lockOwner = None
  /\ PromptReclaim => \A d \in Calls : pc[d] # "reclaim"
  /\ Goto(c, "open", "stamp")
  /\ lockOwner' = c
  /\ lockAge' = 0
  /\ UNCHANGED <<file, tmp, queue, base, waited, outcome, crashes>>

(* mkdir fails, or open for another reason than EEXIST: acquire throws.    *)
OpenFails(c) ==
  /\ "open" \in Faults
  /\ MyTurn(c)
  /\ Goto(c, "open", "done")
  /\ outcome' = [outcome EXCEPT ![c] = "failed"]
  /\ NextTurn(c)
  /\ UNCHANGED <<file, tmp, lockVars, base, waited, crashes>>

(* open fails with EEXIST.                                                 *)
LockExists(c) ==
  /\ lockOwner # None
  /\ Goto(c, "open", "exists")
  /\ UNCHANGED <<file, tmp, lockVars, queue, base, waited, outcome, crashes>>

(* The stat of the lock after EEXIST: gone, stale, given up on, or slept on. *)
StatVanished(c) ==
  /\ lockOwner = None
  /\ Goto(c, "exists", "open")
  /\ UNCHANGED <<file, tmp, lockVars, queue, base, waited, outcome, crashes>>

\* Mutant: any lock found is reclaimed, whatever its age.
StatAnyAge(c) ==
  /\ lockOwner # None
  /\ Goto(c, "exists", "reclaim")
  /\ UNCHANGED <<file, tmp, lockVars, queue, base, waited, outcome, crashes>>

StatStale(c) ==
  /\ lockOwner # None
  /\ lockAge > StaleAge
  /\ Goto(c, "exists", "reclaim")
  /\ UNCHANGED <<file, tmp, lockVars, queue, base, waited, outcome, crashes>>

StatFresh(c) ==
  /\ lockOwner # None
  /\ lockAge <= StaleAge
  /\ waited[c] <= WaitLimit
  /\ Goto(c, "exists", "open")
  /\ UNCHANGED <<file, tmp, lockVars, queue, base, waited, outcome, crashes>>

\* Mutant: the chain continues only after a turn that succeeded.
TimeOutBreaksChain(c) ==
  /\ lockOwner # None
  /\ lockAge <= StaleAge
  /\ waited[c] > WaitLimit
  /\ Goto(c, "exists", "done")
  /\ outcome' = [outcome EXCEPT ![c] = "failed"]
  /\ UNCHANGED <<file, tmp, lockVars, queue, base, waited, crashes>>

TimeOut(c) ==
  /\ lockOwner # None
  /\ lockAge <= StaleAge
  /\ waited[c] > WaitLimit
  /\ Goto(c, "exists", "done")
  /\ outcome' = [outcome EXCEPT ![c] = "failed"]
  /\ MyTurn(c)
  /\ NextTurn(c)
  /\ UNCHANGED <<file, tmp, lockVars, base, waited, crashes>>

(* rm(lockPath, {force}) of a lock judged stale: it removes the file that  *)
(* has the name now.  An rm that fails lands in the same catch as a stat   *)
(* that fails, so the loop starts over without a look at the deadline.     *)
Reclaim(c) ==
  /\ Goto(c, "reclaim", "open")
  /\ \/ lockOwner' = None /\ lockAge' = 0
     \/ "reclaim" \in Faults /\ UNCHANGED lockVars
  /\ UNCHANGED <<file, tmp, queue, base, waited, outcome, crashes>>

(* Writing pid, host and date into the new lock, which renews its mtime.   *)
StampLock(c) ==
  /\ Goto(c, "stamp", "read")
  /\ lockAge' = IF lockOwner = c THEN 0 ELSE lockAge
  /\ UNCHANGED <<file, tmp, lockOwner, queue, base, waited, outcome, crashes>>

(* That write fails: acquire throws and nobody removes the lock.           *)
StampFails(c) ==
  /\ "stamp" \in Faults
  /\ Goto(c, "stamp", "done")
  /\ outcome' = [outcome EXCEPT ![c] = "failed"]
  /\ MyTurn(c)
  /\ NextTurn(c)
  /\ UNCHANGED <<file, tmp, lockVars, base, waited, crashes>>

--------------------------------------------------------------------------------
(* mutate, fillEmpty, writeDocAtomic: the critical section.                *)

\* Mutant: the document is read from the temporary file's name.
ReadTmp(c) ==
  /\ Goto(c, "read", "write")
  /\ base' = [base EXCEPT ![c] = tmp[Pid(c)]]
  /\ UNCHANGED <<file, tmp, lockVars, queue, waited, outcome, crashes>>

\* Mutant: the check and the write are two holds of the lock, not one.
ReadThenRelease(c) ==
  /\ Goto(c, "read", "write")
  /\ base' = [base EXCEPT ![c] = file]
  /\ lockOwner' = None
  /\ lockAge' = 0
  /\ UNCHANGED <<file, tmp, queue, waited, outcome, crashes>>

ReadDoc(c) ==
  /\ Goto(c, "read", "write")
  /\ base' = [base EXCEPT ![c] = file]
  /\ UNCHANGED <<file, tmp, lockVars, queue, waited, outcome, crashes>>

Full(d) == d \intersect Entries # {}

(* planFill found nothing empty to restore: the file is left unwritten.    *)
FillNothing(c) ==
  /\ c \in Fills
  /\ Full(base[c])
  /\ Goto(c, "write", "release")
  /\ outcome' = [outcome EXCEPT ![c] = "unchanged"]
  /\ UNCHANGED <<file, tmp, lockVars, queue, base, waited, crashes>>

\* Mutant: a fill writes whatever the document holds.
WriteTmpUnchecked(c) ==
  /\ Goto(c, "write", "rename")
  /\ tmp' = [tmp EXCEPT ![Pid(c)] = base[c] \union {c}]
  /\ UNCHANGED <<file, lockVars, queue, base, waited, outcome, crashes>>

WriteTmp(c) ==
  /\ c \in Fills => ~Full(base[c])
  /\ Goto(c, "write", "rename")
  /\ tmp' = [tmp EXCEPT ![Pid(c)] = base[c] \union {c}]
  /\ UNCHANGED <<file, lockVars, queue, base, waited, outcome, crashes>>

RenameTmp(c) ==
  /\ tmp[Pid(c)] # NoFile
  /\ Goto(c, "rename", "release")
  /\ file' = tmp[Pid(c)]
  /\ tmp' = [tmp EXCEPT ![Pid(c)] = NoFile]
  /\ outcome' = [outcome EXCEPT ![c] = "ok"]
  /\ UNCHANGED <<lockVars, queue, base, waited, crashes>>

(* The read, the write or the rename throws; the finally still runs.  A    *)
(* rename throws without any fault when its temporary file is gone.        *)
BodyThrows(c) ==
  /\ \/ "read" \in Faults /\ Goto(c, "read", "release")
     \/ "write" \in Faults /\ Goto(c, "write", "release")
     \/ "write" \in Faults /\ Goto(c, "rename", "release")
     \/ tmp[Pid(c)] = NoFile /\ Goto(c, "rename", "release")
  /\ outcome' = [outcome EXCEPT ![c] = "failed"]
  /\ UNCHANGED <<file, tmp, lockVars, queue, base, waited, crashes>>

\* Mutant: an error of the finally's rm replaces the body's result.
ReleaseThrows(c) ==
  /\ MyTurn(c)
  /\ Goto(c, "release", "done")
  /\ \/ lockOwner' = None /\ lockAge' = 0 /\ UNCHANGED outcome
     \/ /\ "release" \in Faults
        /\ outcome' = [outcome EXCEPT ![c] = "failed"]
        /\ UNCHANGED lockVars
  /\ NextTurn(c)
  /\ UNCHANGED <<file, tmp, base, waited, crashes>>

(* The finally: rm of whatever file has the lock's name, its error ignored,*)
(* then the caller's answer and the next turn of the chain.                *)
ReleaseLock(c) ==
  /\ MyTurn(c)
  /\ Goto(c, "release", "done")
  /\ \/ lockOwner' = None /\ lockAge' = 0
     \/ "release" \in Faults /\ UNCHANGED lockVars
  /\ NextTurn(c)
  /\ UNCHANGED <<file, tmp, base, waited, outcome, crashes>>

--------------------------------------------------------------------------------
(* The environment.                                                        *)

(* A pod dies: its calls never answer, and the lock file stays behind.  Its*)
(* restart is its next Enqueue.                                            *)
Crash(p) ==
  /\ crashes < MaxCrashes
  /\ crashes' = crashes + 1
  /\ queue[p] # <<>>
  /\ queue' = [queue EXCEPT ![p] = <<>>]
  /\ pc' = [c \in Calls |->
              IF PodOf[c] = p /\ pc[c] \notin {"idle", "done"} THEN "lost" ELSE pc[c]]
  /\ UNCHANGED <<file, tmp, lockVars, base, waited, outcome>>

HolderIsLive == lockOwner # None /\ pc[lockOwner] \in Holding

(* One tick of the clock; ages past their limit are not told apart.        *)
Tick ==
  /\ lockOwner # None \/ \E c \in Calls : pc[c] \in Acquiring
  /\ PromptHolder /\ HolderIsLive => lockAge < StaleAge
  /\ lockAge' = IF lockOwner # None /\ lockAge <= StaleAge THEN lockAge + 1 ELSE lockAge
  /\ waited' = [c \in Calls |->
                  IF pc[c] \in Acquiring /\ waited[c] <= WaitLimit
                  THEN waited[c] + 1 ELSE waited[c]]
  /\ UNCHANGED <<file, tmp, lockOwner, queue, pc, base, outcome, crashes>>

Acquire(c) == \/ CreateLock(c)   \/ LockExists(c) \/ StatVanished(c) \/ StatStale(c)
              \/ StatFresh(c)    \/ TimeOut(c)    \/ Reclaim(c)      \/ StampLock(c)
              \/ StampFails(c)   \/ OpenFails(c)

Body(c) == \/ ReadDoc(c)    \/ FillNothing(c) \/ WriteTmp(c) \/ RenameTmp(c)
           \/ BodyThrows(c) \/ ReleaseLock(c)

Next == \/ \E c \in Calls : Enqueue(c) \/ Begin(c) \/ Acquire(c) \/ Body(c)
        \/ \E p \in Pods : Crash(p)
        \/ Tick

Spec == Init /\ [][Next]_vars

(* The event loop runs every call's next continuation and the clock moves; *)
(* no operator has to make a call and no pod has to crash.  An rm of a     *)
(* stale lock that is tried again and again works at last: as long as it   *)
(* fails the call spins.                                                   *)
Fairness == /\ \A c \in Calls : /\ WF_vars(Begin(c) \/ Acquire(c) \/ Body(c))
                                /\ SF_vars(Reclaim(c) /\ lockOwner' = None)
            /\ WF_vars(Tick)

FairSpec == Spec /\ Fairness

--------------------------------------------------------------------------------
(* Properties                                                              *)

(* At most one call is between the creation of its lock and its release,   *)
(* in whichever pod: "The cross-process lock is still what makes the write *)
(* safe" (file.ts, above queues).                                          *)
MutualExclusion ==
  \A c, d \in Calls : pc[c] \in Holding /\ pc[d] \in Holding => c = d

(* An edit whose caller was told it succeeded is in the stored document,   *)
(* whatever the other pod wrote since: no read-modify-write overwrites     *)
(* another (the "lost update" the lock exists to prevent).                 *)
NoLostUpdate == \A c \in Calls : outcome[c] = "ok" => c \in file

(* An edit whose caller was told it failed is not in the stored document:  *)
(* a retry after an error does not apply the edit a second time.           *)
FailedMeansAbsent == \A c \in Calls : outcome[c] = "failed" => c \notin file

(* A fill never lands on a list another writer has put something in:       *)
(* fillEmpty's check and write are one step to everybody else.             *)
FillOnlyIntoEmpty ==
  [][\A c \in Fills : c \in file' /\ c \notin file => ~Full(file)]_file

(* Every call made is answered or dies with its pod: a lock left behind by *)
(* a crash or a failed rm makes later calls wait, time out or reclaim it,  *)
(* but none waits for ever.                                                *)
EveryCallSettles ==
  \A c \in Calls : pc[c] = "queued" ~> pc[c] \in {"done", "lost"}

(* The protocol implements the atomic store, each edit taking effect at    *)
(* its rename.                                                             *)
StatusOf(c) ==
  CASE pc[c] = "idle" -> "idle"
    [] pc[c] = "lost" -> "lost"
    [] pc[c] = "done" -> IF outcome[c] = "failed" THEN "failed" ELSE "ok"
    [] OTHER          -> IF outcome[c] \in {"ok", "unchanged"} THEN "committed"
                                                               ELSE "pending"

Atomic == INSTANCE AtomicStore WITH doc <- file, status <- [c \in Calls |-> StatusOf(c)]
AtomicSpec == Atomic!Spec
================================================================================
