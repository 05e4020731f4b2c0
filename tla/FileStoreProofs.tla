---------------------------- MODULE FileStoreProofs ----------------------------
(***************************************************************************)
(* What the lock protocol of FileStore guarantees for every number of pods *)
(* and calls, every fault it models and every number of crashes, provided  *)
(* a live holder finishes before its lock looks stale (PromptHolder) and   *)
(* nobody takes the lock between a reclaimer's stat and its rm             *)
(* (PromptReclaim).  The run FileStoreReclaimRace shows what happens without  *)
(* the second.                                                             *)
(***************************************************************************)
EXTENDS FileStore, TLAPS

Sound == PromptHolder /\ PromptReclaim

--------------------------------------------------------------------------------
(* Type correctness needs neither assumption.                              *)

LEMMA TypeStep == TypeOK /\ [Next]_vars => TypeOK'
<1> SUFFICES ASSUME TypeOK, [Next]_vars PROVE TypeOK'
  OBVIOUS
<1> USE ConstantsAssumption DEF TypeOK, Documents, Points, Acquiring, Holding, Outcomes,
        Goto, lockVars
<1>1. ASSUME NEW c \in Calls, Enqueue(c) PROVE TypeOK'
  BY <1>1 DEF Enqueue
<1>2. ASSUME NEW c \in Calls, Begin(c) PROVE TypeOK'
  BY <1>2 DEF Begin
<1>3. ASSUME NEW c \in Calls, Acquire(c) PROVE TypeOK'
  <2>1. CASE CreateLock(c)   BY <2>1 DEF CreateLock
  <2>2. CASE LockExists(c)   BY <2>2 DEF LockExists
  <2>3. CASE StatVanished(c) BY <2>3 DEF StatVanished
  <2>4. CASE StatStale(c)    BY <2>4 DEF StatStale
  <2>5. CASE StatFresh(c)    BY <2>5 DEF StatFresh
  <2>6. CASE TimeOut(c)      BY <2>6 DEF TimeOut, MyTurn, NextTurn
  <2>7. CASE Reclaim(c)      BY <2>7 DEF Reclaim
  <2>8. CASE StampLock(c)    BY <2>8 DEF StampLock
  <2>9. CASE StampFails(c)   BY <2>9 DEF StampFails, MyTurn, NextTurn
  <2>a. CASE OpenFails(c)    BY <2>a DEF OpenFails, MyTurn, NextTurn
  <2> QED BY <1>3, <2>1, <2>2, <2>3, <2>4, <2>5, <2>6, <2>7, <2>8, <2>9, <2>a DEF Acquire
<1>4. ASSUME NEW c \in Calls, Body(c) PROVE TypeOK'
  <2>0. Pid(c) \in Pids
    BY DEF Pid, Pids
  <2>1. CASE ReadDoc(c)     BY <2>1 DEF ReadDoc
  <2>2. CASE FillNothing(c) BY <2>2 DEF FillNothing
  <2>3. CASE WriteTmp(c)    BY <2>0, <2>3 DEF WriteTmp
  <2>4. CASE RenameTmp(c)   BY <2>0, <2>4 DEF RenameTmp
  <2>5. CASE BodyThrows(c)  BY <2>5 DEF BodyThrows
  <2>6. CASE ReleaseLock(c) BY <2>6 DEF ReleaseLock, MyTurn, NextTurn
  <2> QED BY <1>4, <2>1, <2>2, <2>3, <2>4, <2>5, <2>6 DEF Body
<1>5. ASSUME NEW p \in Pods, Crash(p) PROVE TypeOK'
  BY <1>5 DEF Crash
<1>6. CASE Tick
  BY <1>6 DEF Tick
<1>7. CASE UNCHANGED vars
  BY <1>7 DEF vars
<1> QED
  BY <1>1, <1>2, <1>3, <1>4, <1>5, <1>6, <1>7 DEF Next

(* Every variable keeps its type, in particular the ages stay inside the   *)
(* bounds that make the instances of the runs finite.                      *)
THEOREM TypeCorrect == Spec => []TypeOK
<1>1. Init => TypeOK
  BY ConstantsAssumption
  DEF Init, TypeOK, Documents, Points, Acquiring, Holding, Outcomes
<1> QED
  BY <1>1, TypeStep, PTL DEF Spec
--------------------------------------------------------------------------------
(* Mutual exclusion.  A holder's lock file is its own and never looks stale*)
(* while it is live, so whoever is about to remove a lock removes one whose*)
(* holder is gone, and whoever creates one finds nobody about to remove it.*)

HolderOwnsLock == \A c \in Calls : pc[c] \in Holding => lockOwner = c /\ lockAge <= StaleAge
ReclaimsOnlyDead ==
  \A c \in Calls : pc[c] = "reclaim" /\ lockOwner # None => pc[lockOwner] \notin Holding
LockInv == HolderOwnsLock /\ ReclaimsOnlyDead

LEMMA LockStep ==
  ASSUME Sound, TypeOK, TypeOK', LockInv, [Next]_vars
  PROVE  LockInv'
<1> USE NoneAssumption
    DEF LockInv, HolderOwnsLock, ReclaimsOnlyDead, Goto, lockVars, Sound
<1> USE DEF TypeOK, Holding, Acquiring, Points
<1>1. ASSUME NEW c \in Calls, Enqueue(c) PROVE LockInv'
  BY <1>1 DEF Enqueue
<1>2. ASSUME NEW c \in Calls, Begin(c) PROVE LockInv'
  BY <1>2 DEF Begin
<1>3. ASSUME NEW c \in Calls, Acquire(c) PROVE LockInv'
  <2>1. CASE CreateLock(c)   BY <2>1, ConstantsAssumption DEF CreateLock
  <2>2. CASE LockExists(c)   BY <2>2 DEF LockExists
  <2>3. CASE StatVanished(c) BY <2>3 DEF StatVanished
  <2>4. CASE StatStale(c)    BY <2>4, ConstantsAssumption DEF StatStale
  <2>5. CASE StatFresh(c)    BY <2>5 DEF StatFresh
  <2>6. CASE TimeOut(c)      BY <2>6 DEF TimeOut
  <2>7. CASE Reclaim(c)      BY <2>7 DEF Reclaim
  <2>8. CASE StampLock(c)    BY <2>8, ConstantsAssumption DEF StampLock
  <2>9. CASE StampFails(c)   BY <2>9 DEF StampFails
  <2>a. CASE OpenFails(c)    BY <2>a DEF OpenFails
  <2> QED BY <1>3, <2>1, <2>2, <2>3, <2>4, <2>5, <2>6, <2>7, <2>8, <2>9, <2>a DEF Acquire
<1>4. ASSUME NEW c \in Calls, Body(c) PROVE LockInv'
  <2>1. CASE ReadDoc(c)     BY <2>1 DEF ReadDoc
  <2>2. CASE FillNothing(c) BY <2>2 DEF FillNothing
  <2>3. CASE WriteTmp(c)    BY <2>3 DEF WriteTmp
  <2>4. CASE RenameTmp(c)   BY <2>4 DEF RenameTmp
  <2>5. CASE BodyThrows(c)  BY <2>5 DEF BodyThrows
  <2>6. CASE ReleaseLock(c) BY <2>6 DEF ReleaseLock
  <2> QED BY <1>4, <2>1, <2>2, <2>3, <2>4, <2>5, <2>6 DEF Body
<1>5. ASSUME NEW p \in Pods, Crash(p) PROVE LockInv'
  BY <1>5 DEF Crash
<1>6. CASE Tick
  BY <1>6, ConstantsAssumption DEF Tick, HolderIsLive
<1>7. CASE UNCHANGED vars
  BY <1>7 DEF vars
<1> QED
  BY <1>1, <1>2, <1>3, <1>4, <1>5, <1>6, <1>7 DEF Next

LEMMA LockInvariant == ASSUME Sound PROVE Spec => []LockInv
<1>1. Init => LockInv
  BY DEF Init, LockInv, HolderOwnsLock, ReclaimsOnlyDead, Holding
<1>2. TypeOK /\ TypeOK' /\ LockInv /\ [Next]_vars => LockInv'
  BY LockStep
<1> QED
  BY <1>1, <1>2, TypeCorrect, PTL DEF Spec

(* No two calls, in one pod or in two, are ever inside the critical section*)
(* withFileLock protects.                                                  *)
THEOREM LockIsExclusive == ASSUME Sound PROVE Spec => []MutualExclusion
<1>1. LockInv => MutualExclusion
  BY DEF LockInv, HolderOwnsLock, MutualExclusion
<1> QED
  BY <1>1, LockInvariant, PTL

--------------------------------------------------------------------------------
(* No lost update.  Since nobody else writes while a call holds the lock,  *)
(* what it read is still the document when it renames, and its temporary   *)
(* file is the document with its own edit added.                           *)

InBody == {"write", "rename"}

ReadIsCurrent == \A c \in Calls : pc[c] \in InBody => base[c] = file
TmpIsEdit == \A c \in Calls :
  pc[c] = "rename" => tmp[Pid(c)] = base[c] \union {c} /\ (c \in Fills => ~Full(base[c]))
OutcomeIsLate == \A c \in Calls :
  pc[c] \in Acquiring \union InBody \union {"idle", "queued", "stamp", "read"}
    => outcome[c] = "none"
OutcomeIsSet == \A c \in Calls : pc[c] \in {"release", "done"} => outcome[c] # "none"
OutcomeIsTrue == \A c \in Calls :
  /\ outcome[c] = "ok" => c \in file
  /\ outcome[c] \in {"none", "failed"} => c \notin file
StoreInv == ReadIsCurrent /\ TmpIsEdit /\ OutcomeIsLate /\ OutcomeIsSet /\ OutcomeIsTrue

LEMMA StoreStep ==
  ASSUME Sound, TypeOK, TypeOK', LockInv, StoreInv, [Next]_vars
  PROVE  StoreInv'
<1> USE DEF StoreInv, ReadIsCurrent, TmpIsEdit, OutcomeIsLate, OutcomeIsSet,
            OutcomeIsTrue, InBody, Goto, lockVars, Pid, TypeOK, Acquiring
<1>0. \A c \in Calls : Pid(c) \in Pids
  BY ConstantsAssumption DEF Pids
<1>1. ASSUME NEW c \in Calls, Enqueue(c) PROVE StoreInv'
  BY <1>1 DEF Enqueue
<1>2. ASSUME NEW c \in Calls, Begin(c) PROVE StoreInv'
  BY <1>2 DEF Begin
<1>3. ASSUME NEW c \in Calls, Acquire(c) PROVE StoreInv'
  <2>1. CASE CreateLock(c)   BY <2>1 DEF CreateLock
  <2>2. CASE LockExists(c)   BY <2>2 DEF LockExists
  <2>3. CASE StatVanished(c) BY <2>3 DEF StatVanished
  <2>4. CASE StatStale(c)    BY <2>4 DEF StatStale
  <2>5. CASE StatFresh(c)    BY <2>5 DEF StatFresh
  <2>6. CASE TimeOut(c)      BY <2>6 DEF TimeOut
  <2>7. CASE Reclaim(c)      BY <2>7 DEF Reclaim
  <2>8. CASE StampLock(c)    BY <2>8 DEF StampLock
  <2>9. CASE StampFails(c)   BY <2>9 DEF StampFails
  <2>a. CASE OpenFails(c)    BY <2>a DEF OpenFails
  <2> QED BY <1>3, <2>1, <2>2, <2>3, <2>4, <2>5, <2>6, <2>7, <2>8, <2>9, <2>a DEF Acquire
<1>4. ASSUME NEW c \in Calls, Body(c) PROVE StoreInv'
  <2>0. \A d \in Calls : pc[c] \in Holding /\ pc[d] \in InBody => d = c
    BY DEF LockInv, HolderOwnsLock, Holding
  <2>1. CASE ReadDoc(c)     BY <2>1 DEF ReadDoc
  <2>2. CASE FillNothing(c) BY <2>2 DEF FillNothing
  <2>3. CASE WriteTmp(c)    BY <1>0, <2>0, <2>3 DEF WriteTmp, Holding
  <2>4. CASE RenameTmp(c)   BY <1>0, <2>0, <2>4 DEF RenameTmp, Holding
  <2>5. CASE BodyThrows(c)  BY <2>5 DEF BodyThrows
  <2>6. CASE ReleaseLock(c) BY <2>6 DEF ReleaseLock
  <2> QED BY <1>4, <2>1, <2>2, <2>3, <2>4, <2>5, <2>6 DEF Body
<1>5. ASSUME NEW p \in Pods, Crash(p) PROVE StoreInv'
  BY <1>5 DEF Crash
<1>6. CASE Tick
  BY <1>6 DEF Tick
<1>7. CASE UNCHANGED vars
  BY <1>7 DEF vars
<1> QED
  BY <1>1, <1>2, <1>3, <1>4, <1>5, <1>6, <1>7 DEF Next

LEMMA StoreInvariant == ASSUME Sound PROVE Spec => []StoreInv
<1>1. Init => StoreInv
  BY DEF Init, StoreInv, ReadIsCurrent, TmpIsEdit, OutcomeIsLate, OutcomeIsSet,
         OutcomeIsTrue, InBody, Acquiring
<1>2. TypeOK /\ TypeOK' /\ LockInv /\ StoreInv /\ [Next]_vars => StoreInv'
  BY StoreStep
<1> QED
  BY <1>1, <1>2, TypeCorrect, LockInvariant, PTL DEF Spec

(* An edit reported as saved is still in the document after every later    *)
(* edit of every pod.                                                      *)
THEOREM UpdatesSurvive == ASSUME Sound PROVE Spec => []NoLostUpdate
<1>1. StoreInv => NoLostUpdate
  BY DEF StoreInv, OutcomeIsTrue, NoLostUpdate
<1> QED
  BY <1>1, StoreInvariant, PTL

(* An edit reported as failed left nothing behind.                         *)
THEOREM FailuresLeaveNothing == ASSUME Sound PROVE Spec => []FailedMeansAbsent
<1>1. StoreInv => FailedMeansAbsent
  BY DEF StoreInv, OutcomeIsTrue, FailedMeansAbsent
<1> QED
  BY <1>1, StoreInvariant, PTL

LEMMA FillStep ==
  ASSUME StoreInv, [Next]_vars, NEW c \in Fills, c \in file', c \notin file
  PROVE  ~Full(file)
<1>1. PICK d \in Calls : RenameTmp(d)
  <2>1. file' # file
    OBVIOUS
  <2> QED
    BY <2>1 DEF Next, vars, Enqueue, Begin, Acquire, CreateLock, LockExists, StatVanished, StatStale,
                StatFresh, TimeOut, Reclaim, StampLock, StampFails, OpenFails, Body, ReadDoc,
                FillNothing, WriteTmp, BodyThrows, ReleaseLock, Crash, Tick
<1>2. pc[d] = "rename" /\ file' = tmp[Pid(d)] /\ tmp[Pid(d)] # NoFile
  BY <1>1 DEF RenameTmp, Goto
<1>3. base[d] = file /\ tmp[Pid(d)] = base[d] \union {d} /\ (d \in Fills => ~Full(base[d]))
  BY <1>2 DEF StoreInv, ReadIsCurrent, TmpIsEdit, InBody
<1> QED  BY <1>2, <1>3

(* fillEmpty puts an entry only into a list that is still empty when it    *)
(* appears there, although check and write are three steps apart.          *)
THEOREM FillsFindEmpty == ASSUME Sound PROVE Spec => FillOnlyIntoEmpty
<1>1. StoreInv /\ [Next]_vars => [\A c \in Fills : c \in file' /\ c \notin file => ~Full(file)]_file
  BY FillStep
<1> QED
  BY <1>1, StoreInvariant, PTL DEF Spec, FillOnlyIntoEmpty
--------------------------------------------------------------------------------
(* Refinement.  Seen from outside, the read, the temporary file, the rename*)
(* and the lock around them are one atomic edit of the document.           *)

LEMMA StoreRefinesStep ==
  ASSUME Sound, TypeOK, TypeOK', LockInv, StoreInv, StoreInv', [Next]_vars
  PROVE  [Atomic!Next]_(Atomic!vars)
<1> DEFINE st == [c \in Calls |-> StatusOf(c)]
<1> DEFINE stays == file' = file /\ st' = st
<1>a. stays => UNCHANGED Atomic!vars
  BY DEF Atomic!vars
<1> USE DEF Goto, lockVars, TypeOK, Acquiring, Holding, Points, Outcomes
<1>1. ASSUME NEW c \in Calls, Enqueue(c) PROVE Atomic!Invoke(c)
  <2>1. st[c] = "idle" /\ st' = [st EXCEPT ![c] = "pending"]
    BY <1>1 DEF Enqueue, StatusOf, StoreInv, OutcomeIsLate
  <2> QED
    BY <1>1, <2>1 DEF Enqueue, Atomic!Invoke, Atomic!Move
<1>2. ASSUME NEW c \in Calls, Begin(c) PROVE stays
  BY <1>2 DEF Begin, StatusOf
<1>3. ASSUME NEW c \in Calls, Acquire(c) PROVE stays \/ Atomic!Refuse(c)
  <2>1. CASE CreateLock(c)   BY <2>1 DEF CreateLock, StatusOf
  <2>2. CASE LockExists(c)   BY <2>2 DEF LockExists, StatusOf
  <2>3. CASE StatVanished(c) BY <2>3 DEF StatVanished, StatusOf
  <2>4. CASE StatStale(c)    BY <2>4 DEF StatStale, StatusOf
  <2>5. CASE StatFresh(c)    BY <2>5 DEF StatFresh, StatusOf
  <2>6. CASE TimeOut(c) \/ StampFails(c) \/ OpenFails(c)
    <3>1. st[c] = "pending" /\ st' = [st EXCEPT ![c] = "failed"] /\ file' = file
      BY <2>6 DEF TimeOut, StampFails, OpenFails, StatusOf, StoreInv, OutcomeIsLate
    <3> QED
      BY <3>1 DEF Atomic!Refuse, Atomic!Move
  <2>7. CASE Reclaim(c)      BY <2>7 DEF Reclaim, StatusOf
  <2>8. CASE StampLock(c)    BY <2>8 DEF StampLock, StatusOf
  <2> QED BY <1>3, <2>1, <2>2, <2>3, <2>4, <2>5, <2>6, <2>7, <2>8 DEF Acquire
<1>4. ASSUME NEW c \in Calls, Body(c)
      PROVE  stays \/ Atomic!Commit(c) \/ Atomic!Return(c) \/ Atomic!Refuse(c)
  <2>1. CASE ReadDoc(c)     BY <2>1 DEF ReadDoc, StatusOf
  <2>2. CASE FillNothing(c)
    <3>1. st[c] = "pending" /\ st' = [st EXCEPT ![c] = "committed"] /\ file' = file
      BY <2>2 DEF FillNothing, StatusOf, StoreInv, OutcomeIsLate, InBody
    <3>2. c \in Fills /\ Full(file)
      BY <2>2 DEF FillNothing, StoreInv, ReadIsCurrent, InBody
    <3> QED
      BY <3>1, <3>2 DEF Atomic!Commit, Atomic!Move, Atomic!Full, Full
  <2>3. CASE WriteTmp(c)    BY <2>3 DEF WriteTmp, StatusOf
  <2>4. CASE RenameTmp(c)
    <3>1. st[c] = "pending" /\ st' = [st EXCEPT ![c] = "committed"]
      BY <2>4 DEF RenameTmp, StatusOf, StoreInv, OutcomeIsLate, InBody
    <3>2. file' = file \union {c} /\ ~(c \in Fills /\ Full(file))
      BY <2>4 DEF RenameTmp, StoreInv, ReadIsCurrent, TmpIsEdit, InBody
    <3> QED
      BY <3>1, <3>2 DEF Atomic!Commit, Atomic!Move, Atomic!Full, Full
  <2>5. CASE BodyThrows(c)
    BY <2>5 DEF BodyThrows, StatusOf, StoreInv, OutcomeIsLate, InBody
  <2>6. CASE ReleaseLock(c)
    <3>1. CASE outcome[c] = "failed"
      <4>1. st[c] = "pending" /\ st' = [st EXCEPT ![c] = "failed"] /\ file' = file
        BY <2>6, <3>1 DEF ReleaseLock, StatusOf
      <4> QED
        BY <4>1 DEF Atomic!Refuse, Atomic!Move
    <3>2. CASE outcome[c] # "failed"
      <4>1. st[c] = "committed" /\ st' = [st EXCEPT ![c] = "ok"] /\ file' = file
        BY <2>6, <3>2 DEF ReleaseLock, StatusOf, StoreInv, OutcomeIsSet
      <4> QED
        BY <4>1 DEF Atomic!Return, Atomic!Move
    <3> QED BY <3>1, <3>2
  <2> QED BY <1>4, <2>1, <2>2, <2>3, <2>4, <2>5, <2>6 DEF Body
<1>5. ASSUME NEW p \in Pods, Crash(p) PROVE Atomic!Crash
  <2> DEFINE dead == {c \in Calls : PodOf[c] = p /\ st[c] \in {"pending", "committed"}}
  <2>1. st' = [c \in Calls |-> IF c \in dead THEN "lost" ELSE st[c]]
    BY <1>5 DEF Crash, StatusOf
  <2>2. dead \in SUBSET {c \in Calls : st[c] \in {"pending", "committed"}}
    OBVIOUS
  <2>3. file' = file
    BY <1>5 DEF Crash
  <2> HIDE DEF dead
  <2> QED
    BY <2>1, <2>2, <2>3 DEF Atomic!Crash
<1>6. CASE Tick
  BY <1>6, <1>a DEF Tick, StatusOf
<1>7. CASE UNCHANGED vars
  BY <1>7, <1>a DEF vars, StatusOf
<1> HIDE DEF stays, st
<1> QED
  BY <1>a, <1>1, <1>2, <1>3, <1>4, <1>5, <1>6, <1>7 DEF Next, Atomic!Next

(* FileStore implements AtomicStore: to its callers, and to the lockless   *)
(* readers of the document, each edit happens at one instant.              *)
THEOREM ImplementsAtomicStore == ASSUME Sound PROVE Spec => AtomicSpec
<1>1. Init => Atomic!Init
  BY DEF Init, Atomic!Init, StatusOf
<1>2. TypeOK /\ TypeOK' /\ LockInv /\ StoreInv /\ StoreInv' /\ [Next]_vars
        => [Atomic!Next]_(Atomic!vars)
  BY StoreRefinesStep
<1> QED
  BY <1>1, <1>2, TypeCorrect, LockInvariant, StoreInvariant, PTL
  DEF Spec, AtomicSpec, Atomic!Spec
================================================================================
