---------------------------- MODULE RunnerProofs ----------------------------
(***************************************************************************)
(* The locks of Runner for any number of entries, folders, rounds in       *)
(* flight, callers and faults: one run for a folder, one goroutine for an  *)
(* account, and no lock that nobody holds, unless a round panicked.  The   *)
(* IDLE goroutines beside the rounds do nothing Runner does not provide    *)
(* for, so what is proved of Runner holds of the whole.  And the rounds    *)
(* and callers use SyncFolder as FolderRuns allows.                        *)
(***************************************************************************)
EXTENDS IdleLoop, TLAPS

WorkType == [pc : WorkerPcs, pos : Nat, saw : 0..MaxNews]

Past(w) == work[w].pc \in {"connect", "next", "sync"}

\* A run is within its list of folders, and holds the folder's lock.
InList == \A w \in Workers :
  /\ work[w].pos \in Nat \ {0}
  /\ work[w].pc = "sync" => work[w].pos <= Len(ListOf(w))

RunsHoldLocks ==
  \A k \in Keys :
    /\ \A w \in Workers : WorkerSyncs(w, k) => folderLock[k]
    /\ \A c \in Callers : CallSyncs(c, k) => folderLock[k]

PastHoldLocks == \A w \in Workers : Past(w) => accountLock[IdOfWorker(w)]

LockInv ==
  /\ RunnerTypeOK
  /\ InList
  /\ RunsHoldLocks
  /\ FolderExclusive
  /\ PastHoldLocks
  /\ AccountExclusive

-----------------------------------------------------------------------------
LEMMA KeyOfType ==
  ASSUME RunnerTypeOK, InList, NEW w \in Workers, work[w].pos <= Len(ListOf(w))
  PROVE  KeyOf(w) \in Keys
<1>1. IdOfWorker(w) \in Ids /\ ListOf(w) \in Seq(Folders)
  BY RunnerAssumption DEF IdOfWorker, ListOf, Workers
<1>2. work[w].pos \in 1..Len(ListOf(w))
  BY <1>1 DEF InList
<1> QED
  BY <1>1, <1>2 DEF KeyOf, Keys

LEMMA KeyOfCallType ==
  ASSUME NEW c \in Callers
  PROVE  KeyOfCall(c) \in Keys
  BY RunnerAssumption DEF KeyOfCall, Keys

\* A goroutine that goes on keeps its place in its list.
LEMMA MovesOn ==
  ASSUME work \in [Workers -> WorkType], NEW w \in Workers, NEW pc \in WorkerPcs,
         work' = [work EXCEPT ![w].pc = pc]
  PROVE  /\ work' \in [Workers -> WorkType]
         /\ work'[w].pc = pc
         /\ \A v \in Workers : /\ work'[v].pos = work[v].pos
                               /\ v # w => work'[v] = work[v]
<1>1. work[w] \in WorkType
  OBVIOUS
<1>2. [work[w] EXCEPT !.pc = pc] \in WorkType
  BY <1>1 DEF WorkType
<1>3. work' = [work EXCEPT ![w] = [work[w] EXCEPT !.pc = pc]]
  OBVIOUS
<1>4. [work[w] EXCEPT !.pc = pc].pc = pc /\ [work[w] EXCEPT !.pc = pc].pos = work[w].pos
  BY <1>1 DEF WorkType
<1> QED
  BY <1>2, <1>3, <1>4

LEMMA EndedIs == Ended.pc = "end" /\ Ended.pos = 1
  BY DEF Ended, At

LEMMA InitLocks == RunnerInit => LockInv
<1> SUFFICES ASSUME RunnerInit PROVE LockInv
  OBVIOUS
<1>1. RunnerTypeOK
  BY RunnerAssumption DEF RunnerInit, RunnerTypeOK, At, Away, WorkerPcs, CallPcs
<1>2. InList /\ RunsHoldLocks /\ PastHoldLocks
  BY DEF RunnerInit, InList, RunsHoldLocks, PastHoldLocks, Past, At, Away,
     WorkerSyncs, CallSyncs
<1>3. FolderExclusive /\ AccountExclusive
  BY DEF RunnerInit, FolderExclusive, AccountExclusive, WorkerSyncs, CallSyncs, At, Away
<1> QED
  BY <1>1, <1>2, <1>3 DEF LockInv

-----------------------------------------------------------------------------
(* Types and lists.                                                        *)

LEMMA FaultType ==
  ASSUME RunnerTypeOK, NEW kind, Fault(kind) \/ UNCHANGED faults
  PROVE  faults' \in 0..MaxFaults
  BY RunnerAssumption DEF RunnerTypeOK, Fault

LEMMA TypeStep ==
  ASSUME RunnerTypeOK, InList, RunnerNext
  PROVE  RunnerTypeOK'
<1> USE RunnerAssumption
<1>1. ASSUME NEW k \in Keys, Arrive(k) PROVE RunnerTypeOK'
  BY <1>1 DEF Arrive, RunnerTypeOK, lockVars
<1>2. ASSUME NEW r \in Rounds, RoundBegin(r) PROVE RunnerTypeOK'
  BY <1>2 DEF RoundBegin, RunnerTypeOK, At, WorkerPcs, lockVars
<1>3. ASSUME NEW r \in Rounds, RoundEnd(r) PROVE RunnerTypeOK'
  BY <1>3 DEF RoundEnd, RunnerTypeOK, AfterRound, lockVars
<1>4. ASSUME NEW w \in Workers, WorkerStep(w) PROVE RunnerTypeOK'
  <2>0. IdOfWorker(w) \in Ids
    BY DEF IdOfWorker, Workers
  <2>T. work \in [Workers -> WorkType] /\ Ended \in WorkType
    BY DEF RunnerTypeOK, WorkType, Ended, At, WorkerPcs
  <2>1. CASE WorkerStart(w)
    <3>1. \/ work' = [work EXCEPT ![w].pc = "connect"]
          \/ work' = [work EXCEPT ![w] = Ended]
      BY <2>1 DEF WorkerStart, AccountSkipped
    <3>2. work' \in [Workers -> WorkType]
      <4>1. CASE work' = [work EXCEPT ![w] = Ended]
        BY <4>1, <2>T
      <4>2. CASE work' = [work EXCEPT ![w].pc = "connect"]
        BY <2>T, <4>2, MovesOn DEF WorkerPcs
      <4> QED
        BY <3>1, <4>1, <4>2
    <3> QED
      BY <2>0, <2>1, <3>2 DEF WorkerStart, RunnerTypeOK, WorkType
  <2>2. CASE WorkerConnect(w)
    <3>1. faults' \in 0..MaxFaults
      BY <2>2 DEF WorkerConnect, Fault, RunnerTypeOK
    <3>0. \/ work' = [work EXCEPT ![w].pc = "next"]
          \/ work' = [work EXCEPT ![w] = Ended]
      BY <2>2 DEF WorkerConnect
    <3>2. work' \in [Workers -> WorkType]
      <4>1. CASE work' = [work EXCEPT ![w] = Ended]
        BY <4>1, <2>T
      <4>2. CASE work' = [work EXCEPT ![w].pc = "next"]
        BY <2>T, <4>2, MovesOn DEF WorkerPcs
      <4> QED
        BY <3>0, <4>1, <4>2
    <3>3. accountLock' \in [Ids -> BOOLEAN]
      BY <2>0, <2>2 DEF WorkerConnect, UnlockId, RunnerTypeOK
    <3> QED
      BY <2>2, <3>1, <3>2, <3>3 DEF WorkerConnect, RunnerTypeOK, WorkType
  <2>3. CASE WorkerSkip(w)
    BY <2>3 DEF WorkerSkip, MoreFolders, RunnerTypeOK, WorkerPcs, lockVars
  <2>4. CASE WorkerLock(w)
    <3>1. KeyOf(w) \in Keys
      BY <2>4, KeyOfType DEF WorkerLock, MoreFolders
    <3> QED
      BY <2>4, <3>1 DEF WorkerLock, MoreFolders, Lock, RunnerTypeOK, WorkerPcs
  <2>5. CASE WorkerSynced(w)
    <3>1. KeyOf(w) \in Keys
      BY <2>5, KeyOfType DEF WorkerSynced, InList
    <3>2. faults' \in 0..MaxFaults
      BY <2>5 DEF WorkerSynced, Fault, RunnerTypeOK
    <3>3. work[w].saw \in 0..MaxNews
      BY DEF RunnerTypeOK
    <3>4. have' \in [Keys -> 0..MaxNews]
      BY <2>5, <3>1, <3>3 DEF WorkerSynced, Imported, RunnerTypeOK
    <3>5. work' \in [Workers -> [pc : WorkerPcs, pos : Nat, saw : 0..MaxNews]]
      BY <2>5 DEF WorkerSynced, RunnerTypeOK, WorkerPcs
    <3> QED
      BY <2>5, <3>1, <3>2, <3>4, <3>5 DEF WorkerSynced, Unlock, RunnerTypeOK
  <2>6. CASE WorkerPanic(w)
    BY <2>0, <2>6 DEF WorkerPanic, Fault, Ended, At, UnlockId, RunnerTypeOK, WorkerPcs
  <2>7. CASE WorkerFinish(w)
    BY <2>0, <2>7 DEF WorkerFinish, Ended, At, UnlockId, RunnerTypeOK, WorkerPcs
  <2> QED
    BY <1>4, <2>1, <2>2, <2>3, <2>4, <2>5, <2>6, <2>7 DEF WorkerStep
<1>5. ASSUME NEW c \in Callers, CallStep(c) PROVE RunnerTypeOK'
  <2>0. KeyOfCall(c) \in Keys
    BY KeyOfCallType
  <2>1. CASE CallLock(c)
    BY <2>0, <2>1 DEF CallLock, TryLockOne, Lock, RunnerTypeOK, CallPcs
  <2>2. CASE CallConnect(c)
    BY <2>0, <2>2 DEF CallConnect, RunnerTypeOK, CallPcs, lockVars
  <2>3. CASE CallSynced(c)
    <3>1. call[c].saw \in 0..MaxNews
      BY DEF RunnerTypeOK
    <3> QED
      BY <2>0, <2>3, <3>1 DEF CallSynced, UnlockOne, Unlock, Imported, Away, RunnerTypeOK, CallPcs
  <2>4. CASE CallFailed(c)
    BY <2>0, <2>4 DEF CallFailed, Fault, UnlockOne, Unlock, Away, RunnerTypeOK, CallPcs
  <2>5. CASE CallPanicked(c)
    BY <2>0, <2>5 DEF CallPanicked, Fault, UnlockOne, Unlock, Away, RunnerTypeOK, CallPcs
  <2> QED
    BY <1>5, <2>1, <2>2, <2>3, <2>4, <2>5 DEF CallStep
<1> QED
  BY <1>1, <1>2, <1>3, <1>4, <1>5 DEF RunnerNext, RunAllNext

LEMMA InListStep ==
  ASSUME RunnerTypeOK, InList, RunnerNext
  PROVE  InList'
<1> USE DEF InList, RunnerTypeOK, ListOf
<1>1. CASE work' = work
  BY <1>1
<1>2. ASSUME NEW r \in Rounds, RoundBegin(r) PROVE InList'
  BY <1>2 DEF RoundBegin, At
<1>3. ASSUME NEW w \in Workers, WorkerStep(w) PROVE InList'
  <2>1. CASE work' = [work EXCEPT ![w] = Ended]
    BY <2>1, EndedIs
  <2>2. CASE \/ work' = [work EXCEPT ![w].pc = "connect"]
             \/ work' = [work EXCEPT ![w].pc = "next"]
    <3>1. work \in [Workers -> WorkType] /\ {"connect", "next"} \subseteq WorkerPcs
      BY DEF WorkType, WorkerPcs
    <3>2. /\ work'[w].pc \in {"connect", "next"}
          /\ \A v \in Workers : /\ work'[v].pos = work[v].pos
                                /\ v # w => work'[v] = work[v]
      BY <2>2, <3>1, MovesOn, Zenon
    <3> QED
      BY <3>2
  <2>3. CASE WorkerSkip(w)
    BY <2>3 DEF WorkerSkip, MoreFolders
  <2>4. CASE WorkerLock(w)
    BY <2>4 DEF WorkerLock, MoreFolders
  <2>5. CASE WorkerSynced(w)
    BY <2>5 DEF WorkerSynced
  <2> QED
    BY <1>3, <2>1, <2>2, <2>3, <2>4, <2>5
    DEF WorkerStep, WorkerStart, AccountSkipped, WorkerConnect, WorkerPanic, WorkerFinish
<1>4. \/ work' = work
      \/ \E r \in Rounds : RoundBegin(r)
      \/ \E w \in Workers : WorkerStep(w)
  BY DEF RunnerNext, RunAllNext, Arrive, RoundEnd, CallStep, CallLock, CallConnect,
     CallSynced, CallFailed, CallPanicked
<1> QED
  BY <1>1, <1>2, <1>3, <1>4

-----------------------------------------------------------------------------
(* Three ways a step can change the folder locks.                          *)

LEMMA LocksKept ==
  ASSUME FolderExclusive, RunsHoldLocks,
         \A k \in Keys, w \in Workers : WorkerSyncs(w, k)' => WorkerSyncs(w, k),
         \A k \in Keys, c \in Callers : CallSyncs(c, k)' => CallSyncs(c, k),
         folderLock' = folderLock
  PROVE  FolderExclusive' /\ RunsHoldLocks'
<1>1. FolderExclusive'
  BY DEF FolderExclusive
<1>2. RunsHoldLocks'
  BY DEF RunsHoldLocks
<1> QED
  BY <1>1, <1>2

\* The run that ends was the only one of its folder.
LEMMA LockReleased ==
  ASSUME RunnerTypeOK, FolderExclusive, RunsHoldLocks, NEW k0 \in Keys,
         \A k \in Keys, w \in Workers : WorkerSyncs(w, k)' => WorkerSyncs(w, k) /\ k # k0,
         \A k \in Keys, c \in Callers : CallSyncs(c, k)' => CallSyncs(c, k) /\ k # k0,
         Unlock(k0)
  PROVE  FolderExclusive' /\ RunsHoldLocks'
<1>1. FolderExclusive'
  BY DEF FolderExclusive
<1>2. \A k \in Keys : k # k0 => folderLock'[k] = folderLock[k]
  BY DEF Unlock, RunnerTypeOK
<1>3. RunsHoldLocks'
  BY <1>2 DEF RunsHoldLocks
<1> QED
  BY <1>1, <1>3

\* The run that begins, of a round or of a call, finds nobody at the folder.
LEMMA LockTaken ==
  ASSUME RunnerTypeOK, FolderExclusive, RunsHoldLocks, NEW k0 \in Keys, Lock(k0),
         \/ /\ \E w0 \in Workers : \A k \in Keys, w \in Workers :
                 WorkerSyncs(w, k)' => WorkerSyncs(w, k) \/ (w = w0 /\ k = k0)
            /\ \A k \in Keys, c \in Callers : CallSyncs(c, k)' => CallSyncs(c, k)
         \/ /\ \A k \in Keys, w \in Workers : WorkerSyncs(w, k)' => WorkerSyncs(w, k)
            /\ \E c0 \in Callers : \A k \in Keys, c \in Callers :
                 CallSyncs(c, k)' => CallSyncs(c, k) \/ (c = c0 /\ k = k0)
  PROVE  FolderExclusive' /\ RunsHoldLocks'
<1>1. /\ \A w \in Workers : ~WorkerSyncs(w, k0)
      /\ \A c \in Callers : ~CallSyncs(c, k0)
  BY DEF Lock, RunsHoldLocks
<1>2. FolderExclusive'
  BY <1>1 DEF FolderExclusive
<1>3. folderLock'[k0] /\ \A k \in Keys : k # k0 => folderLock'[k] = folderLock[k]
  BY DEF Lock, RunnerTypeOK
<1>4. RunsHoldLocks'
  BY <1>3 DEF RunsHoldLocks
<1> QED
  BY <1>2, <1>4

LEMMA FolderStep ==
  ASSUME RunnerTypeOK, InList, FolderExclusive, RunsHoldLocks, RunnerNext
  PROVE  FolderExclusive' /\ RunsHoldLocks'
<1> USE DEF WorkerSyncs, CallSyncs, KeyOf, ListOf, IdOfWorker, KeyOfCall
<1>1. ASSUME NEW k \in Keys, Arrive(k) PROVE FolderExclusive' /\ RunsHoldLocks'
  BY <1>1, LocksKept DEF Arrive, lockVars
<1>2. ASSUME NEW r \in Rounds, RoundBegin(r) PROVE FolderExclusive' /\ RunsHoldLocks'
  BY <1>2, LocksKept DEF RoundBegin, At, lockVars
<1>3. ASSUME NEW r \in Rounds, RoundEnd(r) PROVE FolderExclusive' /\ RunsHoldLocks'
  BY <1>3, LocksKept DEF RoundEnd, lockVars
<1>4. ASSUME NEW w \in Workers, WorkerStep(w) PROVE FolderExclusive' /\ RunsHoldLocks'
  <2>0. \A v \in Workers : v # w => work'[v] = work[v]
    BY <1>4 DEF WorkerStep, WorkerStart, AccountSkipped, WorkerConnect, WorkerSkip, WorkerLock,
       WorkerSynced, WorkerPanic, WorkerFinish, RunnerTypeOK
  <2>1. CASE work'[w].pc # "sync" /\ folderLock' = folderLock /\ call' = call
    BY <2>0, <2>1, LocksKept
  <2>2. CASE WorkerLock(w)
    <3>1. KeyOf(w) \in Keys
      BY <2>2, KeyOfType DEF WorkerLock, MoreFolders
    <3>2. work'[w].pos = work[w].pos /\ call' = call /\ Lock(KeyOf(w))
      BY <2>2 DEF WorkerLock, MoreFolders, RunnerTypeOK
    <3>3. \A k \in Keys, v \in Workers :
            WorkerSyncs(v, k)' => WorkerSyncs(v, k) \/ (v = w /\ k = KeyOf(w))
      BY <2>0, <3>2
    <3> QED
      BY <3>1, <3>2, <3>3, LockTaken
  <2>3. CASE WorkerSynced(w)
    <3>1. KeyOf(w) \in Keys /\ WorkerSyncs(w, KeyOf(w))
      BY <2>3, KeyOfType DEF WorkerSynced, InList
    <3>2. work'[w].pc # "sync" /\ call' = call /\ Unlock(KeyOf(w))
      BY <2>3 DEF WorkerSynced, RunnerTypeOK
    <3>3. \A k \in Keys, v \in Workers :
            WorkerSyncs(v, k)' => WorkerSyncs(v, k) /\ k # KeyOf(w)
      BY <2>0, <3>1, <3>2 DEF FolderExclusive
    <3>4. \A k \in Keys, c \in Callers :
            CallSyncs(c, k)' => CallSyncs(c, k) /\ k # KeyOf(w)
      BY <3>1, <3>2 DEF FolderExclusive
    <3> QED
      BY <3>1, <3>2, <3>3, <3>4, LockReleased
  <2> QED
    BY <1>4, <2>1, <2>2, <2>3, EndedIs
    DEF WorkerStep, WorkerStart, AccountSkipped, WorkerConnect, WorkerSkip, MoreFolders,
        WorkerPanic, WorkerFinish, lockVars, RunnerTypeOK
<1>5. ASSUME NEW c \in Callers, CallStep(c) PROVE FolderExclusive' /\ RunsHoldLocks'
  <2>0. /\ KeyOfCall(c) \in Keys
        /\ work' = work
        /\ \A d \in Callers : d # c => call'[d] = call[d]
    BY <1>5, KeyOfCallType DEF CallStep, CallLock, CallConnect, CallSynced, CallFailed,
       CallPanicked, RunnerTypeOK
  <2>1. CASE CallConnect(c)
    BY <2>0, <2>1, LocksKept DEF CallConnect, lockVars
  <2>2. CASE CallLock(c)
    <3>1. \A k \in Keys, d \in Callers :
            CallSyncs(d, k)' => CallSyncs(d, k) \/ (d = c /\ k = KeyOfCall(c))
      BY <2>0
    <3> QED
      BY <2>0, <2>2, <3>1, LockTaken DEF CallLock, TryLockOne
  <2>3. CASE CallSynced(c) \/ CallFailed(c) \/ CallPanicked(c)
    <3>1. /\ CallSyncs(c, KeyOfCall(c))
          /\ call'[c].pc = "away"
          /\ Unlock(KeyOfCall(c))
      BY <2>3 DEF CallSynced, CallFailed, CallPanicked, UnlockOne, Away, RunnerTypeOK
    <3>2. \A k \in Keys, d \in Callers :
            CallSyncs(d, k)' => CallSyncs(d, k) /\ k # KeyOfCall(c)
      BY <2>0, <3>1 DEF FolderExclusive
    <3>3. \A k \in Keys, w \in Workers :
            WorkerSyncs(w, k)' => WorkerSyncs(w, k) /\ k # KeyOfCall(c)
      BY <2>0, <3>1 DEF FolderExclusive
    <3> QED
      BY <2>0, <3>1, <3>2, <3>3, LockReleased
  <2> QED
    BY <1>5, <2>1, <2>2, <2>3 DEF CallStep
<1> QED
  BY <1>1, <1>2, <1>3, <1>4, <1>5 DEF RunnerNext, RunAllNext

-----------------------------------------------------------------------------
(* The account locks.                                                      *)

LEMMA AccountStep ==
  ASSUME RunnerTypeOK, AccountExclusive, PastHoldLocks, RunnerNext
  PROVE  AccountExclusive' /\ PastHoldLocks'
<1> USE DEF IdOfWorker, Past
<1>0. \A w \in Workers : IdOfWorker(w) \in Ids
  BY RunnerAssumption DEF Workers
<1>1. CASE accountLock' = accountLock /\ \A w \in Workers : Past(w)' => Past(w)
  BY <1>1 DEF AccountExclusive, PastHoldLocks
<1>2. ASSUME NEW r \in Rounds, RoundBegin(r) PROVE AccountExclusive' /\ PastHoldLocks'
  BY <1>1, <1>2 DEF RoundBegin, At, lockVars
<1>3. ASSUME NEW w \in Workers, WorkerStep(w) PROVE AccountExclusive' /\ PastHoldLocks'
  <2>0. \A v \in Workers : v # w => work'[v] = work[v]
    BY <1>3 DEF WorkerStep, WorkerStart, AccountSkipped, WorkerConnect, WorkerSkip, WorkerLock,
       WorkerSynced, WorkerPanic, WorkerFinish, RunnerTypeOK
  <2>1. CASE /\ work[w].pc = "start"
             /\ ~accountLock[IdOfWorker(w)]
             /\ accountLock' = [accountLock EXCEPT ![IdOfWorker(w)] = TRUE]
    <3>1. \A v \in Workers : Past(v) => IdOfWorker(v) # IdOfWorker(w)
      BY <2>1 DEF PastHoldLocks
    <3>2. \A v \in Workers : Past(v)' => v = w \/ Past(v)
      BY <2>0
    <3>3. \A i \in Ids : accountLock'[i] <=> accountLock[i] \/ i = IdOfWorker(w)
      BY <2>1 DEF RunnerTypeOK
    <3>4. AccountExclusive'
      BY <3>1, <3>2 DEF AccountExclusive
    <3> QED
      BY <1>0, <3>2, <3>3, <3>4 DEF PastHoldLocks
  <2>2. CASE Past(w) /\ ~Past(w)' /\ UnlockId(IdOfWorker(w))
    <3>1. \A v \in Workers : Past(v)' => Past(v) /\ IdOfWorker(v) # IdOfWorker(w)
      BY <2>0, <2>2 DEF AccountExclusive
    <3>2. \A i \in Ids : i # IdOfWorker(w) => accountLock'[i] = accountLock[i]
      BY <2>2 DEF UnlockId, RunnerTypeOK
    <3> QED
      BY <1>0, <3>1, <3>2 DEF AccountExclusive, PastHoldLocks
  <2>3. CASE accountLock' = accountLock /\ (Past(w)' => Past(w))
    BY <1>1, <2>0, <2>3
  <2>4. CASE WorkerStart(w)
    BY <2>1, <2>3, <2>4, EndedIs DEF WorkerStart, CanTake, AccountSkipped, RunnerTypeOK
  <2>5. CASE WorkerConnect(w) \/ WorkerPanic(w) \/ WorkerFinish(w)
    BY <2>2, <2>3, <2>5, EndedIs DEF WorkerConnect, WorkerPanic, WorkerFinish, RunnerTypeOK
  <2>6. CASE WorkerSkip(w) \/ WorkerLock(w) \/ WorkerSynced(w)
    BY <2>3, <2>6 DEF WorkerSkip, WorkerLock, WorkerSynced, MoreFolders, lockVars, RunnerTypeOK
  <2> QED
    BY <1>3, <2>4, <2>5, <2>6 DEF WorkerStep
<1>4. \/ accountLock' = accountLock /\ work' = work
      \/ \E r \in Rounds : RoundBegin(r)
      \/ \E w \in Workers : WorkerStep(w)
  BY DEF RunnerNext, RunAllNext, Arrive, RoundEnd, CallStep, CallLock, CallConnect,
     CallSynced, CallFailed, CallPanicked, lockVars
<1> QED
  BY <1>1, <1>2, <1>3, <1>4

-----------------------------------------------------------------------------
LEMMA LockInvStep == LockInv /\ [RunnerNext]_runnerVars => LockInv'
<1> SUFFICES ASSUME LockInv, [RunnerNext]_runnerVars PROVE LockInv'
  OBVIOUS
<1>1. CASE RunnerNext
  BY <1>1, TypeStep, InListStep, FolderStep, AccountStep DEF LockInv
<1>2. CASE UNCHANGED runnerVars
  BY <1>2 DEF runnerVars, lockVars, LockInv, RunnerTypeOK, InList, ListOf, RunsHoldLocks,
     FolderExclusive, WorkerSyncs, CallSyncs, KeyOf, KeyOfCall, IdOfWorker, PastHoldLocks,
     AccountExclusive, Past
<1> QED
  BY <1>1, <1>2

THEOREM LocksInvariant == RunnerSpec => []LockInv
  BY InitLocks, LockInvStep, PTL DEF RunnerSpec

\* At most one SyncFolder run works on a folder, whoever starts it and whatever
\* fails: the assumption under which SyncFolder.tla has one run for each folder.
THEOREM OneRunForAFolder == RunnerSpec => []FolderExclusive
<1>1. LockInv => FolderExclusive
  BY DEF LockInv
<1> QED
  BY <1>1, LocksInvariant, PTL

\* Rounds that overlap, and entries of the same id, never work on one account
\* at the same time.
THEOREM OneWorkerForAnAccount == RunnerSpec => []AccountExclusive
<1>1. LockInv => AccountExclusive
  BY DEF LockInv
<1> QED
  BY <1>1, LocksInvariant, PTL

-----------------------------------------------------------------------------
(* Without panics: every lock that is held is held for a run.              *)

\* The goroutines of a round that has not begun are not there.
RoundQuiet ==
  \A r \in Rounds : round[r] = "ready" =>
    \A e \in Entries : work[<<r, e>>].pc \in {"off", "end"}

BusyInv == LockInv /\ RoundQuiet /\ BusyMeansSyncing

LEMMA InitBusy == RunnerInit => BusyInv
  BY InitLocks DEF RunnerInit, BusyInv, RoundQuiet, BusyMeansSyncing, Synced, Workers, At

LEMMA RoundQuietStep ==
  ASSUME RunnerTypeOK, RoundQuiet, RunnerNext
  PROVE  RoundQuiet'
<1> USE DEF RoundQuiet, Workers
<1>1. CASE work' = work /\ round' = round
  BY <1>1
<1>2. ASSUME NEW r \in Rounds, RoundBegin(r) PROVE RoundQuiet'
  BY <1>2 DEF RoundBegin, RunnerTypeOK
<1>3. ASSUME NEW r \in Rounds, RoundEnd(r) PROVE RoundQuiet'
  BY <1>3 DEF RoundEnd, RunnerTypeOK
<1>4. ASSUME NEW w \in Workers, WorkerStep(w) PROVE RoundQuiet'
  <2>1. work[w].pc \in {"start", "connect", "next", "sync"} /\ round' = round
    BY <1>4 DEF WorkerStep, WorkerStart, WorkerConnect, WorkerSkip, WorkerLock,
       WorkerSynced, WorkerPanic, WorkerFinish, MoreFolders
  <2>2. \A v \in Workers : v # w => work'[v] = work[v]
    BY <1>4 DEF WorkerStep, WorkerStart, AccountSkipped, WorkerConnect, WorkerSkip, WorkerLock,
       WorkerSynced, WorkerPanic, WorkerFinish, RunnerTypeOK
  <2>3. PICK r \in Rounds, e \in Entries : w = <<r, e>>
    OBVIOUS
  <2>4. round[r] # "ready"
    BY <2>1, <2>3
  <2> QED
    BY <2>1, <2>2, <2>3, <2>4
<1>5. \/ work' = work /\ round' = round
      \/ \E r \in Rounds : RoundBegin(r) \/ RoundEnd(r)
      \/ \E w \in Workers : WorkerStep(w)
  BY DEF RunnerNext, RunAllNext, Arrive, CallStep, CallLock, CallConnect,
     CallSynced, CallFailed, CallPanicked
<1> QED
  BY <1>1, <1>2, <1>3, <1>4, <1>5

\* A folder that is free or being synced is so after a step too, unless a
\* goroutine of a round panics in it.
LEMMA BusyStep ==
  ASSUME RunnerTypeOK, InList, RoundQuiet, RunnerNext,
         NEW k \in Keys, folderLock[k] => Synced(k),
         \A w \in Workers : WorkerSyncs(w, k) => ~WorkerPanic(w)
  PROVE  folderLock'[k] => Synced(k)'
<1> USE DEF WorkerSyncs, CallSyncs, KeyOf, ListOf, IdOfWorker, KeyOfCall
<1>0. ASSUME folderLock' = folderLock \/ (folderLock'[k] => folderLock[k]),
             \A w \in Workers : WorkerSyncs(w, k) => WorkerSyncs(w, k)',
             \A c \in Callers : CallSyncs(c, k) => CallSyncs(c, k)'
      PROVE  folderLock'[k] => Synced(k)'
  BY <1>0 DEF Synced
<1>1. ASSUME NEW j \in Keys, Arrive(j) PROVE folderLock'[k] => Synced(k)'
  BY <1>0, <1>1 DEF Arrive, lockVars
<1>2. ASSUME NEW r \in Rounds, RoundBegin(r) PROVE folderLock'[k] => Synced(k)'
  <2>1. \A w \in Workers : work[w].pc = "sync" => work'[w] = work[w]
    BY <1>2 DEF RoundBegin, RoundQuiet, Workers
  <2> QED
    BY <1>0, <1>2, <2>1 DEF RoundBegin, lockVars
<1>3. ASSUME NEW r \in Rounds, RoundEnd(r) PROVE folderLock'[k] => Synced(k)'
  BY <1>0, <1>3 DEF RoundEnd, lockVars
<1>4. ASSUME NEW w \in Workers, WorkerStep(w) PROVE folderLock'[k] => Synced(k)'
  <2>0. \A v \in Workers : v # w => work'[v] = work[v]
    BY <1>4 DEF WorkerStep, WorkerStart, AccountSkipped, WorkerConnect, WorkerSkip, WorkerLock,
       WorkerSynced, WorkerPanic, WorkerFinish, RunnerTypeOK
  <2>1. CASE work[w].pc # "sync" /\ folderLock' = folderLock /\ call' = call
    BY <1>0, <2>0, <2>1
  <2>2. CASE WorkerLock(w)
    <3>1. work'[w].pos = work[w].pos /\ work'[w].pc = "sync" /\ call' = call /\ Lock(KeyOf(w))
      BY <2>2 DEF WorkerLock, MoreFolders, RunnerTypeOK
    <3>2. WorkerSyncs(w, KeyOf(w))'
      BY <3>1
    <3>3. k # KeyOf(w) => folderLock'[k] = folderLock[k]
      BY <3>1 DEF Lock, RunnerTypeOK
    <3>4. \A v \in Workers : WorkerSyncs(v, k) => WorkerSyncs(v, k)'
      BY <2>0, <2>2 DEF WorkerLock, MoreFolders
    <3> QED
      BY <3>1, <3>2, <3>3, <3>4 DEF Synced
  <2>3. CASE WorkerSynced(w)
    <3>1. KeyOf(w) \in Keys
      BY <2>3, KeyOfType DEF WorkerSynced, InList
    <3>2. folderLock'[k] => k # KeyOf(w) /\ folderLock[k]
      BY <2>3, <3>1 DEF WorkerSynced, Unlock, RunnerTypeOK
    <3>3. \A v \in Workers : k # KeyOf(w) /\ WorkerSyncs(v, k) => WorkerSyncs(v, k)'
      BY <2>0
    <3>4. call' = call
      BY <2>3 DEF WorkerSynced
    <3> QED
      BY <3>2, <3>3, <3>4 DEF Synced
  <2>4. CASE WorkerPanic(w)
    <3>1. ~WorkerSyncs(w, k)
      BY <2>4
    <3>2. folderLock' = folderLock /\ call' = call
      BY <2>4 DEF WorkerPanic
    <3>3. \A v \in Workers : WorkerSyncs(v, k) => WorkerSyncs(v, k)'
      BY <2>0, <3>1
    <3> QED
      BY <1>0, <3>2, <3>3
  <2> QED
    BY <1>4, <2>0, <2>1, <2>2, <2>3, <2>4
    DEF WorkerStep, WorkerStart, WorkerConnect, WorkerSkip, MoreFolders, WorkerFinish, lockVars
<1>5. ASSUME NEW c \in Callers, CallStep(c) PROVE folderLock'[k] => Synced(k)'
  <2>0. /\ KeyOfCall(c) \in Keys
        /\ work' = work
        /\ \A d \in Callers : d # c => call'[d] = call[d]
    BY <1>5, KeyOfCallType DEF CallStep, CallLock, CallConnect, CallSynced, CallFailed,
       CallPanicked, RunnerTypeOK
  <2>1. CASE CallLock(c) \/ CallConnect(c)
    <3>1. call'[c].pc \in {"connect", "sync"}
      BY <2>1 DEF CallLock, CallConnect, RunnerTypeOK
    <3>2. folderLock'[k] => k = KeyOfCall(c) \/ folderLock[k]
      BY <2>0, <2>1 DEF CallLock, CallConnect, TryLockOne, Lock, RunnerTypeOK, lockVars
    <3>3. \A d \in Callers : CallSyncs(d, k) => CallSyncs(d, k)'
      BY <2>0, <3>1
    <3>4. \A w \in Workers : WorkerSyncs(w, k) => WorkerSyncs(w, k)'
      BY <2>0
    <3>5. CallSyncs(c, KeyOfCall(c))'
      BY <3>1
    <3> QED
      BY <3>2, <3>3, <3>4, <3>5 DEF Synced
  <2>2. CASE CallSynced(c) \/ CallFailed(c) \/ CallPanicked(c)
    <3>1. folderLock'[k] => k # KeyOfCall(c) /\ folderLock[k]
      BY <2>0, <2>2 DEF CallSynced, CallFailed, CallPanicked, UnlockOne, Unlock, RunnerTypeOK
    <3>2. \A d \in Callers : k # KeyOfCall(c) /\ CallSyncs(d, k) => CallSyncs(d, k)'
      BY <2>0
    <3>3. \A w \in Workers : WorkerSyncs(w, k) => WorkerSyncs(w, k)'
      BY <2>0
    <3> QED
      BY <3>1, <3>2, <3>3 DEF Synced
  <2> QED
    BY <1>5, <2>1, <2>2 DEF CallStep
<1> QED
  BY <1>1, <1>2, <1>3, <1>4, <1>5 DEF RunnerNext, RunAllNext

LEMMA BusyInvStep ==
  ASSUME "panic" \notin Faults
  PROVE  BusyInv /\ [RunnerNext]_runnerVars => BusyInv'
<1> SUFFICES ASSUME BusyInv, [RunnerNext]_runnerVars PROVE BusyInv'
  OBVIOUS
<1>1. LockInv'
  BY LockInvStep DEF BusyInv
<1>2. CASE RunnerNext
  <2>1. \A w \in Workers : ~WorkerPanic(w)
    BY DEF WorkerPanic, Fault
  <2>2. BusyMeansSyncing'
    BY <1>2, <2>1, BusyStep DEF BusyInv, LockInv, BusyMeansSyncing
  <2> QED
    BY <1>1, <1>2, <2>2, RoundQuietStep DEF BusyInv, LockInv
<1>3. CASE UNCHANGED runnerVars
  BY <1>1, <1>3 DEF runnerVars, lockVars, BusyInv, RoundQuiet, BusyMeansSyncing, Synced,
     WorkerSyncs, CallSyncs, KeyOf, ListOf, KeyOfCall, IdOfWorker
<1> QED
  BY <1>2, <1>3

\* As long as SyncFolder does not panic, a folder that is skipped as busy is being
\* synced by somebody: no way out of a run forgets the lock.
THEOREM BusyFolderIsSynced ==
  ASSUME "panic" \notin Faults
  PROVE  RunnerSpec => []BusyMeansSyncing
<1>1. BusyInv => BusyMeansSyncing
  BY DEF BusyInv
<1> QED
  BY <1>1, InitBusy, BusyInvStep, PTL DEF RunnerSpec

\* With panics: whatever else ends a run unlocks its folder, so a folder that is
\* left locked was left by a goroutine of a round that panicked in it.
LEMMA QuietRounds == RunnerSpec => [](LockInv /\ RoundQuiet)
<1>1. RunnerInit => LockInv /\ RoundQuiet
  BY InitBusy DEF BusyInv
<1>2. LockInv /\ RoundQuiet /\ [RunnerNext]_runnerVars => (LockInv /\ RoundQuiet)'
  BY LockInvStep, RoundQuietStep DEF LockInv, RoundQuiet, runnerVars
<1> QED
  BY <1>1, <1>2, PTL DEF RunnerSpec

\* A folder lock that nobody holds is there because a goroutine of a round panicked
\* inside SyncFolder (syncAccount): no error path and no skip leaves one behind.
THEOREM LocksLeftByPanics == RunnerSpec => OnlyPanicsLeaveLocked
<1>1. ASSUME LockInv, RoundQuiet, RunnerNext,
             NEW k \in Keys, ~LeftLocked(k), LeftLocked(k)'
      PROVE  \E w \in Workers : WorkerSyncs(w, k) /\ WorkerPanic(w)
  BY <1>1, BusyStep DEF LockInv, LeftLocked
<1>2. LockInv /\ RoundQuiet /\ [RunnerNext]_runnerVars =>
        [\A k \in Keys :
           ~LeftLocked(k) /\ LeftLocked(k)' =>
             \E w \in Workers : WorkerSyncs(w, k) /\ WorkerPanic(w)]_runnerVars
  BY <1>1
<1> QED
  BY <1>2, QuietRounds, PTL DEF RunnerSpec, OnlyPanicsLeaveLocked

-----------------------------------------------------------------------------
(* Rounds and callers as runners of FolderRuns.                            *)

\* A folder whose runs stay the same, while messages come and none is forgotten.
LEMMA RunsStay ==
  ASSUME RunnerTypeOK, NEW k \in Keys,
         have'[k] \in Nat, have[k] <= have'[k],
         \A w \in Workers : WorkerSyncs(w, k)' <=> WorkerSyncs(w, k),
         \A w \in Workers : WorkerSyncs(w, k) => work'[w].saw = work[w].saw,
         \A c \in Callers : KeyOfCall(c) = k => (call'[c].pc = "sync" <=> call[c].pc = "sync"),
         \A c \in Callers : KeyOfCall(c) = k /\ call[c].pc = "sync" => call'[c].saw = call[c].saw
  PROVE  Runs!Change(k)
<1>1. RunsOn(k)' = RunsOn(k)
  BY DEF RunsOn, KeyOfCall
<1>2. (1..have[k]) \cap (1..news'[k]) \subseteq 1..have'[k]
  BY DEF RunnerTypeOK
<1>3. QED
  BY <1>1, <1>2 DEF Runs!Change

\* The run on a folder is alone on it.
LEMMA OneWorkerOn ==
  ASSUME LockInv, NEW k \in Keys, NEW w \in Workers, WorkerSyncs(w, k)
  PROVE  RunsOn(k) = {<<w, 1..work[w].saw>>}
<1>1. {v \in Workers : WorkerSyncs(v, k)} = {w}
  BY DEF LockInv, FolderExclusive
<1>2. {d \in Callers : call[d].pc = "sync" /\ KeyOfCall(d) = k} = {}
  BY DEF LockInv, FolderExclusive, CallSyncs
<1>3. QED
  BY <1>1, <1>2 DEF RunsOn

LEMMA OneCallOn ==
  ASSUME LockInv, NEW c \in Callers, call[c].pc = "sync"
  PROVE  RunsOn(KeyOfCall(c)) = {<<c, 1..call[c].saw>>}
<1>0. KeyOfCall(c) \in Keys /\ CallSyncs(c, KeyOfCall(c))
  BY KeyOfCallType DEF CallSyncs
<1>1. {v \in Workers : WorkerSyncs(v, KeyOfCall(c))} = {}
  BY <1>0 DEF LockInv, FolderExclusive
<1>2. {d \in Callers : call[d].pc = "sync" /\ KeyOfCall(d) = KeyOfCall(c)} = {c}
  BY <1>0 DEF LockInv, FolderExclusive, CallSyncs
<1>3. QED
  BY <1>1, <1>2 DEF RunsOn

\* What a run that ends without a failure has promised.
LEMMA RunEndsWell ==
  ASSUME RunnerTypeOK, NEW k \in Keys, NEW who, NEW n \in Nat,
         RunsOn(k) = {<<who, 1..n>>}, RunsOn(k)' = {},
         news'[k] = news[k], Imported(k, n)
  PROVE  Runs!End(k)
<1>1. have'[k] \in Nat /\ have[k] \in Nat /\ have[k] <= have'[k] /\ n <= have'[k]
  BY DEF Imported, RunnerTypeOK
<1>2. news[k] \in Nat
  BY DEF RunnerTypeOK
<1>3. /\ (1..have[k]) \cap (1..news[k]) \subseteq 1..have'[k]
      /\ (1..n) \cap (1..news[k]) \subseteq 1..have'[k]
  BY <1>1, <1>2
<1>4. \A r \in RunsOn(k) : r[2] = 1..n
  OBVIOUS
<1> HIDE DEF RunsOn
<1>5. QED
  BY <1>3, <1>4 DEF Runs!End

LEMMA RunFails ==
  ASSUME NEW k \in Keys, RunsOn(k) # {}, RunsOn(k)' = {}, faults' # faults,
         news'[k] = news[k], have'[k] = have[k]
  PROVE  Runs!Fail(k)
BY DEF Runs!Fail

LEMMA RunBegins ==
  ASSUME NEW k \in Keys, NEW who \in Workers \cup Callers,
         RunsOn(k) = {}, RunsOn(k)' = {<<who, 1..news[k]>>},
         news'[k] = news[k], have'[k] = have[k]
  PROVE  Runs!Begin(k)
BY DEF Runs!Begin

LEMMA FaultCounts ==
  ASSUME RunnerTypeOK, NEW kind, Fault(kind)
  PROVE  faults' # faults
BY RunnerAssumption DEF Fault, RunnerTypeOK

LEMMA WorkerRuns ==
  ASSUME LockInv, NEW w \in Workers, WorkerStep(w), NEW k \in Keys
  PROVE  Runs!Begin(k) \/ Runs!Change(k) \/ Runs!End(k) \/ Runs!Fail(k)
<1>t. /\ RunnerTypeOK /\ work \in [Workers -> WorkType] /\ have[k] \in Nat /\ LockInv'
      /\ work[w].saw \in Nat
  <2>1. LockInv'
    BY LockInvStep DEF RunnerNext, RunAllNext
  <2>2. RunnerTypeOK /\ work \in [Workers -> WorkType] /\ have[k] \in Nat
    BY DEF LockInv, RunnerTypeOK, WorkType
  <2>3. QED
    BY <2>1, <2>2 DEF WorkType
<1>c. call' = call /\ news' = news
  BY DEF WorkerStep, WorkerStart, WorkerConnect, WorkerSkip, WorkerLock, WorkerSynced,
     WorkerPanic, WorkerFinish
<1>o. \A v \in Workers : v # w => work'[v] = work[v]
  BY <1>t DEF WorkerStep, WorkerStart, AccountSkipped, WorkerConnect, WorkerSkip, WorkerLock,
     WorkerSynced, WorkerPanic, WorkerFinish
<1>s. ASSUME WorkerSyncs(w, k)' <=> WorkerSyncs(w, k), ~ WorkerSyncs(w, k), have'[k] = have[k]
      PROVE  Runs!Change(k)
  <2>1. \A v \in Workers : v # w => /\ WorkerSyncs(v, k)' <=> WorkerSyncs(v, k)
                                    /\ work'[v].saw = work[v].saw
    BY <1>o DEF WorkerSyncs, KeyOf, ListOf, IdOfWorker
  <2>2. QED
    BY <1>t, <1>c, <1>s, <2>1, RunsStay
<1>1. CASE work[w].pc # "sync" /\ work'[w].pc # "sync" /\ have' = have
  BY <1>1, <1>s DEF WorkerSyncs
<1>2. CASE WorkerLock(w)
  <2>1. /\ KeyOf(w) \in Keys /\ KeyOf(w)' = KeyOf(w) /\ work'[w].pc = "sync"
        /\ work'[w].saw = news[KeyOf(w)] /\ ~ folderLock[KeyOf(w)] /\ have' = have
        /\ work[w].pc # "sync"
    BY <1>t, <1>2, KeyOfType DEF WorkerLock, MoreFolders, Lock, KeyOf, ListOf, IdOfWorker, LockInv
  <2>2. CASE KeyOf(w) = k
    <3>1. /\ \A v \in Workers : ~ WorkerSyncs(v, k)
          /\ \A c \in Callers : ~ CallSyncs(c, k)
      BY <2>1, <2>2 DEF LockInv, RunsHoldLocks
    <3>2. RunsOn(k) = {}
      BY <3>1 DEF RunsOn, CallSyncs
    <3>3. WorkerSyncs(w, k)'
      BY <2>1, <2>2 DEF WorkerSyncs
    <3>4. RunsOn(k)' = {<<w, 1..work'[w].saw>>}
      <4>1. {v \in Workers : WorkerSyncs(v, k)'} = {w}
        BY <1>t, <3>3 DEF LockInv, FolderExclusive
      <4>2. {c \in Callers : call'[c].pc = "sync" /\ KeyOfCall(c)' = k} = {}
        BY <1>t, <3>3 DEF LockInv, FolderExclusive, CallSyncs
      <4>3. QED
        BY <4>1, <4>2 DEF RunsOn
    <3>5. QED
      BY <1>c, <2>1, <2>2, <3>2, <3>4, RunBegins
  <2>3. CASE KeyOf(w) # k
    BY <1>s, <2>1, <2>3 DEF WorkerSyncs
  <2>4. QED
    BY <2>2, <2>3
<1>3. CASE WorkerSynced(w) \/ WorkerPanic(w)
  <2>1. /\ KeyOf(w) \in Keys /\ WorkerSyncs(w, KeyOf(w)) /\ work'[w].pc # "sync"
    BY <1>t, <1>3, KeyOfType, EndedIs DEF WorkerSynced, WorkerPanic, LockInv, InList, WorkerSyncs
  <2>2. CASE KeyOf(w) = k
    <3>1. RunsOn(k) = {<<w, 1..work[w].saw>>}
      BY <2>1, <2>2, OneWorkerOn
    <3>2. RunsOn(k)' = {}
      <4>1. \A v \in Workers : ~ WorkerSyncs(v, k)'
        BY <1>o, <2>1, <2>2 DEF LockInv, FolderExclusive, WorkerSyncs, KeyOf, ListOf, IdOfWorker
      <4>2. \A c \in Callers : ~ CallSyncs(c, k)
        BY <2>1, <2>2 DEF LockInv, FolderExclusive
      <4>3. QED
        BY <1>c, <4>1, <4>2 DEF RunsOn, CallSyncs, KeyOfCall
    <3>3. CASE Imported(k, work[w].saw)
      BY <1>t, <1>c, <3>1, <3>2, <3>3, RunEndsWell
    <3>4. CASE have' = have /\ faults' # faults
      BY <1>c, <3>1, <3>2, <3>4, RunFails
    <3>5. QED
      BY <1>t, <1>3, <2>2, <3>3, <3>4, FaultCounts DEF WorkerSynced, WorkerPanic
  <2>3. CASE KeyOf(w) # k
    <3>1. have'[k] = have[k]
      BY <1>t, <1>3, <2>3 DEF WorkerSynced, WorkerPanic, Imported, RunnerTypeOK
    <3>2. QED
      BY <1>s, <2>1, <2>3, <3>1 DEF WorkerSyncs
  <2>4. QED
    BY <2>2, <2>3
<1>4. CASE WorkerStart(w) \/ WorkerConnect(w) \/ WorkerSkip(w) \/ WorkerFinish(w)
  BY <1>t, <1>4, <1>1, EndedIs
  DEF WorkerStart, AccountSkipped, WorkerConnect, WorkerSkip, MoreFolders, WorkerFinish, WorkType
<1>5. QED
  BY <1>2, <1>3, <1>4 DEF WorkerStep

LEMMA CallRuns ==
  ASSUME LockInv, NEW c \in Callers, CallStep(c), NEW k \in Keys
  PROVE  Runs!Begin(k) \/ Runs!Change(k) \/ Runs!End(k) \/ Runs!Fail(k)
<1>t. /\ RunnerTypeOK /\ have[k] \in Nat /\ LockInv' /\ KeyOfCall(c) \in Keys
      /\ call[c].saw \in Nat
      /\ call \in [Callers -> [pc : CallPcs, saw : 0..MaxNews]]
  <2>1. LockInv'
    BY LockInvStep DEF RunnerNext
  <2>2. RunnerTypeOK /\ have[k] \in Nat /\ call \in [Callers -> [pc : CallPcs, saw : 0..MaxNews]]
    BY DEF LockInv, RunnerTypeOK
  <2>3. QED
    BY <2>1, <2>2, KeyOfCallType
<1>c. work' = work /\ news' = news
  BY DEF CallStep, CallLock, CallConnect, CallSynced, CallFailed, CallPanicked
<1>o. \A d \in Callers : d # c => call'[d] = call[d]
  BY <1>t DEF CallStep, CallLock, CallConnect, CallSynced, CallFailed, CallPanicked
<1>s. ASSUME KeyOfCall(c) = k => call[c].pc # "sync" /\ call'[c].pc # "sync", have'[k] = have[k]
      PROVE  Runs!Change(k)
  <2>1. \A v \in Workers : /\ WorkerSyncs(v, k)' <=> WorkerSyncs(v, k)
                           /\ work'[v].saw = work[v].saw
    BY <1>c DEF WorkerSyncs, KeyOf, ListOf, IdOfWorker
  <2>2. QED
    BY <1>t, <1>o, <1>s, <2>1, RunsStay
<1>w. ASSUME CallSyncs(c, KeyOfCall(c)), call'[c].pc # "sync", KeyOfCall(c) = k
      PROVE  RunsOn(k)' = {}
  <2>1. \A v \in Workers : ~ WorkerSyncs(v, k)'
    BY <1>c, <1>t, <1>w DEF LockInv, FolderExclusive, WorkerSyncs, KeyOf, ListOf, IdOfWorker
  <2>2. \A d \in Callers : ~ (call'[d].pc = "sync" /\ KeyOfCall(d) = k)
    BY <1>o, <1>t, <1>w DEF LockInv, FolderExclusive, CallSyncs
  <2>3. QED
    BY <2>1, <2>2 DEF RunsOn, KeyOfCall
<1>1. CASE CallLock(c)
  BY <1>t, <1>s, <1>1 DEF CallLock
<1>2. CASE CallConnect(c)
  <2>1. /\ call'[c].pc = "sync" /\ call'[c].saw = news[KeyOfCall(c)]
        /\ have' = have /\ CallSyncs(c, KeyOfCall(c)) /\ call[c].pc = "connect"
    BY <1>t, <1>2 DEF CallConnect, CallSyncs
  <2>2. CASE KeyOfCall(c) = k
    <3>1. RunsOn(k) = {}
      BY <1>t, <2>1, <2>2 DEF LockInv, FolderExclusive, CallSyncs, RunsOn
    <3>2. RunsOn(KeyOfCall(c))' = {<<c, 1..call'[c].saw>>}
      <4>1. CallSyncs(c, KeyOfCall(c))' /\ KeyOfCall(c)' = KeyOfCall(c)
        BY <2>1 DEF CallSyncs, KeyOfCall
      <4>2. {v \in Workers : WorkerSyncs(v, KeyOfCall(c))'} = {}
        BY <1>t, <4>1 DEF LockInv, FolderExclusive
      <4>3. {d \in Callers : call'[d].pc = "sync" /\ KeyOfCall(d) = KeyOfCall(c)} = {c}
        BY <1>t, <2>1, <4>1 DEF LockInv, FolderExclusive, CallSyncs, KeyOfCall
      <4>4. QED
        BY <4>1, <4>2, <4>3 DEF RunsOn, KeyOfCall
    <3>3. QED
      BY <1>c, <2>1, <2>2, <3>1, <3>2, RunBegins DEF KeyOfCall
  <2>3. CASE KeyOfCall(c) # k
    BY <1>s, <2>1, <2>3
  <2>4. QED
    BY <2>2, <2>3
<1>3. CASE CallSynced(c) \/ CallFailed(c) \/ CallPanicked(c)
  <2>1. call'[c].pc = "away" /\ CallSyncs(c, KeyOfCall(c))
    BY <1>t, <1>3 DEF CallSynced, CallFailed, CallPanicked, Away, CallSyncs
  <2>2. CASE KeyOfCall(c) = k /\ call[c].pc = "sync"
    <3>1. RunsOn(k) = {<<c, 1..call[c].saw>>} /\ RunsOn(k)' = {}
      BY <1>w, <2>1, <2>2, OneCallOn
    <3>2. CASE CallSynced(c)
      BY <1>t, <1>c, <2>2, <3>1, <3>2, RunEndsWell DEF CallSynced
    <3>3. CASE CallFailed(c) \/ CallPanicked(c)
      <4>1. have' = have /\ faults' # faults
        BY <1>t, <3>3, FaultCounts DEF CallFailed, CallPanicked
      <4>2. QED
        BY <1>c, <3>1, <4>1, RunFails
    <3>4. QED
      BY <1>3, <3>2, <3>3
  <2>3. CASE ~ (KeyOfCall(c) = k /\ call[c].pc = "sync")
    <3>1. have'[k] = have[k]
      BY <1>t, <1>3, <2>3 DEF CallSynced, CallFailed, CallPanicked, Imported, RunnerTypeOK
    <3>2. QED
      BY <1>s, <2>1, <2>3, <3>1
  <2>4. QED
    BY <2>2, <2>3
<1>4. QED
  BY <1>1, <1>2, <1>3 DEF CallStep

\* For any entries, folders and callers, with any faults: runs on a folder come one
\* after the other, and nothing is taken for granted of a run but what SyncFolder
\* keeps (EveryRunKeepsItsWord): RunAll and syncOneFolder fit SyncFolder.
THEOREM RunsOfRoundsAndCalls == RunnerSpec => RunsComeOneByOne
<1>1. RunnerInit => Runs!RunsInit
  BY DEF RunnerInit, Runs!RunsInit, RunsOn, WorkerSyncs, At, Away
<1>2. ASSUME LockInv, RoundQuiet, RunnerNext, NEW k \in Keys
      PROVE  Runs!Begin(k) \/ Runs!Change(k) \/ Runs!End(k) \/ Runs!Fail(k)
  <2>t. RunnerTypeOK /\ have[k] \in Nat /\ news[k] \in Nat
    BY <1>2 DEF LockInv, RunnerTypeOK
  <2>1. ASSUME NEW j \in Keys, Arrive(j) PROVE Runs!Change(k)
    BY <2>t, <2>1, RunsStay DEF Arrive, WorkerSyncs, KeyOf, ListOf, IdOfWorker
  <2>2. ASSUME NEW r \in Rounds, RoundEnd(r) PROVE Runs!Change(k)
    BY <2>t, <2>2, RunsStay DEF RoundEnd, WorkerSyncs, KeyOf, ListOf, IdOfWorker
  <2>3. ASSUME NEW r \in Rounds, RoundBegin(r) PROVE Runs!Change(k)
    <3>1. \A w \in Workers : /\ work'[w].pc = "sync" <=> work[w].pc = "sync"
                             /\ work[w].pc = "sync" => work'[w] = work[w]
      BY <1>2, <2>3 DEF RoundBegin, RoundQuiet, Workers, At
    <3>2. QED
      BY <2>t, <2>3, <3>1, RunsStay DEF RoundBegin, WorkerSyncs, KeyOf, ListOf, IdOfWorker
  <2>4. QED
    BY <1>2, <2>1, <2>2, <2>3, WorkerRuns, CallRuns DEF RunnerNext, RunAllNext
<1>3. LockInv /\ RoundQuiet /\ [RunnerNext]_runnerVars =>
        [Runs!RunsNext]_<<[k \in Keys |-> 1..news[k]], [k \in Keys |-> 1..have[k]],
                          [k \in Keys |-> RunsOn(k)], faults>>
  <2> SUFFICES ASSUME LockInv, RoundQuiet, [RunnerNext]_runnerVars
               PROVE  Runs!RunsNext \/ UNCHANGED <<[k \in Keys |-> 1..news[k]], [k \in Keys |-> 1..have[k]],
                                                   [k \in Keys |-> RunsOn(k)], faults>>
    OBVIOUS
  <2>1. CASE RunnerNext
    BY <1>2, <2>1 DEF Runs!RunsNext
  <2>2. CASE UNCHANGED runnerVars
    BY <2>2 DEF runnerVars, RunsOn, WorkerSyncs, KeyOf, ListOf, IdOfWorker, KeyOfCall
  <2>3. QED
    BY <2>1, <2>2
<1>4. QED
  BY <1>1, <1>3, QuietRounds, PTL DEF RunnerSpec, RunsComeOneByOne, Runs!RunsSpec

-----------------------------------------------------------------------------
(* The IDLE goroutines.                                                    *)

LEMMA ServeStep == [ServeNext]_idleVars => [RunnerNext]_runnerVars
<1> SUFFICES ASSUME [ServeNext]_idleVars PROVE [RunnerNext]_runnerVars
  OBVIOUS
<1>1. ASSUME NEW k \in Keys, IdleArrive(k) PROVE RunnerNext
  BY <1>1 DEF IdleArrive, RunnerNext
<1>2. ASSUME NEW c \in Callers, Notify(c) \/ Drop(c) PROVE UNCHANGED runnerVars
  BY <1>2 DEF Notify, Drop
<1>3. ASSUME NEW c \in Callers, SessionStep(c) PROVE RunnerNext \/ UNCHANGED runnerVars
  <2>1. CASE SessionCall(c) \/ SessionReturn(c) \/ SessionPanic(c)
    <3>1. CallStep(c)
      BY <2>1 DEF SessionCall, SessionReturn, SessionPanic, CallStep
    <3> QED
      BY <3>1 DEF RunnerNext
  <2>2. CASE SessionSkip(c)
    BY <2>2 DEF SessionSkip, CallSkipped
  <2>3. CASE \/ SessionConnect(c) \/ SessionConnectFailed(c) \/ SessionWake(c)
             \/ SessionLost(c) \/ PollAgain(c) \/ SessionRestart(c)
    BY <2>3 DEF SessionConnect, SessionConnectFailed, SessionWake, SessionLost, PollAgain,
       SessionRestart
  <2> QED
    BY <1>3, <2>1, <2>2, <2>3 DEF SessionStep
<1>4. CASE RunAllNext
  BY <1>4 DEF RunnerNext
<1>5. CASE UNCHANGED idleVars
  BY <1>5 DEF idleVars
<1> QED
  BY <1>1, <1>2, <1>3, <1>4, <1>5 DEF ServeNext, PushNext

\* Every behaviour of the IDLE goroutines and the rounds together is one of
\* Runner: syncOneFolder is called as Runner allows.
THEOREM ServeImplementsRunner == ServeSpec => RunnerSpec
<1>1. IdleInit => RunnerInit
  BY DEF IdleInit
<1> QED
  BY <1>1, ServeStep, PTL DEF ServeSpec, RunnerSpec

\* Rounds and IDLE goroutines never run SyncFolder on the same folder at the
\* same time, which would import every message twice.
THEOREM IdleAndRoundsExclude == ServeSpec => []FolderExclusive
  BY ServeImplementsRunner, OneRunForAFolder, PTL

-----------------------------------------------------------------------------
(* Between two rounds: notifications.                                      *)

SessionType == session \in [Callers -> Session]

\* No round is running; a folder is locked by the call that syncs it.
CallsAlone ==
  /\ LockInv
  /\ RoundQuiet
  /\ \A w \in Workers : work[w].pc = "off"
  /\ BusyMeansSyncing

\* A call is of a goroutine that is at syncOneFolder, and only those with IDLE
\* wait for a notification.
SessionsFit ==
  \A c \in Callers : /\ call[c].pc # "away" => Syncing(c)
                     /\ session[c].pc = "idle" => c \in IdleCapable

\* What arrives is announced, or the goroutine will come back in another way.
Told(c) == c \notin IdleCapable \/ ~session[c].live \/ session[c].exists \/ session[c].owed

\* A call whose SyncFolder has missed a message will be repeated.
MissedIsTold ==
  \A c \in Callers : call[c].pc = "sync" => call[c].saw = news[KeyOfCall(c)] \/ Told(c)

HaveNoMore ==
  /\ \A k \in Keys : have[k] <= news[k]
  /\ \A c \in Callers : call[c].pc = "sync" => call[c].saw <= news[KeyOfCall(c)]

\* QuietMeansServed, whatever the lock: a quiet folder is not locked.
Served ==
  \A k \in Keys :
    CallersOf(k) # {} /\ (\A c \in CallersOf(k) : Quiet(c)) => have[k] = news[k]

PushInv ==
  CallsAlone /\ SessionType /\ SessionsFit /\ MissedIsTold /\ HaveNoMore /\ Served

LEMMA PushInit == IdleInit => PushInv
<1> SUFFICES ASSUME IdleInit PROVE PushInv
  OBVIOUS
<1>1. CallsAlone
  BY InitBusy DEF IdleInit, CallsAlone, BusyInv, RunnerInit, At
<1>2. SessionType
  BY DEF IdleInit, SessionType, Fresh, Session, FirstPause
<1>3. SessionsFit /\ MissedIsTold /\ HaveNoMore /\ Served
  BY DEF IdleInit, SessionsFit, MissedIsTold, HaveNoMore, Served, Fresh, RunnerInit, Away, CallersOf
<1> QED
  BY <1>1, <1>2, <1>3 DEF PushInv

LEMMA CallsAloneStep ==
  ASSUME PushInv, [PushNext]_idleVars
  PROVE  CallsAlone'
<1>1. [RunnerNext]_runnerVars
  BY ServeStep DEF ServeNext
<1>2. LockInv' /\ work' = work /\ round' = round
  <2>1. LockInv'
    BY <1>1, LockInvStep DEF PushInv, CallsAlone
  <2>2. work' = work /\ round' = round
    BY DEF PushNext, IdleArrive, Arrive, Notify, Drop, SessionStep, SessionConnect,
       SessionConnectFailed, SessionSkip, CallSkipped, SessionCall, CallLock, CallConnect,
       SessionReturn, CallSynced, CallFailed, SessionPanic, CallPanicked, SessionWake,
       SessionLost, PollAgain, SessionRestart, idleVars, runnerVars
  <2> QED
    BY <2>1, <2>2
<1>3. RoundQuiet' /\ \A w \in Workers : work'[w].pc = "off"
  BY <1>2 DEF PushInv, CallsAlone, RoundQuiet
<1>4. BusyMeansSyncing'
  <2>1. CASE RunnerNext
    <3>1. \A w \in Workers, k \in Keys : ~WorkerSyncs(w, k)
      BY DEF PushInv, CallsAlone, WorkerSyncs
    <3> QED
      BY <2>1, <3>1, BusyStep DEF PushInv, CallsAlone, LockInv, BusyMeansSyncing
  <2>2. CASE UNCHANGED runnerVars
    BY <2>2 DEF PushInv, CallsAlone, runnerVars, lockVars, BusyMeansSyncing, Synced,
       WorkerSyncs, CallSyncs, KeyOf, ListOf, KeyOfCall, IdOfWorker
  <2> QED
    BY <1>1, <2>1, <2>2
<1> QED
  BY <1>2, <1>3, <1>4 DEF CallsAlone

\* What a step of one goroutine is to the invariant: only its own session and
\* call change.
LEMMA OneSession ==
  ASSUME PushInv, NEW c \in Callers, NEW s \in Session,
         session' = [session EXCEPT ![c] = s],
         UNCHANGED <<call, news, have>>,
         call[c].pc # "away" => s.pc \in {"initial", "sync"},
         s.pc = "idle" => c \in IdleCapable,
         call[c].pc = "sync" =>
           \/ call[c].saw = news[KeyOfCall(c)]
           \/ c \notin IdleCapable \/ ~s.live \/ s.exists \/ s.owed,
         have[KeyOfCall(c)] # news[KeyOfCall(c)] =>
           \/ s.pc # "idle" \/ ~s.live \/ s.exists \/ s.owed
           \/ \E d \in CallersOf(KeyOfCall(c)) \ {c} : ~Quiet(d)
  PROVE  SessionType' /\ SessionsFit' /\ MissedIsTold' /\ HaveNoMore' /\ Served'
<1>1. SessionType' /\ session'[c] = s /\ \A d \in Callers : d # c => session'[d] = session[d]
  BY DEF PushInv, SessionType
<1>2. SessionsFit'
  BY <1>1 DEF PushInv, SessionsFit, Syncing
<1>3. MissedIsTold' /\ HaveNoMore'
  BY <1>1 DEF PushInv, MissedIsTold, HaveNoMore, Told, KeyOfCall
<1>4. Served'
  <2> SUFFICES ASSUME NEW k \in Keys, CallersOf(k) # {}, \A d \in CallersOf(k) : Quiet(d)'
               PROVE  have[k] = news[k]
    BY DEF Served, CallersOf, KeyOfCall
  <2>1. CASE k # KeyOfCall(c)
    <3>1. \A d \in CallersOf(k) : Quiet(d)
      BY <1>1, <2>1 DEF CallersOf, Quiet
    <3> QED
      BY <3>1 DEF PushInv, Served
  <2>2. CASE k = KeyOfCall(c)
    <3>1. c \in CallersOf(k) /\ Quiet(c)'
      BY <2>2 DEF CallersOf
    <3>2. \A d \in CallersOf(k) \ {c} : Quiet(d)
      BY <1>1 DEF CallersOf, Quiet
    <3> QED
      BY <1>1, <2>2, <3>1, <3>2 DEF Quiet
  <2> QED
    BY <2>1, <2>2
<1> QED
  BY <1>1, <1>2, <1>3, <1>4

LEMMA ArriveStep ==
  ASSUME PushInv, NEW k \in Keys, IdleArrive(k)
  PROVE  SessionType' /\ SessionsFit' /\ MissedIsTold' /\ HaveNoMore' /\ Served'
<1> DEFINE owes(c) == session[c].owed \/ (/\ KeyOfCall(c) = k
                                          /\ c \in IdleCapable
                                          /\ session[c].live)
<1>0. /\ session \in [Callers -> Session]
      /\ session' = [c \in Callers |-> [session[c] EXCEPT !.owed = owes(c)]]
  BY DEF IdleArrive, PushInv, SessionType
<1>p. \A c \in Callers : /\ session'[c] \in Session
                         /\ session'[c].pc = session[c].pc
                         /\ session'[c].live = session[c].live
                         /\ session'[c].exists = session[c].exists
                         /\ session'[c].owed = owes(c)
  BY <1>0 DEF Session
<1>1. /\ SessionType'
      /\ \A c \in Callers : Told(c) => Told(c)'
      /\ \A c \in Callers : KeyOfCall(c) = k => Told(c)'
  <2>1. SessionType'
    BY <1>0, <1>p DEF SessionType
  <2>2. ASSUME NEW c \in Callers PROVE (Told(c) => Told(c)') /\ (KeyOfCall(c) = k => Told(c)')
    <3> HIDE DEF owes
    <3>1. (session[c].owed => owes(c)) /\ (KeyOfCall(c) = k /\ c \in IdleCapable /\ session[c].live => owes(c))
      BY DEF owes
    <3>2. /\ session'[c].live = session[c].live
          /\ session'[c].exists = session[c].exists
          /\ session'[c].owed = owes(c)
      BY <1>p
    <3> QED
      BY <3>1, <3>2, Zenon DEF Told
  <2> QED
    BY <2>1, <2>2
<1>q. \A c \in Callers : /\ Quiet(c)' => ~Told(c)' \/ c \notin IdleCapable
                         /\ Quiet(c)' => Quiet(c)
  <2> SUFFICES ASSUME NEW c \in Callers, Quiet(c)'
               PROVE  (~Told(c)' \/ c \notin IdleCapable) /\ Quiet(c)
    OBVIOUS
  <2>1. /\ session'[c].pc = "idle" /\ session'[c].live
        /\ ~session'[c].exists /\ ~session'[c].owed
    BY DEF Quiet
  <2>2. session[c].owed => session'[c].owed
    BY <1>p, Zenon
  <2>3. /\ session'[c].pc = session[c].pc
        /\ session'[c].live = session[c].live
        /\ session'[c].exists = session[c].exists
    BY <1>p
  <2> QED
    BY <2>1, <2>2, <2>3, Zenon DEF Quiet, Told
<1>2. /\ UNCHANGED <<call, have>>
      /\ \A j \in Keys : j # k => news'[j] = news[j]
      /\ news[k] \in Nat /\ news'[k] = news[k] + 1 /\ have[k] \in Nat
  BY RunnerAssumption DEF IdleArrive, Arrive, PushInv, CallsAlone, LockInv, RunnerTypeOK
<1>3. SessionsFit'
  BY <1>p, <1>2 DEF PushInv, SessionsFit, Syncing
<1>4. MissedIsTold'
  <2> SUFFICES ASSUME NEW c \in Callers, call[c].pc = "sync"
               PROVE  call[c].saw = news'[KeyOfCall(c)] \/ Told(c)'
    BY <1>2 DEF MissedIsTold, KeyOfCall
  <2>1. CASE KeyOfCall(c) = k
    BY <1>1, <2>1
  <2>2. CASE KeyOfCall(c) # k
    BY <1>1, <1>2, <2>2, KeyOfCallType DEF PushInv, MissedIsTold
  <2> QED
    BY <2>1, <2>2
<1>5. HaveNoMore'
  <2>1. ASSUME NEW j \in Keys PROVE have'[j] <= news'[j]
    <3>1. have[j] <= news[j]
      BY DEF PushInv, HaveNoMore
    <3> QED
      BY <1>2, <3>1
  <2>2. ASSUME NEW c \in Callers, call'[c].pc = "sync"
        PROVE  call'[c].saw <= news'[KeyOfCall(c)]
    <3>1. call[c].saw <= news[KeyOfCall(c)] /\ call[c].saw \in Nat
      BY <1>2, <2>2, RunnerAssumption
      DEF PushInv, HaveNoMore, CallsAlone, LockInv, RunnerTypeOK
    <3> QED
      BY <1>2, <3>1, KeyOfCallType
  <2> QED
    BY <2>1, <2>2 DEF HaveNoMore, KeyOfCall
<1>6. Served'
  <2> SUFFICES ASSUME NEW j \in Keys, CallersOf(j) # {}, \A c \in CallersOf(j) : Quiet(c)'
               PROVE  have[j] = news'[j]
    BY <1>2 DEF Served, CallersOf, KeyOfCall
  <2>1. CASE j = k
    <3>1. PICK c \in Callers : KeyOfCall(c) = k /\ Quiet(c)'
      BY <2>1 DEF CallersOf
    <3>2. c \in IdleCapable
      BY <1>q, <3>1 DEF Quiet, PushInv, SessionsFit
    <3> QED
      BY <1>1, <1>q, <3>1, <3>2
  <2>2. CASE j # k
    <3>1. \A c \in CallersOf(j) : Quiet(c)
      BY <1>q DEF CallersOf
    <3> QED
      BY <1>2, <2>2, <3>1 DEF PushInv, Served
  <2> QED
    BY <2>1, <2>2
<1> QED
  BY <1>1, <1>3, <1>4, <1>5, <1>6

\* A goroutine that finds its folder busy is not the last one awake.
LEMMA SkipIsCovered ==
  ASSUME PushInv, NEW c \in Callers, SessionSkip(c)
  PROVE  \E d \in CallersOf(KeyOfCall(c)) \ {c} : ~Quiet(d)
<1>1. KeyOfCall(c) \in Keys /\ folderLock[KeyOfCall(c)] /\ call[c].pc = "away"
  BY KeyOfCallType DEF SessionSkip, CallSkipped
<1>2. PICK d \in Callers : CallSyncs(d, KeyOfCall(c))
  BY <1>1 DEF PushInv, CallsAlone, BusyMeansSyncing, Synced, WorkerSyncs
<1>3. d \in CallersOf(KeyOfCall(c)) /\ d # c /\ Syncing(d)
  BY <1>1, <1>2 DEF CallSyncs, CallersOf, PushInv, SessionsFit
<1> QED
  BY <1>3 DEF Quiet, Syncing

LEMMA SessionOnlyStep ==
  ASSUME PushInv, NEW c \in Callers,
         \/ Notify(c) \/ Drop(c) \/ SessionConnect(c) \/ SessionConnectFailed(c)
         \/ SessionSkip(c) \/ SessionWake(c) \/ SessionLost(c) \/ PollAgain(c)
         \/ SessionRestart(c)
  PROVE  SessionType' /\ SessionsFit' /\ MissedIsTold' /\ HaveNoMore' /\ Served'
<1>t. session \in [Callers -> Session] /\ session[c] \in Session
  BY DEF PushInv, SessionType
<1>n. UNCHANGED <<call, news, have>>
  BY DEF Notify, Drop, SessionConnect, SessionConnectFailed, SessionSkip, CallSkipped,
     SessionWake, SessionLost, PollAgain, SessionRestart, runnerVars
<1>i. /\ call[c].pc # "away" => session[c].pc \in {"initial", "sync"}
      /\ session[c].pc = "idle" => c \in IdleCapable
      /\ call[c].pc = "sync" => call[c].saw = news[KeyOfCall(c)] \/ Told(c)
  BY DEF PushInv, SessionsFit, Syncing, MissedIsTold
<1>1. CASE Notify(c)
  <2> DEFINE s == [session[c] EXCEPT !.owed = FALSE, !.exists = TRUE]
  <2>1. session' = [session EXCEPT ![c] = s] /\ s \in Session /\ s.exists /\ s.pc = session[c].pc
    BY <1>1, <1>t DEF Notify, Session
  <2> HIDE DEF s
  <2> QED
    BY <1>n, <1>i, <2>1, OneSession
<1>2. CASE Drop(c)
  <2> DEFINE s == [session[c] EXCEPT !.owed = FALSE, !.live = FALSE]
  <2>1. session' = [session EXCEPT ![c] = s] /\ s \in Session /\ ~s.live /\ s.pc = session[c].pc
    BY <1>2, <1>t DEF Drop, Session
  <2> HIDE DEF s
  <2> QED
    BY <1>n, <1>i, <2>1, OneSession
<1>3. CASE SessionConnect(c)
  <2> DEFINE s == [session[c] EXCEPT !.pc = "initial", !.live = TRUE, !.exists = FALSE,
                                     !.owed = FALSE]
  <2>1. /\ session' = [session EXCEPT ![c] = s] /\ s \in Session /\ s.pc = "initial"
        /\ session[c].pc = "down"
    BY <1>3, <1>t DEF SessionConnect, Session
  <2> HIDE DEF s
  <2> QED
    BY <1>n, <1>i, <2>1, OneSession
<1>4. CASE SessionConnectFailed(c) \/ SessionLost(c)
  <2>1. /\ session' = [session EXCEPT ![c] = Lost(session[c])] /\ Lost(session[c]) \in Session
        /\ Lost(session[c]).pc = "backoff" /\ ~Lost(session[c]).live
        /\ session[c].pc \in {"down", "idle"}
    BY <1>4, <1>t DEF SessionConnectFailed, SessionLost, Session, Lost
  <2> QED
    BY <1>n, <1>i, <2>1, OneSession
<1>5. CASE SessionSkip(c)
  <2>1. /\ session' = [session EXCEPT ![c] = AfterSync(session[c], c)]
        /\ AfterSync(session[c], c) \in Session
        /\ AfterSync(session[c], c).pc = "idle" => c \in IdleCapable
        /\ call[c].pc = "away"
    BY <1>5, <1>t DEF SessionSkip, CallSkipped, Session, AfterSync
  <2> QED
    BY <1>n, <1>i, <1>5, <2>1, OneSession, SkipIsCovered
<1>6. CASE SessionWake(c) \/ PollAgain(c)
  <2>1. PICK s \in Session : /\ session' = [session EXCEPT ![c] = s] /\ s.pc = "sync"
                             /\ session[c].pc \in {"idle", "poll"}
    <3>1. CASE SessionWake(c)
      BY <3>1, <1>t DEF SessionWake, Session
    <3>2. CASE PollAgain(c)
      BY <3>2, <1>t DEF PollAgain, Session
    <3> QED
      BY <1>6, <3>1, <3>2
  <2> QED
    BY <1>n, <1>i, <2>1, OneSession
<1>7. CASE SessionRestart(c)
  <2>1. /\ session' = [session EXCEPT ![c] = Restarted(session[c])]
        /\ Restarted(session[c]) \in Session
        /\ Restarted(session[c]).pc = "down"
        /\ session[c].pc = "backoff"
    <3>1. session[c].pause \in Nat
      BY <1>t DEF Session
    <3>2. 2 * session[c].pause \in Nat
      BY <3>1
    <3> QED
      BY <1>7, <1>t, <3>1, <3>2 DEF SessionRestart, Session, Restarted
  <2> QED
    BY <1>n, <1>i, <2>1, OneSession
<1> QED
  BY <1>1, <1>2, <1>3, <1>4, <1>5, <1>6, <1>7

LEMMA CallStarts ==
  ASSUME PushInv, NEW c \in Callers, SessionCall(c)
  PROVE  SessionType' /\ SessionsFit' /\ MissedIsTold' /\ HaveNoMore' /\ Served'
<1>1. /\ UNCHANGED <<session, news, have>>
      /\ \A d \in Callers : d # c => call'[d] = call[d]
      /\ call'[c].pc = "sync" => call'[c].saw = news[KeyOfCall(c)]
  <2>1. call \in [Callers -> [pc : CallPcs, saw : 0..MaxNews]]
    BY DEF PushInv, CallsAlone, LockInv, RunnerTypeOK
  <2> QED
    BY <2>1 DEF SessionCall, CallLock, CallConnect
<1>2. SessionType' /\ Served'
  BY <1>1 DEF PushInv, SessionType, Served, CallersOf, Quiet, KeyOfCall
<1>5. HaveNoMore'
  <2>1. news[KeyOfCall(c)] \in Nat
    BY KeyOfCallType, RunnerAssumption DEF PushInv, CallsAlone, LockInv, RunnerTypeOK
  <2> QED
    BY <1>1, <2>1 DEF PushInv, HaveNoMore, KeyOfCall
<1>3. SessionsFit'
  BY <1>1 DEF SessionCall, PushInv, SessionsFit, Syncing
<1>4. MissedIsTold'
  BY <1>1 DEF PushInv, MissedIsTold, Told, KeyOfCall
<1> QED
  BY <1>2, <1>3, <1>4, <1>5

\* A run that saw everything served the folder; one that did not is repeated.
LEMMA CallReturns ==
  ASSUME PushInv, "imap" \notin Faults, NEW c \in Callers, SessionReturn(c) \/ SessionPanic(c)
  PROVE  SessionType' /\ SessionsFit' /\ MissedIsTold' /\ HaveNoMore' /\ Served'
<1> DEFINE k == KeyOfCall(c)
           n == call[c].saw
<1>t. /\ session \in [Callers -> Session] /\ k \in Keys
      /\ call \in [Callers -> [pc : CallPcs, saw : 0..MaxNews]]
      /\ have \in [Keys -> 0..MaxNews] /\ news \in [Keys -> 0..MaxNews]
  BY KeyOfCallType DEF PushInv, SessionType, CallsAlone, LockInv, RunnerTypeOK
<1>1. /\ call[c].pc = "sync" /\ call' = [call EXCEPT ![c] = Away] /\ UNCHANGED news
      /\ \A j \in Keys : have'[j] <= news[j]
      /\ \A j \in Keys : j # k => have'[j] = have[j]
      /\ have[k] = news[k] => have'[k] = news[k]
      /\ SessionReturn(c) /\ n = news[k] => have'[k] = news[k]
  <2>1. \A j \in Keys : have[j] <= news[j]
    BY DEF PushInv, HaveNoMore
  <2>2. n \in Nat /\ \A j \in Keys : have[j] \in Nat /\ news[j] \in Nat
    BY RunnerAssumption, <1>t
  <2>3. CASE CallSynced(c)
    <3>1. n <= news[k] /\ call[c].pc = "sync"
      BY <2>3 DEF CallSynced, PushInv, HaveNoMore
    <3>2. /\ call' = [call EXCEPT ![c] = Away] /\ UNCHANGED news
          /\ have' = [have EXCEPT ![k] = IF n > have[k] THEN n ELSE have[k]]
      BY <2>3 DEF CallSynced, Imported
    <3>3. /\ have'[k] = IF n > have[k] THEN n ELSE have[k]
          /\ \A j \in Keys : j # k => have'[j] = have[j]
      BY <1>t, <3>2
    <3> HIDE DEF k, n
    <3>4. have'[k] <= news[k] /\ (have[k] = news[k] => have'[k] = news[k])
          /\ (n = news[k] => have'[k] = news[k])
      BY <1>t, <2>1, <2>2, <3>1, <3>3
    <3> QED
      BY <2>1, <3>1, <3>2, <3>3, <3>4
  <2>4. CASE SessionPanic(c)
    <3>1. /\ call[c].pc = "sync" /\ call' = [call EXCEPT ![c] = Away]
          /\ UNCHANGED <<news, have>> /\ session[c].pc \in {"initial", "sync"}
          /\ session' = [session EXCEPT ![c] = Lost(session[c])]
      BY <2>4 DEF SessionPanic, CallPanicked, Syncing
    <3>2. ~SessionReturn(c)
      <4>1. session'[c].pc = "backoff"
        BY <1>t, <3>1 DEF Lost, Session
      <4>2. SessionReturn(c) => session'[c].pc \in {"idle", "poll"}
        BY <1>t DEF SessionReturn, AfterSync, Session
      <4> QED
        BY <4>1, <4>2
    <3> QED
      BY <2>1, <3>1, <3>2
  <2>5. ~CallFailed(c)
    BY DEF CallFailed, Fault
  <2> QED
    BY <2>3, <2>4, <2>5 DEF SessionReturn
<1>2. PICK s \in Session :
        /\ session' = [session EXCEPT ![c] = s]
        /\ s.pc # "idle" \/ (/\ s.pc = "idle" /\ c \in IdleCapable /\ SessionReturn(c)
                             /\ s.live = session[c].live /\ s.exists = session[c].exists
                             /\ s.owed = session[c].owed)
  <2>1. CASE SessionReturn(c)
    <3>1. /\ session' = [session EXCEPT ![c] = AfterSync(session[c], c)]
          /\ AfterSync(session[c], c) \in Session
      BY <1>t, <2>1 DEF SessionReturn, AfterSync, Session
    <3>2. PICK s : s = AfterSync(session[c], c)
      OBVIOUS
    <3>3. s \in Session /\ session' = [session EXCEPT ![c] = s]
      BY <3>1, <3>2
    <3>4. s.pc = IF c \in IdleCapable THEN "idle" ELSE "poll"
      BY <1>t, <3>2 DEF AfterSync, Session
    <3>5. s.live = session[c].live /\ s.exists = session[c].exists /\ s.owed = session[c].owed
      BY <1>t, <3>2 DEF AfterSync, Session
    <3> QED
      BY <2>1, <3>3, <3>4, <3>5
  <2>2. CASE SessionPanic(c)
    <3>1. /\ session' = [session EXCEPT ![c] = Lost(session[c])] /\ Lost(session[c]) \in Session
          /\ Lost(session[c]).pc = "backoff"
      BY ZenonT(40), <1>t, <2>2 DEF SessionPanic, Lost, Session
    <3> QED
      BY <3>1
  <2> QED
    BY <2>1, <2>2
<1>3. /\ call'[c] = Away /\ \A d \in Callers : d # c => call'[d] = call[d]
      /\ session'[c] = s /\ \A d \in Callers : d # c => session'[d] = session[d]
  BY <1>t, <1>1, <1>2
<1>4. SessionType'
  BY <1>t, <1>2 DEF SessionType
<1>5. SessionsFit'
  BY <1>2, <1>3 DEF PushInv, SessionsFit, Syncing, Away
<1>6. MissedIsTold'
  BY <1>1, <1>3 DEF PushInv, MissedIsTold, Told, KeyOfCall, Away
<1>7. HaveNoMore'
  BY <1>1, <1>3 DEF PushInv, HaveNoMore, KeyOfCall, Away
<1>8. Served'
  <2> SUFFICES ASSUME NEW j \in Keys, CallersOf(j) # {}, \A d \in CallersOf(j) : Quiet(d)'
               PROVE  have'[j] = news[j]
    BY <1>1 DEF Served, CallersOf, KeyOfCall
  <2>1. CASE j # k
    <3>1. \A d \in CallersOf(j) : Quiet(d)
      BY <1>3, <2>1 DEF CallersOf, Quiet
    <3> QED
      BY <1>1, <2>1, <3>1 DEF PushInv, Served
  <2>2. CASE j = k
    <3>1. Quiet(c)'
      BY <2>2 DEF CallersOf
    <3>2. /\ s.pc = "idle" /\ s.live /\ ~s.exists /\ ~s.owed
      BY <1>3, <3>1 DEF Quiet
    <3>3. SessionReturn(c) /\ ~Told(c)
      BY <1>2, <3>2 DEF Told
    <3>4. n = news[k]
      BY <1>1, <3>3 DEF PushInv, MissedIsTold
    <3> QED
      BY <1>1, <2>2, <3>3, <3>4
  <2> QED
    BY <2>1, <2>2
<1> QED
  BY <1>4, <1>5, <1>6, <1>7, <1>8

LEMMA PushStep ==
  ASSUME "imap" \notin Faults
  PROVE  PushInv /\ [PushNext]_idleVars => PushInv'
<1> SUFFICES ASSUME PushInv, [PushNext]_idleVars PROVE PushInv'
  OBVIOUS
<1>1. CallsAlone'
  BY CallsAloneStep
<1>2. CASE PushNext
  BY <1>1, <1>2, ArriveStep, SessionOnlyStep, CallStarts, CallReturns
  DEF PushNext, SessionStep, PushInv
<1>3. CASE UNCHANGED idleVars
  BY <1>1, <1>3 DEF idleVars, runnerVars, PushInv, SessionType, SessionsFit, Syncing,
     MissedIsTold, Told, HaveNoMore, Served, CallersOf, Quiet, KeyOfCall
<1> QED
  BY <1>2, <1>3

\* No wake-up is lost: as long as no call fails, goroutines that all wait for
\* the next notification of a folder have nothing to fetch there, for any
\* number of goroutines, messages, lost connections and panics.
THEOREM NoWakeUpIsLost ==
  ASSUME "imap" \notin Faults
  PROVE  PushSpec => []QuietMeansServed
<1>1. PushInv => QuietMeansServed
  BY DEF PushInv, Served, QuietMeansServed
<1> QED
  BY <1>1, PushInit, PushStep, PTL DEF PushSpec
=============================================================================
