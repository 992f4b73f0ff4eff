------------------------------- MODULE Runner -------------------------------
(***************************************************************************)
(* Who syncs which folder when: the rounds of RunAll (one at start-up, one *)
(* for every tick), the calls of syncOneFolder by the IDLE goroutines, and *)
(* the account and folder locks between them.                              *)
(*                                                                         *)
(* A Go mutex has no owner: a lock is only held or free.  A SyncFolder run *)
(* is abstracted to what it saw of the folder when it started and has put  *)
(* into the database when it ends; SyncFolder.tla has its steps.           *)
(***************************************************************************)
EXTENDS Naturals, Sequences, FiniteSets

CONSTANTS
  Entries,       \* the entries of "accounts:" in the configuration
  Ids,           \* account ids
  IdOf,          \* IdOf[e]: the id of entry e; two entries may share one
  Folders,       \* folder names
  FolderList,    \* FolderList[e]: the folders of e in their order
                 \* (resolveFolders: "folders:", or what LIST answers)
  Callers,       \* the goroutines that call syncOneFolder
  EntryOf,       \* EntryOf[c], FolderOf[c]: what caller c syncs
  FolderOf,
  MaxNews,       \* bound on the messages that arrive in a folder
  Faults,        \* which faults may happen: "imap", "panic"
  MaxFaults      \* bound on how many do

ASSUME RunnerAssumption ==
  /\ IdOf \in [Entries -> Ids]
  /\ FolderList \in [Entries -> Seq(Folders)]
  /\ EntryOf \in [Callers -> Entries]
  /\ FolderOf \in [Callers -> Folders]
  /\ MaxNews \in Nat
  /\ MaxFaults \in Nat

Rounds  == {"initial", "ticker"}
Workers == Rounds \X Entries
Keys    == Ids \X Folders

VARIABLES
  round,        \* round[r]: RunAll of the start-up goroutine, of the ticker's
  work,         \* work[w]: the goroutine of one round for one entry
  call,         \* call[c]: the syncOneFolder call of caller c
  accountLock,  \* accountLock[i]: held?
  folderLock,   \* folderLock[k]: held?
  news,         \* news[k]: messages that arrived in folder k
  have,         \* have[k]: how many of them the database has
  faults

lockVars   == <<accountLock, folderLock>>
runnerVars == <<round, work, call, lockVars, news, have, faults>>

WorkerPcs == {"off", "start", "connect", "next", "sync", "end"}
CallPcs   == {"away", "connect", "sync"}

RunnerTypeOK ==
  /\ round \in [Rounds -> {"ready", "running", "done"}]
  /\ work \in [Workers -> [pc : WorkerPcs, pos : Nat, saw : 0..MaxNews]]
  /\ call \in [Callers -> [pc : CallPcs, saw : 0..MaxNews]]
  /\ accountLock \in [Ids -> BOOLEAN]
  /\ folderLock \in [Keys -> BOOLEAN]
  /\ news \in [Keys -> 0..MaxNews]
  /\ have \in [Keys -> 0..MaxNews]
  /\ faults \in 0..MaxFaults

At(pc) == [pc |-> pc, pos |-> 1, saw |-> 0]
Ended  == At("end")
Away   == [pc |-> "away", saw |-> 0]

RunnerInit ==
  /\ round = [r \in Rounds |-> "ready"]
  /\ work = [w \in Workers |-> At("off")]
  /\ call = [c \in Callers |-> Away]
  /\ accountLock = [i \in Ids |-> FALSE]
  /\ folderLock = [k \in Keys |-> FALSE]
  /\ news = [k \in Keys |-> 0]
  /\ have = [k \in Keys |-> 0]
  /\ faults = 0

Fault(kind) ==
  /\ kind \in Faults
  /\ faults < MaxFaults
  /\ faults' = faults + 1

\* A message arrives.
Arrive(k) ==
  /\ news[k] < MaxNews
  /\ news' = [news EXCEPT ![k] = @ + 1]
  /\ UNCHANGED <<round, work, call, lockVars, have, faults>>

IdOfWorker(w) == IdOf[w[2]]
ListOf(w)     == FolderList[w[2]]
KeyOf(w)      == <<IdOfWorker(w), ListOf(w)[work[w].pos]>>
KeyOfCall(c)  == <<IdOf[EntryOf[c]], FolderOf[c]>>

Lock(k)     == ~folderLock[k] /\ folderLock' = [folderLock EXCEPT ![k] = TRUE]
Unlock(k)   == folderLock' = [folderLock EXCEPT ![k] = FALSE]
UnlockId(i) == accountLock' = [accountLock EXCEPT ![i] = FALSE]

\* What a run that saw n messages of folder k leaves in the database.
Imported(k, n) == have' = [have EXCEPT ![k] = IF n > @ THEN n ELSE @]

-----------------------------------------------------------------------------
(* RunAll.                                                                 *)

RoundBegin(r) ==
  /\ round[r] = "ready"
  /\ round' = [round EXCEPT ![r] = "running"]
  /\ work' = [w \in Workers |->
                IF w[1] = r THEN At("start") ELSE work[w]]
  /\ UNCHANGED <<call, lockVars, news, have, faults>>

\* Mutant: the account lock is taken without asking.
AccountFree(i) == TRUE

\* TryLock of the account.
CanTake(i) == ~accountLock[i]

\* Mutant: the skipped goroutine leaves the round's WaitGroup waiting.
SkippedForever == At("off")

\* A busy account is skipped.
AccountSkipped == Ended

WorkerStart(w) ==
  /\ work[w].pc = "start"
  /\ IF CanTake(IdOfWorker(w))
       THEN /\ accountLock' = [accountLock EXCEPT ![IdOfWorker(w)] = TRUE]
            /\ work' = [work EXCEPT ![w].pc = "connect"]
       ELSE /\ work' = [work EXCEPT ![w] = AccountSkipped]
            /\ UNCHANGED accountLock
  /\ UNCHANGED <<round, call, folderLock, news, have, faults>>

\* NewClient and resolveFolders; an error ends the account's turn.
WorkerConnect(w) ==
  /\ work[w].pc = "connect"
  /\ \/ /\ work' = [work EXCEPT ![w].pc = "next"]
        /\ UNCHANGED <<accountLock, faults>>
     \/ /\ Fault("imap")
        /\ work' = [work EXCEPT ![w] = Ended]
        /\ UnlockId(IdOfWorker(w))
  /\ UNCHANGED <<round, call, folderLock, news, have>>

MoreFolders(w) == work[w].pc = "next" /\ work[w].pos <= Len(ListOf(w))

\* A busy folder is skipped.
WorkerSkip(w) ==
  /\ MoreFolders(w)
  /\ folderLock[KeyOf(w)]
  /\ work' = [work EXCEPT ![w].pos = @ + 1]
  /\ UNCHANGED <<round, call, lockVars, news, have, faults>>

WorkerLock(w) ==
  /\ MoreFolders(w)
  /\ Lock(KeyOf(w))
  /\ work' = [work EXCEPT ![w] = [pc  |-> "sync",
                                  pos |-> work[w].pos,
                                  saw |-> news[KeyOf(w)]]]
  /\ UNCHANGED <<round, call, accountLock, news, have, faults>>

\* SyncFolder returned: the folder is unlocked, then the error is looked at.
WorkerSynced(w) ==
  /\ work[w].pc = "sync"
  /\ Unlock(KeyOf(w))
  /\ work' = [work EXCEPT ![w] = [pc  |-> "next",
                                  pos |-> work[w].pos + 1,
                                  saw |-> 0]]
  /\ \/ Imported(KeyOf(w), work[w].saw) /\ UNCHANGED faults
     \/ Fault("imap") /\ UNCHANGED have
  /\ UNCHANGED <<round, call, accountLock, news>>

\* SyncFolder panicked: the deferred calls run (the account is unlocked, the
\* panic recovered), the statement that unlocks the folder does not.
WorkerPanic(w) ==
  /\ work[w].pc = "sync"
  /\ Fault("panic")
  /\ work' = [work EXCEPT ![w] = Ended]
  /\ UnlockId(IdOfWorker(w))
  /\ UNCHANGED <<round, call, folderLock, news, have>>

WorkerFinish(w) ==
  /\ work[w].pc = "next"
  /\ work[w].pos > Len(ListOf(w))
  /\ work' = [work EXCEPT ![w] = Ended]
  /\ UnlockId(IdOfWorker(w))
  /\ UNCHANGED <<round, call, folderLock, news, have, faults>>

\* Mutant: the ticker stops after its first round.
OnlyOnce(r) == "done"

\* The start-up goroutine ends with its round, the ticker waits for a tick.
AfterRound(r) == IF r = "initial" THEN "done" ELSE "ready"

\* wg.Wait returns once every goroutine of the round is done.
RoundEnd(r) ==
  /\ round[r] = "running"
  /\ \A e \in Entries : work[<<r, e>>].pc = "end"
  /\ round' = [round EXCEPT ![r] = AfterRound(r)]
  /\ UNCHANGED <<work, call, lockVars, news, have, faults>>

WorkerStep(w) ==
  \/ WorkerStart(w)
  \/ WorkerConnect(w)
  \/ WorkerSkip(w)
  \/ WorkerLock(w)
  \/ WorkerSynced(w)
  \/ WorkerPanic(w)
  \/ WorkerFinish(w)

-----------------------------------------------------------------------------
(* syncOneFolder.                                                          *)

\* A busy folder: the call does nothing.
CallSkipped(c) ==
  /\ call[c].pc = "away"
  /\ folderLock[KeyOfCall(c)]
  /\ UNCHANGED runnerVars

\* Mutant: the call does not look at the lock.
LockAnyway(k) == folderLock' = [folderLock EXCEPT ![k] = TRUE]

TryLockOne(k) == Lock(k)

CallLock(c) ==
  /\ call[c].pc = "away"
  /\ TryLockOne(KeyOfCall(c))
  /\ call' = [call EXCEPT ![c].pc = "connect"]
  /\ UNCHANGED <<round, work, accountLock, news, have, faults>>

CallConnect(c) ==
  /\ call[c].pc = "connect"
  /\ call' = [call EXCEPT ![c] = [pc |-> "sync", saw |-> news[KeyOfCall(c)]]]
  /\ UNCHANGED <<round, work, lockVars, news, have, faults>>

\* Mutant: the way out forgets the folder.
LeftHeld(k) == UNCHANGED folderLock

\* defer fmu.Unlock: on every way out.
UnlockOne(k) == Unlock(k)

CallSynced(c) ==
  /\ call[c].pc = "sync"
  /\ UnlockOne(KeyOfCall(c))
  /\ Imported(KeyOfCall(c), call[c].saw)
  /\ call' = [call EXCEPT ![c] = Away]
  /\ UNCHANGED <<round, work, accountLock, news, faults>>

\* NewClient or SyncFolder failed.
CallFailed(c) ==
  /\ call[c].pc \in {"connect", "sync"}
  /\ Fault("imap")
  /\ UnlockOne(KeyOfCall(c))
  /\ call' = [call EXCEPT ![c] = Away]
  /\ UNCHANGED <<round, work, accountLock, news, have>>

CallPanicked(c) ==
  /\ call[c].pc = "sync"
  /\ Fault("panic")
  /\ UnlockOne(KeyOfCall(c))
  /\ call' = [call EXCEPT ![c] = Away]
  /\ UNCHANGED <<round, work, accountLock, news, have>>

CallStep(c) ==
  \/ CallLock(c)
  \/ CallConnect(c)
  \/ CallSynced(c)
  \/ CallFailed(c)
  \/ CallPanicked(c)

-----------------------------------------------------------------------------
RunAllNext ==
  \/ \E r \in Rounds : RoundBegin(r) \/ RoundEnd(r)
  \/ \E w \in Workers : WorkerStep(w)

\* Callers may call at any time; IdleLoop says when they do.
RunnerNext ==
  \/ \E k \in Keys : Arrive(k)
  \/ RunAllNext
  \/ \E c \in Callers : CallStep(c)

RunnerSpec == RunnerInit /\ [][RunnerNext]_runnerVars

\* The ticker ticks again and again; goroutines and calls go on.  The IMAP
\* library's timeouts end a SyncFolder that gets no answer.
RunnerFairSpec ==
  /\ RunnerSpec
  /\ \A r \in Rounds : WF_runnerVars(RoundBegin(r)) /\ WF_runnerVars(RoundEnd(r))
  /\ \A w \in Workers : WF_runnerVars(WorkerStep(w))
  /\ \A c \in Callers :
       WF_runnerVars(CallConnect(c) \/ CallSynced(c))

-----------------------------------------------------------------------------
WorkerSyncs(w, k) == work[w].pc = "sync" /\ KeyOf(w) = k
CallSyncs(c, k)   == call[c].pc \in {"connect", "sync"} /\ KeyOfCall(c) = k
Synced(k) == (\E w \in Workers : WorkerSyncs(w, k)) \/ \E c \in Callers : CallSyncs(c, k)

\* The runs on k that have begun, with the messages each saw (FolderRuns).
RunsOn(k) ==
  {<<w, 1..work[w].saw>> : w \in {v \in Workers : WorkerSyncs(v, k)}}
    \cup {<<c, 1..call[c].saw>> : c \in {d \in Callers : call[d].pc = "sync" /\ KeyOfCall(d) = k}}

Runs == INSTANCE FolderRuns
          WITH Runners <- Workers \cup Callers,
               there   <- [k \in Keys |-> 1..news[k]],
               had     <- [k \in Keys |-> 1..have[k]],
               run     <- [k \in Keys |-> RunsOn(k)]

\* Rounds and callers use SyncFolder as it may be used: a run begins on a folder
\* when no other is on it, and no more is taken for granted of a run than that it
\* brings in what was there when it began, unless it failed (syncAccount,
\* syncOneFolder).
RunsComeOneByOne == Runs!RunsSpec

\* At most one SyncFolder run on a folder, over all rounds, entries of the same
\* id, positions of a folder in its list, and callers: what SyncFolder.tla takes
\* for granted (folderMutex).
FolderExclusive ==
  \A k \in Keys :
    /\ \A v, w \in Workers : WorkerSyncs(v, k) /\ WorkerSyncs(w, k) => v = w
    /\ \A c, d \in Callers : CallSyncs(c, k) /\ CallSyncs(d, k) => c = d
    /\ \A w \in Workers, c \in Callers : ~(WorkerSyncs(w, k) /\ CallSyncs(c, k))

\* A round that is slower than the ticker does not run into the next one: one
\* goroutine per account id is past the account lock (accountMutex).
AccountExclusive ==
  \A v, w \in Workers :
    /\ work[v].pc \in {"connect", "next", "sync"}
    /\ work[w].pc \in {"connect", "next", "sync"}
    /\ IdOfWorker(v) = IdOfWorker(w)
    => v = w

\* A folder that looks busy is being synced: skipping it is right, because
\* somebody else is at it.
BusyMeansSyncing == \A k \in Keys : folderLock[k] => Synced(k)

LeftLocked(k) == folderLock[k] /\ ~Synced(k)

\* ... and when it is not, a round's goroutine panicked in SyncFolder: errors,
\* skips and the panics of syncOneFolder all unlock what they locked.
OnlyPanicsLeaveLocked ==
  [][\A k \in Keys :
       ~LeftLocked(k) /\ LeftLocked(k)' =>
         \E w \in Workers : WorkerSyncs(w, k) /\ WorkerPanic(w)]_runnerVars

\* A folder some entry lists is brought up to date again and again, although
\* busy accounts and folders are skipped; only a panic takes a folder out.
Listed(k) == \E e \in Entries : IdOf[e] = k[1] /\ \E i \in 1..Len(FolderList[e]) :
                                                    FolderList[e][i] = k[2]

EveryFolderCatchesUp ==
  \A k \in Keys : Listed(k) =>
    \A n \in 1..MaxNews : (news[k] >= n) ~> (have[k] >= n \/ LeftLocked(k))

\* Every RunAll returns: its WaitGroup waits for goroutines that all end.
RoundsReturn == \A r \in Rounds : (round[r] = "running") ~> (round[r] # "running")
=============================================================================
