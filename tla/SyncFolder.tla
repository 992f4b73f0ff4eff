----------------------------- MODULE SyncFolder -----------------------------
(***************************************************************************)
(* Client.SyncFolder, one run at a time per folder (folderMutex; module    *)
(* Runner shows that the lock does give that).  A run reads sync_state,    *)
(* selects the folder, purges when the validity changed, streams the FETCH *)
(* and imports it in batches, and at the end records the validity.         *)
(*                                                                         *)
(* Reads that no other process step can disturb (getLastUID and            *)
(* getStoredUIDValidity: only this run writes the folder's sync_state) are *)
(* one step with the SELECT they surround; every write is a step.          *)
(***************************************************************************)
EXTENDS ShadowDB

CONSTANTS
  BatchSize,    \* messages per import transaction (500 in the code)
  Faults,       \* which faults may happen: "crash", "imap", "collect", "db"
  MaxFaults     \* bound on how many do

ASSUME SyncAssumption ==
  /\ BatchSize \in Nat \ {0}
  /\ MaxFaults \in Nat

VARIABLES
  sync,      \* sync[f]: the run on folder f
  faults,    \* faults so far
  forgone    \* forgone[f]: UIDs of the recorded validity the program gave up
             \* (history): a run left the message out, or delete_mail deleted the
             \* row while the folder had a message under that UID

syncVars == <<sync, faults, forgone>>

SyncPcs == {"idle", "purge", "reset", "fetch", "collect", "finish"}

SyncRun ==
  [pc     : SyncPcs,
   last   : 0..MaxUid,         \* lastUID
   val    : 0..MaxValidity,    \* selData.UIDValidity
   empty  : BOOLEAN,           \* selData.NumMessages == 0
   stream : SUBSET Uids,       \* FETCH responses still to come
   batch  : SUBSET Uids,       \* collected, not yet imported
   bare   : SUBSET Uids,       \* those of batch without an envelope
   some   : BOOLEAN]           \* totalImported > 0

NoRun == [pc |-> "idle", last |-> 0, val |-> 0, empty |-> FALSE,
          stream |-> {}, batch |-> {}, bare |-> {}, some |-> FALSE]

SyncTypeOK ==
  /\ sync \in [Folders -> SyncRun]
  /\ faults \in 0..MaxFaults
  /\ forgone \in [Folders -> SUBSET Uids]

SyncInit ==
  /\ sync = [f \in Folders |-> NoRun]
  /\ faults = 0
  /\ forgone = [f \in Folders |-> {}]

Fault(kind) ==
  /\ kind \in Faults
  /\ faults < MaxFaults
  /\ faults' = faults + 1

\* Where a run goes once its sync_state is in order: an empty folder ends it.
AfterCheck(empty) == IF empty THEN "idle" ELSE "fetch"

\* Mutant: only a validity that went down counts as changed.
ValidityWentDown(stored, server) ==
  /\ server # 0
  /\ stored # 0
  /\ stored > server

\* A recorded validity that is not the server's; 0 on either side is unknown.
ValidityChanged(stored, server) ==
  /\ server # 0
  /\ stored # 0
  /\ stored # server

\* getLastUID, SELECT, and the comparison of checkAndResetUIDValidity.  A
\* failing SELECT ends the run with nothing changed.
SyncBegin(f) ==
  /\ sync[f].pc = "idle"
  /\ LET empty == mbox[f] = {}
         next  == IF ValidityChanged(GetStoredUIDValidity(f), validity[f])
                    THEN "purge" ELSE AfterCheck(empty)
     IN  sync' = [sync EXCEPT ![f] =
                    IF next = "idle" THEN NoRun
                    ELSE [NoRun EXCEPT !.pc = next, !.last = GetLastUID(f),
                                       !.val = validity[f], !.empty = empty]]
  /\ UNCHANGED <<serverVars, dbVars, faults, forgone>>

\* The validity changed: first the rows go, in a statement of their own ...
SyncPurge(f) ==
  /\ sync[f].pc = "purge"
  /\ PurgeEntries(f)
  /\ sync' = [sync EXCEPT ![f].pc = "reset"]
  /\ UNCHANGED <<serverVars, faults, forgone>>

\* ... then sync_state starts over under the new validity.
SyncReset(f) ==
  /\ sync[f].pc = "reset"
  /\ ResetSyncState(f, sync[f].val)
  /\ forgone' = [forgone EXCEPT ![f] = {}]
  /\ sync' = [sync EXCEPT ![f] =
                 IF sync[f].empty THEN NoRun
                 ELSE [sync[f] EXCEPT !.pc = AfterCheck(FALSE), !.last = 0]]
  /\ UNCHANGED <<serverVars, faults>>

\* UID FETCH last+1:*.  The session ends when the folder was renumbered since
\* the SELECT (SyncAbort); no response at all ends the run.
SyncFetch(f) ==
  /\ sync[f].pc = "fetch"
  /\ LET range == FetchRange(f, sync[f].last)
     IN  sync' = [sync EXCEPT ![f] =
                    IF validity[f] # sync[f].val \/ range = {} THEN NoRun
                    ELSE [@ EXCEPT !.pc = "collect", !.stream = range]]
  /\ UNCHANGED <<serverVars, dbVars, faults, forgone>>

\* fetchCmd.Next and Collect: the next message joins the batch.
Collected(run, u) ==
  [run EXCEPT !.stream = @ \ {u}, !.batch = @ \cup {u}]

\* A Collect error is logged and the message left out.
CollectSkipped(run, u) ==
  [run EXCEPT !.stream = @ \ {u}]

\* An answer without ENVELOPE is batched and left out at the import.
CollectedBare(run, u) ==
  [run EXCEPT !.stream = @ \ {u}, !.batch = @ \cup {u}, !.bare = @ \cup {u}]

\* Mutant: newest first.
NewestOf(run) == CHOOSE u \in run.stream : \A w \in run.stream : w <= u

\* Responses come in ascending order of UID.
NextOf(run) == CHOOSE u \in run.stream : \A w \in run.stream : u <= w

SyncCollect(f) ==
  LET run == sync[f]
      u   == NextOf(run)
  IN  /\ run.pc = "collect"
      /\ run.stream # {}
      /\ Cardinality(run.batch) < BatchSize
      /\ \/ /\ sync' = [sync EXCEPT ![f] = Collected(run, u)]
            /\ UNCHANGED <<faults, forgone>>
         \/ /\ Fault("collect")
            /\ \/ sync' = [sync EXCEPT ![f] = CollectSkipped(run, u)]
               \/ sync' = [sync EXCEPT ![f] = CollectedBare(run, u)]
            /\ forgone' = [forgone EXCEPT ![f] = @ \cup {u}]
      /\ UNCHANGED <<serverVars, dbVars>>

\* The connection breaks while streaming: Next returns nil, and the run goes on
\* as if the stream had ended.
SyncBreak(f) ==
  /\ sync[f].pc = "collect"
  /\ sync[f].stream # {}
  /\ Fault("imap")
  /\ sync' = [sync EXCEPT ![f].stream = {}]
  /\ UNCHANGED <<serverVars, dbVars, forgone>>

\* importMessageBatch: rows and last_uid in one transaction.
ImportMessageBatch(f, us, msg) ==
  /\ InsertRows(f, us, msg)
  /\ UpdateLastUID(f, us)
  /\ UNCHANGED storedVal

\* Mutant: the loop is left with the first batch.
FlushedAndLeft(run) ==
  [run EXCEPT !.batch = {}, !.bare = {}, !.some = TRUE, !.stream = {}]

\* A run whose batch has just been imported.
Flushed(run) == [run EXCEPT !.batch = {}, !.bare = {}, !.some = TRUE]

\* The batch is full, or what is left of it after the last response.
FlushDue(run) ==
  /\ run.batch # {}
  /\ Cardinality(run.batch) >= BatchSize \/ run.stream = {}

\* flushBatch.
SyncFlush(f) ==
  LET run == sync[f]
  IN  /\ run.pc = "collect"
      /\ FlushDue(run)
      /\ ImportMessageBatch(f, run.batch \ run.bare, minted[f][run.val])
      /\ sync' = [sync EXCEPT ![f] = Flushed(run)]
      /\ UNCHANGED <<serverVars, faults, forgone>>

\* Stream and batch are empty: with nothing imported the run is over.
SyncStreamEnd(f) ==
  LET run == sync[f]
  IN  /\ run.pc = "collect"
      /\ run.stream = {}
      /\ run.batch = {}
      /\ sync' = [sync EXCEPT ![f] = IF run.some THEN [run EXCEPT !.pc = "finish"]
                                                 ELSE NoRun]
      /\ UNCHANGED <<serverVars, dbVars, faults, forgone>>

\* persistUIDValidity with the validity of the SELECT; a failure is a warning.
SyncFinish(f) ==
  /\ sync[f].pc = "finish"
  /\ \/ /\ PersistUIDValidity(f, sync[f].val)
        /\ UNCHANGED faults
     \/ /\ Fault("db")
        /\ UNCHANGED dbVars
  /\ sync' = [sync EXCEPT ![f] = NoRun]
  /\ UNCHANGED <<serverVars, forgone>>

\* An error that SyncFolder returns: a failing read or write of the database (an
\* import transaction is rolled back), or a connection that dies before the
\* FETCH.  The next run starts from what the database holds.
SyncAbort(f) ==
  /\ \/ /\ \/ sync[f].pc \in {"purge", "reset"}
           \/ sync[f].pc = "collect" /\ FlushDue(sync[f])
        /\ Fault("db")
     \/ /\ sync[f].pc = "fetch"
        /\ Fault("imap")
  /\ sync' = [sync EXCEPT ![f] = NoRun]
  /\ UNCHANGED <<serverVars, dbVars, forgone>>

\* The process is gone: so are its runs.
SyncLost == [f \in Folders |-> NoRun]

SyncStep(f) ==
  \/ SyncBegin(f)
  \/ SyncPurge(f)
  \/ SyncReset(f)
  \/ SyncFetch(f)
  \/ SyncCollect(f)
  \/ SyncFlush(f)
  \/ SyncStreamEnd(f)
  \/ SyncFinish(f)
=============================================================================
