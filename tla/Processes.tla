----------------------------- MODULE Processes -----------------------------
(***************************************************************************)
(* "serve" and the "sync" command as two processes on one database file.   *)
(* Each migrates, then syncs; the folder locks of the one mean nothing to  *)
(* the other, so two runs of SyncFolder work on one folder at a time.      *)
(*                                                                         *)
(* The folders keep their UIDVALIDITY: the purge of one process beside the *)
(* import of the other is not modelled (see the README).                   *)
(***************************************************************************)
EXTENDS Migrate, ShadowDB

CONSTANTS
  Serve, Command,   \* the two processes
  BatchSize, Faults, MaxFaults   \* those of SyncFolder

ASSUME ProcessAssumption ==
  /\ Serve # Command
  /\ Procs = {Serve, Command}
  /\ MaxValidity = 1
  /\ BatchSize \in Nat \ {0}
  /\ MaxFaults \in Nat

VARIABLES
  syncServe,   \* the run of serve on each folder: SyncFolder's sync
  syncCommand, \* that of the command
  asked,       \* asked[p][f]: the last_uid p has read for a run that has not
               \* selected f yet; Unread otherwise
  ran,         \* folders the command's one round has begun with
  faults, forgone

S == INSTANCE SyncFolder WITH sync <- syncServe
C == INSTANCE SyncFolder WITH sync <- syncCommand

procVars == <<migrateVars, serverVars, dbVars, syncServe, syncCommand, asked, ran, faults, forgone>>

Unread == MaxUid + 1

NothingAsked == [f \in Folders |-> Unread]

ProcInit ==
  /\ MigrateInit
  /\ ServerInit
  /\ DBInit
  /\ S!SyncInit
  /\ C!SyncInit
  /\ asked = [p \in Procs |-> NothingAsked]
  /\ ran = {}

Sync(p) == IF p = Serve THEN syncServe ELSE syncCommand

-----------------------------------------------------------------------------
\* The start of a run: getLastUID ...
ReadLast(p, f) ==
  /\ stage[p] = Up
  /\ Sync(p)[f].pc = "idle" /\ asked[p][f] = Unread
  /\ p = Command => f \notin ran
  /\ ran' = IF p = Command THEN ran \cup {f} ELSE ran
  /\ asked' = [asked EXCEPT ![p][f] = GetLastUID(f)]
  /\ UNCHANGED <<migrateVars, serverVars, dbVars, syncServe, syncCommand, faults, forgone>>

\* The run of p when SELECT has answered.
Selected(p, f) ==
  IF mbox[f] = {} THEN S!NoRun
  ELSE [S!NoRun EXCEPT !.pc = "fetch", !.last = asked[p][f], !.val = validity[f]]

\* ... and SELECT; the other process may have gone on in between.
SelectFolder(p, f) ==
  /\ asked[p][f] # Unread
  /\ asked' = [asked EXCEPT ![p][f] = Unread]
  /\ IF p = Serve
       THEN syncServe' = [syncServe EXCEPT ![f] = Selected(p, f)] /\ UNCHANGED syncCommand
       ELSE syncCommand' = [syncCommand EXCEPT ![f] = Selected(p, f)] /\ UNCHANGED syncServe
  /\ UNCHANGED <<migrateVars, serverVars, dbVars, ran, faults, forgone>>

ServeRun(f) ==
  /\ \/ S!SyncFetch(f) \/ S!SyncCollect(f) \/ S!SyncFlush(f)
     \/ S!SyncStreamEnd(f) \/ S!SyncFinish(f)
  /\ UNCHANGED <<migrateVars, syncCommand, asked, ran>>

CommandRun(f) ==
  /\ \/ C!SyncFetch(f) \/ C!SyncCollect(f) \/ C!SyncFlush(f)
     \/ C!SyncStreamEnd(f) \/ C!SyncFinish(f)
  /\ UNCHANGED <<migrateVars, syncServe, asked, ran>>

\* Broken connections, and statements that find the file locked by the other.
RunFails(f) ==
  \/ /\ S!SyncBreak(f) \/ S!SyncAbort(f)
     /\ UNCHANGED <<migrateVars, syncCommand, asked, ran>>
  \/ /\ C!SyncBreak(f) \/ C!SyncAbort(f)
     /\ UNCHANGED <<migrateVars, syncServe, asked, ran>>

\* A process is down: its runs are gone.
Gone(p) ==
  /\ Stop(p)
  /\ asked' = [asked EXCEPT ![p] = NothingAsked]
  /\ IF p = Serve
       THEN syncServe' = S!SyncLost /\ UNCHANGED <<syncCommand, ran>>
       ELSE syncCommand' = C!SyncLost /\ ran' = {} /\ UNCHANGED syncServe

\* The command has synced every folder once and exits.
CommandEnds ==
  /\ ran = Synced
  /\ \A f \in Synced : syncCommand[f].pc = "idle" /\ asked[Command][f] = Unread
  /\ Gone(Command)
  /\ UNCHANGED <<serverVars, dbVars, faults, forgone>>

\* A process is killed, or Migrate finds the file locked and it exits.
Killed(p) ==
  /\ S!Fault("crash")
  /\ Gone(p)
  /\ UNCHANGED <<serverVars, dbVars, forgone>>

Starting(p) ==
  /\ Start(p) \/ MigrateStep(p) \/ MigrateRefused(p)
  /\ UNCHANGED <<serverVars, dbVars, syncServe, syncCommand, asked, ran, faults, forgone>>

\* Mail comes and goes.
Mailbox ==
  /\ \E f \in Folders : (\E m \in Msgs : Deliver(f, m)) \/ (\E u \in Uids : Expunge(f, u))
  /\ UNCHANGED <<migrateVars, dbVars, syncServe, syncCommand, asked, ran, faults, forgone>>

ProcNext ==
  \/ Mailbox
  \/ \E p \in Procs : Starting(p) \/ Killed(p)
  \/ \E p \in Procs, f \in Synced : ReadLast(p, f) \/ SelectFolder(p, f)
  \/ \E f \in Synced : ServeRun(f) \/ CommandRun(f) \/ RunFails(f)
  \/ CommandEnds

ProcSpec == ProcInit /\ [][ProcNext]_procVars

\* serve is started again when it is down, and its ticker goes on.
ProcFairSpec ==
  /\ ProcSpec
  /\ WF_procVars(Starting(Serve))
  /\ \A f \in Synced : WF_procVars(ReadLast(Serve, f) \/ SelectFolder(Serve, f) \/ ServeRun(f))

-----------------------------------------------------------------------------
ProcTypeOK ==
  /\ MigrateTypeOK /\ ServerTypeOK /\ DBTypeOK
  /\ S!SyncTypeOK /\ C!SyncTypeOK
  /\ asked \in [Procs -> [Folders -> 0..Unread]]
  /\ ran \subseteq Synced

\* Two runs on one folder leave no message out, although each sets last_uid to its
\* own batch's maximum and so may take it back below what the other has imported
\* (importMessageBatch, updateLastUID).
NoGapOfTwo ==
  \A f \in Synced : \A u \in mbox[f] :
    u <= lastUid[f] => entries[f][u] # Absent \/ u \in forgone[f]

\* Every message that stays gets its row in the end: the two do not take back each
\* other's progress for ever.
EventuallyShadowedByOne ==
  \A f \in Synced, u \in Uids :
    u \in mbox[f] ~> entries[f][u] # Absent \/ u \in forgone[f] \/ u \notin mbox[f]
=============================================================================
