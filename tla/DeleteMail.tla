----------------------------- MODULE DeleteMail -----------------------------
(***************************************************************************)
(* handleDeleteMail.  A call looks the id up in the database, moves the    *)
(* message to the trash folder over a connection of its own, and then      *)
(* deletes the local rows in three statements.  It takes no lock: syncs    *)
(* of the same folder run between its steps.                               *)
(*                                                                         *)
(* The fault budget is SyncFolder's; "crash" is an action of MailShadow.   *)
(***************************************************************************)
EXTENDS SyncFolder

CONSTANTS
  Deleters,     \* the delete_mail calls
  Trash,        \* trash_folder of the account, or NoTrash
  NoTrash       \* trash_folder is not configured

ASSUME TrashAssumption == Trash \in Folders \cup {NoTrash} /\ NoTrash \notin Folders

VARIABLES
  del        \* del[d]: delete_mail call d

DeletePcs == {"idle", "move", "fts", "content", "entry", "ok", "error", "lost"}

DeleteCall ==
  [pc     : DeletePcs,
   folder : Folders,
   uid    : Uids,
   asked  : MsgOrNone,    \* what the row showed when the call looked it up
   moved  : MsgOrNone]    \* the message the MOVE moved (history)

NotCalled ==
  [pc |-> "idle", folder |-> CHOOSE f \in Folders : TRUE,
   uid |-> CHOOSE u \in Uids : TRUE, asked |-> Absent, moved |-> Absent]

DeleteTypeOK == del \in [Deleters -> DeleteCall]

DeleteInit == del = [d \in Deleters |-> NotCalled]

Goto(d, pc) == del' = [del EXCEPT ![d].pc = pc]

\* The id must be one the caller can have seen: a row, now or earlier; the check
\* that it still exists is the handler's.
DeleteLookup(d, f, u) ==
  /\ del[d].pc = "idle"
  /\ Trash # NoTrash
  /\ entries[f][u] # Absent
  /\ del' = [del EXCEPT ![d] = [NotCalled EXCEPT !.pc = "move", !.folder = f,
                                   !.uid = u, !.asked = entries[f][u]]]
  /\ UNCHANGED <<serverVars, dbVars, syncVars>>

\* No trash_folder, or no such row: an error reply.
DeleteRefused(d, f, u) ==
  /\ del[d].pc = "idle"
  /\ Trash = NoTrash \/ entries[f][u] = Absent
  /\ Goto(d, "error")
  /\ UNCHANGED <<serverVars, dbVars, syncVars>>

\* Mutant: the entry is deleted first.
EntryFirst(pc) ==
  CASE pc = "move" -> "entry"
    [] pc = "entry" -> "fts"
    [] pc = "fts" -> "content"
    [] pc = "content" -> "ok"

\* The order after a confirmed MOVE: FTS and content first, the entry last.
AfterDelete(pc) ==
  CASE pc = "move" -> "fts"
    [] pc = "fts" -> "content"
    [] pc = "content" -> "entry"
    [] pc = "entry" -> "ok"

\* Mutant: MOVE without the set being one of UIDs: the u-th message is moved.
NumSet(f, u) ==
  LET nth == {w \in mbox[f] : Cardinality({v \in mbox[f] : v <= w}) = u}
  IN  IF nth = {} THEN u ELSE CHOOSE w \in nth : TRUE

\* uidSet.AddNum: the MOVE names the message by its UID.
UidSet(f, u) == u

\* The folder has the UID: the message goes to the trash folder.  When only the
\* reply is lost the handler reports an error.
DeleteMove(d) ==
  LET f == del[d].folder
      u == UidSet(f, del[d].uid)
  IN  /\ del[d].pc = "move"
      /\ MoveMessage(f, u, Trash)
      /\ \E pc \in {AfterDelete("move"), "error"} :
           /\ \/ pc # "error" /\ UNCHANGED faults
              \/ pc = "error" /\ Fault("imap")
           /\ del' = [del EXCEPT ![d].pc = pc, ![d].moved = MessageAt(f, u)]
      /\ UNCHANGED <<dbVars, sync, forgone>>

\* MOVE of a UID that is not in the folder moves nothing, and is confirmed.
DeleteMoveNothing(d) ==
  /\ del[d].pc = "move"
  /\ UidSet(del[d].folder, del[d].uid) \notin mbox[del[d].folder]
  /\ Goto(d, AfterDelete("move"))
  /\ UNCHANGED <<serverVars, dbVars, syncVars>>

\* Mutant: the error of the MOVE is ignored.
MoveErrorIgnored == "fts"

\* No connection, a failing SELECT or a refused MOVE (here also a full trash
\* folder): an error reply, with the local rows as they are.
AfterMoveFailed == "error"

DeleteMoveFailed(d) ==
  /\ del[d].pc = "move"
  /\ \/ Fault("imap")
     \/ uidNext[Trash] > MaxUid /\ UNCHANGED faults
  /\ Goto(d, AfterMoveFailed)
  /\ UNCHANGED <<serverVars, dbVars, sync, forgone>>

\* The three DELETEs.
FirstDelete(d) ==
  /\ del[d].pc = "fts"
  /\ DeleteFts(del[d].folder, del[d].uid)
  /\ UNCHANGED forgone

SecondDelete(d) ==
  /\ del[d].pc = "content"
  /\ DeleteContent(del[d].folder, del[d].uid)
  /\ UNCHANGED forgone

LastDelete(d) ==
  LET f == del[d].folder
      u == del[d].uid
  IN  /\ del[d].pc = "entry"
      /\ DeleteEntry(f, u)
      /\ forgone' = [forgone EXCEPT ![f] =
                       IF u \in mbox[f] /\ entries[f][u] # Absent
                         THEN @ \cup {u} ELSE @]

DeleteRows(d) ==
  /\ FirstDelete(d) \/ SecondDelete(d) \/ LastDelete(d)
  /\ Goto(d, AfterDelete(del[d].pc))
  /\ UNCHANGED <<serverVars, sync, faults>>

\* A DELETE that fails is logged as a warning, and the call goes on.
DeleteRowsFailed(d) ==
  /\ del[d].pc \in {"fts", "content", "entry"}
  /\ Fault("db")
  /\ Goto(d, AfterDelete(del[d].pc))
  /\ UNCHANGED <<serverVars, dbVars, sync, forgone>>

DeleteStep(d) ==
  \/ \E f \in Synced, u \in Uids : DeleteLookup(d, f, u) \/ DeleteRefused(d, f, u)
  \/ DeleteMove(d)
  \/ DeleteMoveNothing(d)
  \/ DeleteMoveFailed(d)
  \/ DeleteRows(d)
  \/ DeleteRowsFailed(d)
=============================================================================
