----------------------------- MODULE MailShadow -----------------------------
(***************************************************************************)
(* One account of the running program ("serve"): the server, the folder    *)
(* syncs and the delete_mail calls over one shadow database, and what must *)
(* hold of them together.                                                  *)
(***************************************************************************)
EXTENDS DeleteMail

CONSTANT
  RenumberUnrecorded   \* may the server renumber a folder whose validity the
                       \* program has not recorded yet?

ASSUME RenumberAssumption == RenumberUnrecorded \in BOOLEAN

vars == <<serverVars, dbVars, syncVars, del>>

Init == ServerInit /\ DBInit /\ SyncInit /\ DeleteInit

ServerStep ==
  /\ \E f \in Folders :
       \/ \E m \in Msgs : Deliver(f, m)
       \/ \E u \in Uids : Expunge(f, u)
       \/ /\ RenumberUnrecorded \/ storedVal[f] # 0
          /\ Renumber(f)
  /\ UNCHANGED <<dbVars, syncVars, del>>

\* The process stops and starts again: runs and calls are gone, the committed
\* database is not.
Crash ==
  /\ Fault("crash")
  /\ sync' = SyncLost
  /\ del' = [d \in Deleters |->
               IF del[d].pc \in {"move", "fts", "content", "entry"}
                 THEN [del[d] EXCEPT !.pc = "lost"] ELSE del[d]]
  /\ UNCHANGED <<serverVars, dbVars, forgone>>

Next ==
  \/ ServerStep
  \/ \E f \in Synced : (SyncStep(f) \/ SyncBreak(f) \/ SyncAbort(f)) /\ UNCHANGED del
  \/ \E d \in Deleters : DeleteStep(d)
  \/ Crash

Spec == Init /\ [][Next]_vars

\* The ticker of "serve" calls RunAll again and again, so a run on a synced
\* folder always starts, and goes on while the process runs.
FairSpec == Spec /\ \A f \in Synced : WF_vars(SyncStep(f) /\ UNCHANGED del)

-----------------------------------------------------------------------------
\* Values of the right sort in every variable.
TypeOK == ServerTypeOK /\ DBTypeOK /\ SyncTypeOK /\ DeleteTypeOK

\* The rows of f belong to the server's numbering, or that is not known to be
\* otherwise (a validity of 0 is one that was never recorded).
Recorded(f) == storedVal[f] \in {0, validity[f]}

\* No message is lost between two runs.  Every message in the folder with a UID
\* up to last_uid has a row, or the program gave it up: batches, aborts,
\* broken streams, crashes, expunges and delete_mail leave no other gap
\* (SyncFolder, importMessageBatch).
NoGap ==
  \A f \in Synced : Recorded(f) =>
    \A u \in mbox[f] :
      u <= lastUid[f] => entries[f][u] # Absent \/ u \in forgone[f]

\* The same with nothing given up.
NoGapStrict ==
  \A f \in Synced : Recorded(f) =>
    \A u \in mbox[f] : u <= lastUid[f] => entries[f][u] # Absent

\* A row shows the message its UID stands for, once the folder's validity is
\* the recorded one: no row of an earlier numbering survives the purge, and
\* none is written after it (checkAndResetUIDValidity).
RowsAreCurrent ==
  \A f \in Synced : Recorded(f) =>
    \A u \in Uids : entries[f][u] # Absent => entries[f][u] = MessageAt(f, u)

\* While no delete_mail call is between its DELETEs, a row has its content row
\* and an FTS row: get_email_content finds a body, search finds the mail.
RowsAreIndexed ==
  \A f \in Synced, u \in Uids :
    \/ entries[f][u] = Absent
    \/ content[f][u] # Absent /\ fts[f][u] # {}
    \/ \E d \in Deleters : /\ del[d].folder = f
                           /\ del[d].uid = u
                           /\ del[d].pc \in {"content", "entry"}

\* mail_content is 1:1 to mail_entries: the body of a row is that row's.
BodyMatchesEntry ==
  \A f \in Synced, u \in Uids :
    entries[f][u] # Absent /\ content[f][u] # Absent => content[f][u] = entries[f][u]

\* After delete_mail reported success, no row shows the message it moved in the
\* folder it was moved from.
DeletedStaysHidden ==
  \A d \in Deleters :
    /\ del[d].pc = "ok"
    /\ del[d].moved # Absent
    /\ del[d].folder # Trash
    => entries[del[d].folder][del[d].uid] # del[d].moved

\* delete_mail moves the message its caller saw, however long ago, as long as
\* the folder keeps its numbering: a UID is not given again.
MovesWhatWasAsked ==
  \A d \in Deleters : del[d].moved \in {Absent, del[d].asked}

\* Rows go only in a purge, or after their message left the folder: delete_mail
\* deletes the row of no message the server still has there.
RowsOutliveMessages ==
  [][\A f \in Synced, u \in Uids :
       entries[f][u] # Absent /\ entries'[f][u] = Absent =>
         u \notin mbox[f] \/ sync[f].pc = "purge"]_vars

\* updateLastUID sets last_uid to the last batch's maximum, which may be lower
\* than it was (the "*" of the fetch range).  That is harmless: it passes over
\* no message the folder still has, so no later run fetches more for it.
LastUidFallsOverNothing ==
  [][\A f \in Synced : Recorded(f) /\ sync[f].pc = "collect" =>
       \A u \in mbox[f] : ~(lastUid'[f] < u /\ u <= lastUid[f])]_vars

\* Every message that stays in a synced folder is in the database in the end.
EventuallyShadowed ==
  \A f \in Synced, u \in Uids, v \in Validities :
    (u \in mbox[f] /\ validity[f] = v) ~>
      \/ entries[f][u] = minted[f][v][u]
      \/ u \in forgone[f]
      \/ u \notin mbox[f]
      \/ validity[f] # v
=============================================================================
