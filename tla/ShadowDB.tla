------------------------------ MODULE ShadowDB ------------------------------
(***************************************************************************)
(* The SQLite shadow database, at the level of its statements.  The        *)
(* database has one connection (db.Open), so each statement, and each      *)
(* import transaction, is one atomic step.                                 *)
(*                                                                         *)
(* A row's key "account:folder:uid" is the pair <<f, u>> of one account;   *)
(* its columns are abstracted to the message they were copied from.        *)
(* Columns the backfills write (flags, Message-ID) are not told apart.     *)
(***************************************************************************)
EXTENDS MailServer

CONSTANT
  Synced        \* the folders that are synced (the rest never get rows)

ASSUME SyncedAssumption == Synced \subseteq Folders

VARIABLES
  entries,    \* entries[f][u]:  the mail_entries row (with its attachments)
  content,    \* content[f][u]:  the mail_content row
  fts,        \* fts[f][u]:      the messages indexed in mail_content_fts
  lastUid,    \* lastUid[f]:     sync_state.last_uid, 0 when there is no row
  storedVal   \* storedVal[f]:   sync_state.uid_validity, 0 when not recorded

dbVars == <<entries, content, fts, lastUid, storedVal>>

DBTypeOK ==
  /\ entries \in [Folders -> [Uids -> MsgOrNone]]
  /\ content \in [Folders -> [Uids -> MsgOrNone]]
  /\ fts \in [Folders -> [Uids -> SUBSET MsgOrNone]]
  /\ lastUid \in [Folders -> 0..MaxUid]
  /\ storedVal \in [Folders -> 0..MaxValidity]

DBInit ==
  /\ entries = [f \in Folders |-> [u \in Uids |-> Absent]]
  /\ content = [f \in Folders |-> [u \in Uids |-> Absent]]
  /\ fts = [f \in Folders |-> [u \in Uids |-> {}]]
  /\ lastUid = [f \in Folders |-> 0]
  /\ storedVal = [f \in Folders |-> 0]

\* Which of the UIDs us become new rows: ON CONFLICT(id) DO NOTHING.
NewRows(f, us) == {u \in us : entries[f][u] = Absent}

\* Mutant: the caller's "+ 1" is added twice.
GetUIDAfterLast(f) == lastUid[f] + 1

\* getLastUID and getStoredUIDValidity: a missing sync_state row reads as 0.
GetLastUID(f) == lastUid[f]
GetStoredUIDValidity(f) == storedVal[f]

\* The INSERTs of one import transaction: the messages msg[u] for u in us.
\* mail_content is INSERT OR IGNORE; mail_content_fts has no key, a plain INSERT
\* adds to what is there.
InsertRows(f, us, msg) ==
  LET new == NewRows(f, us)
  IN  /\ entries' = [entries EXCEPT ![f] =
                       [u \in Uids |-> IF u \in new THEN msg[u] ELSE @[u]]]
      /\ content' = [content EXCEPT ![f] =
                       [u \in Uids |-> IF u \in new /\ @[u] = Absent
                                         THEN msg[u] ELSE @[u]]]
      /\ fts' = [fts EXCEPT ![f] =
                   [u \in Uids |-> IF u \in new THEN @[u] \cup {msg[u]} ELSE @[u]]]

\* Mutant: last_uid is the next UID rather than the last.
UpdateNextUID(f, us) ==
  lastUid' = IF us = {} THEN lastUid
             ELSE [lastUid EXCEPT ![f] = (CHOOSE x \in us : \A y \in us : y <= x) + 1]

\* Mutant: last_uid is counted on.
AdvanceLastUID(f, us) ==
  lastUid' = [lastUid EXCEPT ![f] =
                IF @ + Cardinality(us) > MaxUid THEN MaxUid ELSE @ + Cardinality(us)]

\* updateLastUID(max): the value is set, not raised; no update for an empty set.
UpdateLastUID(f, us) ==
  lastUid' = IF us = {} THEN lastUid
             ELSE [lastUid EXCEPT ![f] = CHOOSE x \in us : \A y \in us : y <= x]

\* DELETE FROM mail_entries of a folder.  Attachments cascade; mail_content
\* and mail_content_fts have no foreign key and keep their rows.
PurgeEntries(f) ==
  /\ entries' = [entries EXCEPT ![f] = [u \in Uids |-> Absent]]
  /\ UNCHANGED <<content, fts, lastUid, storedVal>>

\* Mutant: last_uid keeps its value.
ResetValidityOnly(f, v) ==
  /\ storedVal' = [storedVal EXCEPT ![f] = v]
  /\ UNCHANGED <<entries, content, fts, lastUid>>

\* UPDATE sync_state SET last_uid = 0, uid_validity = v.
ResetSyncState(f, v) ==
  /\ lastUid' = [lastUid EXCEPT ![f] = 0]
  /\ storedVal' = [storedVal EXCEPT ![f] = v]
  /\ UNCHANGED <<entries, content, fts>>

\* Mutant: the validity is asked for again at the end of the run.
PersistNewestValidity(f, v) ==
  /\ storedVal' = [storedVal EXCEPT ![f] = validity[f]]
  /\ UNCHANGED <<entries, content, fts, lastUid>>

\* persistUIDValidity: an upsert of uid_validity alone.
PersistUIDValidity(f, v) ==
  /\ storedVal' = [storedVal EXCEPT ![f] = v]
  /\ UNCHANGED <<entries, content, fts, lastUid>>

\* The three DELETEs of delete_mail, one statement each.
DeleteFts(f, u) ==
  /\ fts' = [fts EXCEPT ![f][u] = {}]
  /\ UNCHANGED <<entries, content, lastUid, storedVal>>

DeleteContent(f, u) ==
  /\ content' = [content EXCEPT ![f][u] = Absent]
  /\ UNCHANGED <<entries, fts, lastUid, storedVal>>

\* Mutant: the row is looked for by its UID alone.
DeleteEntryByUid(f, u) ==
  /\ entries' = [g \in Folders |-> [entries[g] EXCEPT ![u] = Absent]]
  /\ UNCHANGED <<content, fts, lastUid, storedVal>>

DeleteEntry(f, u) ==
  /\ entries' = [entries EXCEPT ![f][u] = Absent]
  /\ UNCHANGED <<content, fts, lastUid, storedVal>>
=============================================================================
