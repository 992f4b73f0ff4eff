--------------------------- MODULE MailShadowInv ---------------------------
(***************************************************************************)
(* The inductive invariant behind NoGap, RowsAreCurrent and                *)
(* LastUidFallsOverNothing, for programs whose folders are renumbered only *)
(* after their validity was recorded (~RenumberUnrecorded).                *)
(*                                                                         *)
(* NoGap alone is not inductive: between the FETCH and the import the      *)
(* messages below the stream's are in the run's hands, and whether its     *)
(* rows may be trusted depends on the validity it selected under.          *)
(***************************************************************************)
EXTENDS MailShadow

\* Only a program with a trash folder has a call that moves.
MoversHaveTrash == \A d \in Deleters : del[d].pc = "move" => Trash \in Folders

\* A run that is under way has selected its folder.
RunsSelected == \A f \in Synced : sync[f].pc # "idle" => sync[f].val \in Validities

\* Type correctness, with what it rests on.
TypeInv == TypeOK /\ RunsSelected /\ MoversHaveTrash

\* The program knows of u: a row, or a note that it gave the message up.
Known(f, u) == entries[f][u] # Absent \/ u \in forgone[f]

\* The UIDs a run still has in its hands.
Held(f) == sync[f].stream \cup sync[f].batch

\* A UID in the folder was given out, and every UID given out has its message.
UidsGiven(f) ==
  /\ \A u \in mbox[f] : u < uidNext[f]
  /\ \A u \in Uids : u < uidNext[f] => MessageAt(f, u) # Absent

ServerInv == \A f \in Folders : UidsGiven(f)

\* The recorded validity is never ahead of a run's, nor that of the server's;
\* it is unknown only while the folder has its first.
ValiditiesInOrder(f) ==
  /\ storedVal[f] <= validity[f]
  /\ storedVal[f] = 0 => validity[f] = 1
  /\ sync[f].pc # "idle" => /\ storedVal[f] <= sync[f].val
                            /\ sync[f].val <= validity[f]

\* A run purges exactly when what is recorded is not what it selected.
PurgeWhenStale(f) ==
  /\ sync[f].pc \in {"purge", "reset"} => storedVal[f] \notin {0, sync[f].val}
  /\ sync[f].pc \in {"fetch", "collect", "finish"} => storedVal[f] \in {0, sync[f].val}
  /\ sync[f].pc = "reset" => \A u \in Uids : entries[f][u] = Absent

\* Rows and last_uid come from the current numbering.
RowsGiven(f) ==
  Recorded(f) =>
    /\ lastUid[f] < uidNext[f]
    /\ \A u \in Uids : entries[f][u] # Absent =>
         /\ u < uidNext[f]
         /\ entries[f][u] = MessageAt(f, u)

NoGapIn(f) ==
  Recorded(f) => \A u \in mbox[f] : u <= lastUid[f] => Known(f, u)

\* What a run holds is in order, nothing below it is missing, and nothing above
\* it has been passed: importing it leaves no gap, also when last_uid falls.
StreamInOrder(f) ==
  /\ sync[f].pc = "fetch" => sync[f].last = lastUid[f]
  /\ sync[f].pc # "collect" => sync[f].batch = {} /\ sync[f].bare = {}
  /\ sync[f].pc = "collect" =>
       /\ sync[f].bare \subseteq sync[f].batch
       /\ \A b \in sync[f].batch, x \in sync[f].stream : b < x
       /\ sync[f].val = validity[f] =>
            /\ sync[f].bare \subseteq forgone[f]
            /\ \A x \in Held(f) : x < uidNext[f]
            /\ \A x \in Held(f), u \in mbox[f] :
                 u < x => Known(f, u) \/ u \in Held(f)
            /\ \A x \in Held(f), u \in mbox[f] : x < u => lastUid[f] < u

FolderInv(f) ==
  /\ ValiditiesInOrder(f)
  /\ PurgeWhenStale(f)
  /\ RowsGiven(f)
  /\ NoGapIn(f)
  /\ StreamInOrder(f)

SyncInv == ServerInv /\ \A f \in Synced : FolderInv(f)

\* When a folder keeps its numbering, a call that is past its MOVE has seen its
\* message leave, and the UID is not given again.
MovedAway ==
  \A d \in Deleters : del[d].pc \in {"fts", "content", "entry"} =>
    /\ del[d].uid \notin mbox[del[d].folder]
    /\ del[d].uid < uidNext[del[d].folder]

\* ... because the row it was called with was of that numbering.
AskedGiven ==
  \A d \in Deleters : del[d].pc = "move" => del[d].uid < uidNext[del[d].folder]

-----------------------------------------------------------------------------
\* What may be trusted of the database: the rows of a folder whose recorded
\* validity is the server's.
Shown(f) == IF Recorded(f) THEN entries[f] ELSE [u \in Uids |-> Absent]
GivenUp(f) == IF Recorded(f) THEN forgone[f] ELSE {}

Cache == INSTANCE ShadowCache
           WITH cache  <- [f \in Folders |-> Shown(f)],
                waived <- [f \in Folders |-> GivenUp(f)]

\* Seen through Recorded, the database is a cache that forgets a folder in the
\* step in which it is renumbered, and never has a hole: the two statements of
\* the purge, the batches and the late record of the validity cannot be told
\* from steps of ShadowCache (SyncFolder, handleDeleteMail).
ShadowIsCache == Cache!CacheSpec
=============================================================================
