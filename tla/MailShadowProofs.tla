-------------------------- MODULE MailShadowProofs --------------------------
(***************************************************************************)
(* What delete_mail does beside the syncs, most of it proved for a folder  *)
(* that keeps its UIDVALIDITY: when the folder is renumbered between the   *)
(* steps of a call, the UID of the call is another message's.              *)
(*                                                                         *)
(* Then the refinement: through the mapping of MailShadowInv every step of *)
(* MailShadow is a step of ShadowCache, or none.  And through the one of   *)
(* MailShadowRuns every run of SyncFolder is a run of FolderRuns: it keeps *)
(* what Runner takes for granted of it.                                    *)
(***************************************************************************)
EXTENDS MailShadowSafety, MailShadowRuns

\* The calls that are about to move, or have moved, know a UID that was given.
DeleteInv == TypeInv /\ SyncInv /\ AskedGiven /\ MovedAway

\* A UID that was given, and is in the folder, was in it before the step.
LEMMA GivenWasThere ==
  ASSUME TypeInv, ServerInv, [Next]_vars,
         NEW f \in Folders, validity'[f] = validity[f], NEW u \in Uids, u < uidNext[f]
  PROVE  u < uidNext'[f] /\ (u \notin mbox[f] => u \notin mbox'[f])
<1>t. /\ mbox \in [Folders -> SUBSET Uids] /\ uidNext \in [Folders -> Nat]
      /\ validity \in [Folders -> Validities] /\ Validities \subseteq Nat /\ u \in Nat
  BY BoundsAreNumbers, UidsAreNumbers DEF TypeInv, TypeOK, ServerTypeOK, Validities
<1>1. CASE UNCHANGED serverVars
  BY <1>1 DEF serverVars
<1>2. ASSUME NEW g \in Folders, NEW m \in Msgs, Deliver(g, m)
      PROVE  u < uidNext'[f] /\ (u \notin mbox[f] => u \notin mbox'[f])
  BY <1>t, <1>2 DEF Deliver
<1>3. ASSUME NEW g \in Folders, NEW w \in Uids, Expunge(g, w)
      PROVE  u < uidNext'[f] /\ (u \notin mbox[f] => u \notin mbox'[f])
  BY <1>t, <1>3 DEF Expunge
<1>4. ASSUME NEW g \in Folders, Renumber(g)
      PROVE  u < uidNext'[f] /\ (u \notin mbox[f] => u \notin mbox'[f])
  <2>1. g # f
    <3>1. validity'[g] = validity[g] + 1
      BY <1>t, <1>4 DEF Renumber
    <3>2. validity[f] \in Nat
      BY <1>t
    <3>3. QED
      BY <3>1, <3>2
  <2>2. \E n, h : mbox' = [mbox EXCEPT ![g] = 1..n] /\ uidNext' = [uidNext EXCEPT ![g] = h]
    BY <1>4 DEF Renumber
  <2>3. QED
    BY <1>t, <2>1, <2>2
<1>5. ASSUME NEW d \in Deleters, DeleteMove(d)
      PROVE  u < uidNext'[f] /\ (u \notin mbox[f] => u \notin mbox'[f])
  <2>1. Trash \in Folders /\ MoveMessage(del[d].folder, del[d].uid, Trash)
    BY <1>5 DEF UidSet, DeleteMove, TypeInv, MoversHaveTrash
  <2>2. QED
    BY <1>t, <2>1 DEF MoveMessage
<1>6. CASE ~ UNCHANGED serverVars
  <2>1. ServerStep \/ \E d \in Deleters : DeleteMove(d)
    BY <1>6
    DEF Next, vars, Crash, SyncStep, SyncBegin, SyncPurge, SyncReset, SyncFetch,
        SyncCollect, SyncFlush, SyncStreamEnd, SyncFinish, SyncBreak, SyncAbort,
        DeleteStep, DeleteLookup, DeleteRefused, UidSet, DeleteMoveNothing,
        DeleteMoveFailed, DeleteRows, DeleteRowsFailed
  <2>2. QED
    BY <2>1, <1>2, <1>3, <1>4, <1>5 DEF ServerStep
<1>7. QED
  BY <1>1, <1>6

\* What the server gives out is only ever new: where a folder never gets a second
\* numbering, a UID that was given and is not in the folder stays away.
LEMMA GoneStaysGone ==
  ASSUME MaxValidity = 1, TypeInv, ServerInv, [Next]_vars,
         NEW f \in Folders, NEW u \in Uids, u < uidNext[f]
  PROVE  u < uidNext'[f] /\ (u \notin mbox[f] => u \notin mbox'[f])
<1>1. TypeInv'
  BY TypeInvKept
<1>2. validity \in [Folders -> {1}] /\ validity' \in [Folders -> {1}]
  BY <1>1 DEF TypeInv, TypeOK, ServerTypeOK, Validities
<1>3. QED
  BY <1>2, GivenWasThere

LEMMA DeleteInvInit == Init => DeleteInv
<1> SUFFICES ASSUME Init PROVE DeleteInv
  OBVIOUS
<1>1. \A d \in Deleters : del[d].pc = "idle"
  BY DEF Init, DeleteInit, NotCalled
<1>2. QED
  BY <1>1, TypeInvInit, SyncInvInit DEF DeleteInv, AskedGiven, MovedAway

\* A step of a call leaves the other calls where they are.
LEMMA OtherCallsKeep ==
  ASSUME TypeInv, [Next]_vars, NEW d \in Deleters,
         del'[d].pc \in {"move", "fts", "content", "entry"}
  PROVE  \/ del'[d] = del[d]
         \/ DeleteStep(d)
<1>1. del \in [Deleters -> DeleteCall]
  BY DEF TypeInv, TypeOK, DeleteTypeOK
<1>2. CASE UNCHANGED del
  BY <1>2
<1>3. CASE Crash
  BY <1>1, <1>3 DEF Crash
<1>4. ASSUME NEW e \in Deleters \ {d}, DeleteStep(e)
      PROVE  del'[d] = del[d]
  BY <1>1, <1>4
  DEF DeleteStep, DeleteLookup, DeleteRefused, UidSet, DeleteMove, DeleteMoveNothing,
      DeleteMoveFailed, DeleteRows, DeleteRowsFailed, Goto
<1>5. QED
  BY <1>2, <1>3, <1>4 DEF Next, ServerStep, vars

LEMMA DeleteInvKept ==
  ~ RenumberUnrecorded /\ MaxValidity = 1 /\ DeleteInv /\ [Next]_vars => DeleteInv'
<1> SUFFICES ASSUME ~ RenumberUnrecorded, MaxValidity = 1, DeleteInv, [Next]_vars
             PROVE  DeleteInv'
  OBVIOUS
<1>1. TypeInv' /\ SyncInv'
  BY TypeInvKept, SyncInvKept DEF DeleteInv
<1>2. ASSUME NEW d \in Deleters, del'[d].pc \in {"move", "fts", "content", "entry"}
      PROVE  /\ del'[d].uid < uidNext'[del'[d].folder]
             /\ del'[d].pc # "move" => del'[d].uid \notin mbox'[del'[d].folder]
  <2>t. /\ del \in [Deleters -> DeleteCall] /\ del[d].folder \in Folders /\ del[d].uid \in Uids
        /\ mbox \in [Folders -> SUBSET Uids] /\ uidNext \in [Folders -> Nat]
    BY BoundsAreNumbers DEF DeleteInv, TypeInv, TypeOK, DeleteTypeOK, DeleteCall, ServerTypeOK
  <2>1. CASE del'[d].folder = del[d].folder /\ del'[d].uid = del[d].uid
             /\ del[d].pc \in {"move", "fts", "content", "entry"}
             /\ (del'[d].pc # "move" /\ del[d].pc = "move" =>
                   del[d].uid \notin mbox'[del[d].folder])
    <3>1. del[d].uid < uidNext[del[d].folder]
      BY <2>1 DEF DeleteInv, AskedGiven, MovedAway
    <3>2. del'[d].pc # "move" /\ del[d].pc # "move" => del[d].uid \notin mbox[del[d].folder]
      BY <2>1 DEF DeleteInv, MovedAway
    <3>3. /\ del[d].uid < uidNext'[del[d].folder]
          /\ del[d].uid \notin mbox[del[d].folder] => del[d].uid \notin mbox'[del[d].folder]
      BY <2>t, <3>1, GoneStaysGone DEF DeleteInv, SyncInv
    <3>4. del[d].pc # "move" => del[d].uid \notin mbox[del[d].folder]
      BY <2>1 DEF DeleteInv, MovedAway
    <3>5. QED
      BY <2>1, <3>3, <3>4
  <2>2. CASE del'[d] = del[d]
    BY <1>2, <2>1, <2>2
  <2>3. ASSUME NEW f \in Synced, NEW u \in Uids, DeleteLookup(d, f, u)
        PROVE  /\ del'[d].uid < uidNext'[del'[d].folder]
               /\ del'[d].pc # "move" => del'[d].uid \notin mbox'[del'[d].folder]
    <3>1. /\ del'[d].folder = f /\ del'[d].uid = u /\ del'[d].pc = "move"
          /\ entries[f][u] # Absent /\ uidNext' = uidNext
      <4>1. NotCalled \in DeleteCall
        BY ServerAssumption DEF NotCalled, DeleteCall, DeletePcs, Uids, MsgOrNone
      <4>2. QED
        BY <2>t, <2>3, <4>1 DEF DeleteLookup, DeleteCall, serverVars
    <3>2. Recorded(f)
      <4>1. f \in Folders /\ validity[f] \in 1..1 /\ storedVal[f] \in 0..1
        BY SyncedAssumption
        DEF DeleteInv, TypeInv, TypeOK, ServerTypeOK, DBTypeOK, Validities
      <4>2. QED
        BY <4>1 DEF Recorded
    <3>3. u < uidNext[f]
      BY <3>1, <3>2 DEF DeleteInv, SyncInv, FolderInv, RowsGiven
    <3>4. QED
      BY <3>1, <3>3
  <2>4. CASE DeleteMove(d)
    <3>1. /\ del[d].pc = "move" /\ del'[d].folder = del[d].folder /\ del'[d].uid = del[d].uid
          /\ MoveMessage(del[d].folder, del[d].uid, Trash)
      BY <2>t, <2>4 DEF UidSet, DeleteMove, DeleteCall
    <3>2. del[d].uid # uidNext[del[d].folder] /\ uidNext[del[d].folder] \in Nat
      <4>1. del[d].uid < uidNext[del[d].folder]
        BY <3>1 DEF DeleteInv, AskedGiven
      <4>2. del[d].uid \in Nat
        BY <2>t, UidsAreNumbers
      <4>3. QED
        BY <2>t, <4>1, <4>2
    <3>3. del[d].uid \notin mbox'[del[d].folder]
      BY <2>t, <3>1, <3>2 DEF MoveMessage
    <3>4. QED
      BY <2>1, <3>1, <3>3
  <2>5. CASE DeleteMoveNothing(d)
    <3>1. /\ del[d].pc = "move" /\ del'[d].folder = del[d].folder /\ del'[d].uid = del[d].uid
          /\ del[d].uid \notin mbox'[del[d].folder]
      BY <2>t, <2>5 DEF UidSet, DeleteMoveNothing, Goto, DeleteCall, serverVars
    <3>2. QED
      BY <2>1, <3>1
  <2>6. CASE DeleteRows(d) \/ DeleteRowsFailed(d)
    <3>1. /\ del'[d].folder = del[d].folder /\ del'[d].uid = del[d].uid
          /\ del[d].pc \in {"fts", "content", "entry"}
      BY <2>t, <2>6
      DEF DeleteRows, DeleteRowsFailed, FirstDelete, SecondDelete, LastDelete, Goto, DeleteCall
    <3>2. QED
      BY <2>1, <3>1
  <2>7. CASE DeleteMoveFailed(d) \/ \E f \in Synced, u \in Uids : DeleteRefused(d, f, u)
    <3>1. del'[d].pc = "error"
      BY <2>t, <2>7 DEF DeleteMoveFailed, DeleteRefused, AfterMoveFailed, Goto, DeleteCall
    <3>2. QED
      BY <1>2, <3>1
  <2>8. del'[d] = del[d] \/ DeleteStep(d)
    BY <1>2, OtherCallsKeep DEF DeleteInv
  <2>9. QED
    BY <2>2, <2>3, <2>4, <2>5, <2>6, <2>7, <2>8 DEF DeleteStep
<1>3. AskedGiven' /\ MovedAway'
  BY <1>2 DEF AskedGiven, MovedAway
<1>4. QED
  BY <1>1, <1>3 DEF DeleteInv

\* Rows go only in a purge, or after their message left the folder
\* (handleDeleteMail deletes the rows only after a confirmed MOVE).
THEOREM DeletedRowsHadLeft ==
  ASSUME ~ RenumberUnrecorded, MaxValidity = 1
  PROVE  Spec => RowsOutliveMessages
<1>1. ASSUME DeleteInv, [Next]_vars, NEW f \in Synced, NEW u \in Uids,
             entries[f][u] # Absent, entries'[f][u] = Absent, sync[f].pc # "purge"
      PROVE  u \notin mbox[f]
  <2>t. /\ entries \in [Folders -> [Uids -> MsgOrNone]] /\ f \in Folders
    BY <1>1, SyncedAssumption DEF DeleteInv, TypeInv, TypeOK, DBTypeOK
  <2>1. ASSUME NEW d \in Deleters, LastDelete(d)
        PROVE  u \notin mbox[f]
    <3>1. del[d].folder = f /\ del[d].uid = u
      BY <2>t, <1>1, <2>1 DEF LastDelete, DeleteEntry
    <3>2. QED
      BY <1>1, <2>1, <3>1 DEF LastDelete, DeleteInv, MovedAway
  <2>2. ASSUME NEW g \in Synced, SyncPurge(g)
        PROVE  FALSE
    <3>1. g = f
      BY <2>t, <1>1, <2>2 DEF SyncPurge, PurgeEntries
    <3>2. QED
      BY <1>1, <2>2, <3>1 DEF SyncPurge
  <2>3. ASSUME NEW g \in Synced, SyncFlush(g)
        PROVE  FALSE
    <3>1. InsertRows(g, sync[g].batch \ sync[g].bare, minted[g][sync[g].val])
      BY <2>3 DEF SyncFlush, ImportMessageBatch
    <3>2. QED
      BY <2>t, <1>1, <3>1, SyncedAssumption DEF InsertRows, NewRows
  <2>4. ~ UNCHANGED entries
    BY <1>1
  <2>5. \/ \E d \in Deleters : LastDelete(d)
        \/ \E g \in Synced : SyncPurge(g) \/ SyncFlush(g)
    BY <1>1, <2>4
    DEF Next, vars, dbVars, ServerStep, Crash, SyncStep, SyncBegin, SyncReset,
        SyncFetch, SyncCollect, SyncStreamEnd, SyncFinish, SyncBreak, SyncAbort,
        ResetSyncState, PersistUIDValidity, DeleteStep, DeleteLookup, DeleteRefused,
        UidSet, DeleteMove, DeleteMoveNothing, DeleteMoveFailed, DeleteRows,
        DeleteRowsFailed, FirstDelete, SecondDelete, DeleteFts, DeleteContent
  <2>6. QED
    BY <2>1, <2>2, <2>3, <2>5
<1>2. DeleteInv /\ [Next]_vars =>
        [\A f \in Synced, u \in Uids :
           entries[f][u] # Absent /\ entries'[f][u] = Absent =>
             u \notin mbox[f] \/ sync[f].pc = "purge"]_vars
  BY <1>1
<1>3. QED
  BY <1>2, DeleteInvInit, DeleteInvKept, PTL DEF Spec, RowsOutliveMessages

-----------------------------------------------------------------------------
(* Nothing is given up.                                                    *)

NothingForgone == \A f \in Synced : forgone[f] = {}

\* Only a Collect error makes the program give up a message of a folder that
\* keeps its numbering.
LEMMA NothingForgoneKept ==
  ASSUME "collect" \notin Faults, DeleteInv, NothingForgone, [Next]_vars
  PROVE  NothingForgone'
<1>t. forgone \in [Folders -> SUBSET Uids] /\ Synced \subseteq Folders
  BY SyncedAssumption DEF DeleteInv, TypeInv, TypeOK, SyncTypeOK
<1>1. CASE UNCHANGED forgone
  BY <1>1 DEF NothingForgone
<1>2. ASSUME NEW g \in Synced, SyncReset(g) PROVE NothingForgone'
  BY <1>t, <1>2 DEF SyncReset, NothingForgone
<1>3. ASSUME NEW g \in Synced, SyncCollect(g) PROVE UNCHANGED forgone
  BY <1>3 DEF SyncCollect, Fault
<1>4. ASSUME NEW d \in Deleters, LastDelete(d) PROVE NothingForgone'
  <2>1. del[d].uid \notin mbox[del[d].folder]
    BY <1>4 DEF LastDelete, DeleteInv, MovedAway
  <2> QED
    BY <1>t, <1>4, <2>1 DEF LastDelete, NothingForgone
<1>5. \/ UNCHANGED forgone
      \/ \E g \in Synced : SyncReset(g) \/ SyncCollect(g)
      \/ \E d \in Deleters : LastDelete(d)
  BY DEF Next, vars, syncVars, ServerStep, Crash, SyncStep, SyncBegin, SyncPurge, SyncFetch,
     SyncFlush, SyncStreamEnd, SyncFinish, SyncBreak, SyncAbort, DeleteStep, DeleteLookup,
     DeleteRefused, DeleteMove, DeleteMoveNothing, DeleteMoveFailed, DeleteRows,
     DeleteRowsFailed, FirstDelete, SecondDelete
<1> QED
  BY <1>1, <1>2, <1>3, <1>4, <1>5

\* Without renumbering and without Collect errors there is no gap at all: every
\* message of the folder up to last_uid has its row, whatever else fails.
THEOREM NothingIsMissing ==
  ASSUME ~ RenumberUnrecorded, MaxValidity = 1, "collect" \notin Faults
  PROVE  Spec => []NoGapStrict
<1>1. Init => NothingForgone
  BY SyncedAssumption DEF Init, SyncInit, NothingForgone
<1>2. DeleteInv /\ NothingForgone => NoGapStrict
  BY DEF DeleteInv, SyncInv, FolderInv, NoGapIn, Known, NothingForgone, NoGapStrict
<1>3. DeleteInv /\ NothingForgone /\ [Next]_vars => NothingForgone'
  BY NothingForgoneKept
<1> QED
  BY <1>1, <1>2, <1>3, DeleteInvInit, DeleteInvKept, PTL DEF Spec

-----------------------------------------------------------------------------
(* The message that was asked for.                                         *)

\* A call that is about to move still has the message it looked up under its
\* UID, and none has moved another one.
AskedIsThere ==
  /\ \A d \in Deleters : del[d].pc = "move" =>
       del[d].asked = MessageAt(del[d].folder, del[d].uid)
  /\ MovesWhatWasAsked

\* A UID that was given stands for its message for good.
LEMMA GivenKeeps ==
  ASSUME MaxValidity = 1, TypeInv, [Next]_vars,
         NEW f \in Folders, NEW u \in Uids, u < uidNext[f]
  PROVE  MessageAt(f, u)' = MessageAt(f, u)
<1>t. /\ validity \in [Folders -> Validities] /\ Validities = {1} /\ u \in Nat
      /\ uidNext \in [Folders -> Nat]
      /\ minted \in [Folders -> [Validities -> [Uids -> MsgOrNone]]]
  BY BoundsAreNumbers, UidsAreNumbers DEF TypeInv, TypeOK, ServerTypeOK, Validities
<1>1. CASE UNCHANGED serverVars
  BY <1>1 DEF serverVars, MessageAt
<1>2. ASSUME NEW g \in Folders, NEW m \in Msgs, Deliver(g, m)
      PROVE  MessageAt(f, u)' = MessageAt(f, u)
  BY <1>t, <1>2 DEF Deliver, MessageAt
<1>3. ASSUME NEW g \in Folders, NEW w \in Uids, Expunge(g, w)
      PROVE  MessageAt(f, u)' = MessageAt(f, u)
  BY <1>3 DEF Expunge, MessageAt
<1>4. ASSUME NEW g \in Folders, Renumber(g) PROVE FALSE
  <2>1. validity[g] < MaxValidity
    BY <1>4 DEF Renumber
  <2> QED
    BY <1>t, <2>1
<1>5. ASSUME NEW d \in Deleters, DeleteMove(d)
      PROVE  MessageAt(f, u)' = MessageAt(f, u)
  <2>1. Trash \in Folders /\ MoveMessage(del[d].folder, del[d].uid, Trash)
    BY <1>5 DEF UidSet, DeleteMove, TypeInv, MoversHaveTrash
  <2> QED
    BY <1>t, <2>1 DEF MoveMessage, MessageAt
<1>6. CASE ~ UNCHANGED serverVars
  <2>1. ServerStep \/ \E d \in Deleters : DeleteMove(d)
    BY <1>6
    DEF Next, vars, Crash, SyncStep, SyncBegin, SyncPurge, SyncReset, SyncFetch,
        SyncCollect, SyncFlush, SyncStreamEnd, SyncFinish, SyncBreak, SyncAbort,
        DeleteStep, DeleteLookup, DeleteRefused, DeleteMoveNothing,
        DeleteMoveFailed, DeleteRows, DeleteRowsFailed
  <2> QED
    BY <2>1, <1>2, <1>3, <1>4, <1>5 DEF ServerStep
<1> QED
  BY <1>1, <1>6

LEMMA AskedIsThereKept ==
  ASSUME MaxValidity = 1, DeleteInv, AskedIsThere, [Next]_vars
  PROVE  AskedIsThere'
<1>t. /\ del \in [Deleters -> DeleteCall]
      /\ \A d \in Deleters : /\ del[d] \in DeleteCall
                              /\ del[d].folder \in Folders /\ del[d].uid \in Uids
  BY DEF DeleteInv, TypeInv, TypeOK, DeleteTypeOK, DeleteCall
<1>0. TypeInv
  BY DEF DeleteInv
<1>1. ASSUME NEW d \in Deleters
      PROVE  /\ del'[d].pc = "move" => del'[d].asked = MessageAt(del[d].folder, del[d].uid)'
             /\ del'[d].moved \in {Absent, del'[d].asked}
  <2>0. /\ del[d].moved \in {Absent, del[d].asked}
        /\ del[d].pc = "move" => del[d].asked = MessageAt(del[d].folder, del[d].uid)
    BY DEF AskedIsThere, MovesWhatWasAsked
  <2>1. CASE del'[d] = del[d]
    <3>1. CASE del[d].pc = "move"
      <4>1. PICK f \in Folders, u \in Uids : f = del[d].folder /\ u = del[d].uid
        BY <1>t
      <4>2. MessageAt(f, u)' = MessageAt(f, u)
        BY <1>0, <3>1, <4>1, GivenKeeps DEF DeleteInv, AskedGiven
      <4> QED
        BY <2>0, <2>1, <3>1, <4>1, <4>2
    <3> QED
      BY <2>0, <2>1, <3>1
  <2>2. ASSUME NEW f \in Synced, NEW u \in Uids, DeleteLookup(d, f, u)
        PROVE  /\ del'[d].asked = MessageAt(del[d].folder, del[d].uid)'
               /\ del'[d].moved = Absent
    <3>1. /\ del'[d].folder = f /\ del'[d].uid = u /\ del'[d].moved = Absent
          /\ del'[d].asked = entries[f][u] /\ entries[f][u] # Absent
          /\ UNCHANGED serverVars
      <4>1. NotCalled \in DeleteCall /\ NotCalled.moved = Absent
        BY ServerAssumption DEF NotCalled, DeleteCall, DeletePcs, Uids, MsgOrNone
      <4> QED
        BY <1>t, <2>2, <4>1 DEF DeleteLookup, DeleteCall
    <3>2. entries[f][u] = MessageAt(f, u)
      <4>1. f \in Folders /\ validity[f] \in 1..1 /\ storedVal[f] \in 0..1
        BY SyncedAssumption
        DEF DeleteInv, TypeInv, TypeOK, ServerTypeOK, DBTypeOK, Validities
      <4>2. Recorded(f)
        BY <4>1 DEF Recorded
      <4> QED
        BY <3>1, <4>2 DEF DeleteInv, SyncInv, FolderInv, RowsGiven
    <3> QED
      BY <3>1, <3>2 DEF serverVars, MessageAt
  <2>3. CASE DeleteMove(d)
    <3>1. /\ del[d].pc = "move" /\ del'[d].asked = del[d].asked /\ del'[d].pc # "move"
          /\ del'[d].moved = MessageAt(del[d].folder, del[d].uid)
      BY <1>t, <2>3 DEF UidSet, DeleteMove, DeleteCall, AfterDelete
    <3> QED
      BY <2>0, <3>1
  <2>4. CASE \/ DeleteMoveNothing(d) \/ DeleteMoveFailed(d) \/ DeleteRows(d) \/ DeleteRowsFailed(d)
             \/ \E f \in Synced, u \in Uids : DeleteRefused(d, f, u)
    <3>1. PICK pc \in {"fts", "content", "entry", "ok", "error"} : del' = [del EXCEPT ![d].pc = pc]
      BY <2>4 DEF DeleteMoveNothing, DeleteMoveFailed, DeleteRows, DeleteRowsFailed, DeleteRefused,
         FirstDelete, SecondDelete, LastDelete, Goto, AfterDelete, AfterMoveFailed
    <3>2. del'[d].pc # "move" /\ del'[d].moved = del[d].moved /\ del'[d].asked = del[d].asked
      BY <1>t, <3>1 DEF DeleteCall
    <3> QED
      BY <2>0, <3>2
  <2>5. CASE Crash
    <3>1. \/ del'[d] = del[d]
          \/ del'[d].pc = "lost" /\ del'[d].moved = del[d].moved /\ del'[d].asked = del[d].asked
      BY <1>t, <2>5 DEF Crash, DeleteCall
    <3> QED
      BY <2>0, <2>1, <3>1
  <2>6. del'[d] = del[d] \/ DeleteStep(d) \/ Crash
    <3>1. ASSUME NEW e \in Deleters \ {d}, DeleteStep(e) PROVE del'[d] = del[d]
      BY <1>t, <3>1
      DEF DeleteStep, DeleteLookup, DeleteRefused, DeleteMove, DeleteMoveNothing,
          DeleteMoveFailed, DeleteRows, DeleteRowsFailed, Goto
    <3> QED
      BY <3>1 DEF Next, ServerStep, vars
  <2> QED
    BY <2>1, <2>2, <2>3, <2>4, <2>5, <2>6 DEF DeleteStep
<1> QED
  BY <1>1 DEF AskedIsThere, MovesWhatWasAsked, MessageAt

\* delete_mail moves the message its caller saw: as long as the folder keeps its
\* numbering, the UID of the call still stands for it when the MOVE is done.
THEOREM MovedAsAsked ==
  ASSUME ~ RenumberUnrecorded, MaxValidity = 1
  PROVE  Spec => []MovesWhatWasAsked
<1>1. Init => AskedIsThere
  BY DEF Init, DeleteInit, NotCalled, AskedIsThere, MovesWhatWasAsked
<1>2. DeleteInv /\ AskedIsThere /\ [Next]_vars => AskedIsThere'
  BY AskedIsThereKept
<1>3. AskedIsThere => MovesWhatWasAsked
  BY DEF AskedIsThere
<1> QED
  BY <1>1, <1>2, <1>3, DeleteInvInit, DeleteInvKept, PTL DEF Spec

-----------------------------------------------------------------------------
(* The index.                                                              *)

\* Is row u of f indexed, or being deleted?
Indexed(f, u) == content[f][u] # Absent /\ fts[f][u] # {}
Leaving(f, u) == \E d \in Deleters : /\ del[d].folder = f
                                     /\ del[d].uid = u
                                     /\ del[d].pc \in {"content", "entry"}

\* A call between its DELETEs stays there until its last one.
LEMMA LeavingStays ==
  ASSUME "db" \notin Faults, "crash" \notin Faults, TypeInv, [Next]_vars,
         NEW f \in Synced, NEW u \in Uids, Leaving(f, u)
  PROVE  Leaving(f, u)' \/ entries'[f][u] = Absent
<1>t. /\ del \in [Deleters -> DeleteCall] /\ f \in Folders
      /\ entries \in [Folders -> [Uids -> MsgOrNone]]
  BY SyncedAssumption DEF TypeInv, TypeOK, DeleteTypeOK, DBTypeOK
<1>1. PICK d \in Deleters : del[d].folder = f /\ del[d].uid = u /\ del[d].pc \in {"content", "entry"}
  BY DEF Leaving
<1>2. CASE del'[d] = del[d]
  BY <1>1, <1>2 DEF Leaving
<1>3. CASE DeleteStep(d)
  <2>1. DeleteRows(d)
    BY <1>1, <1>3 DEF DeleteStep, DeleteLookup, DeleteRefused, DeleteMove, DeleteMoveNothing,
       DeleteMoveFailed, DeleteRowsFailed, Fault
  <2>2. CASE del[d].pc = "content"
    <3>1. del'[d].pc = "entry" /\ del'[d].folder = f /\ del'[d].uid = u
      BY <1>t, <1>1, <2>1, <2>2 DEF DeleteRows, Goto, AfterDelete, DeleteCall
    <3> QED
      BY <3>1 DEF Leaving
  <2>3. CASE del[d].pc = "entry"
    BY <1>t, <1>1, <2>1, <2>3 DEF DeleteRows, FirstDelete, SecondDelete, LastDelete, DeleteEntry
  <2> QED
    BY <1>1, <2>2, <2>3
<1>4. del'[d] = del[d] \/ DeleteStep(d)
  <2>1. ASSUME NEW e \in Deleters \ {d}, DeleteStep(e) PROVE del'[d] = del[d]
    BY <1>t, <2>1
    DEF DeleteStep, DeleteLookup, DeleteRefused, DeleteMove, DeleteMoveNothing,
        DeleteMoveFailed, DeleteRows, DeleteRowsFailed, Goto
  <2>2. ~Crash
    BY DEF Crash, Fault
  <2> QED
    BY <2>1, <2>2 DEF Next, ServerStep, vars
<1> QED
  BY <1>2, <1>3, <1>4

LEMMA RowsAreIndexedKept ==
  ASSUME "db" \notin Faults, "crash" \notin Faults, TypeInv, RowsAreIndexed, [Next]_vars
  PROVE  RowsAreIndexed'
<1> SUFFICES ASSUME NEW f \in Synced, NEW u \in Uids
             PROVE  entries'[f][u] = Absent \/ Indexed(f, u)' \/ Leaving(f, u)'
  BY DEF RowsAreIndexed, Indexed, Leaving
<1>t. /\ f \in Folders
      /\ entries \in [Folders -> [Uids -> MsgOrNone]]
      /\ content \in [Folders -> [Uids -> MsgOrNone]]
      /\ fts \in [Folders -> [Uids -> SUBSET MsgOrNone]]
      /\ del \in [Deleters -> DeleteCall]
  BY SyncedAssumption DEF TypeInv, TypeOK, DBTypeOK, DeleteTypeOK
<1>0. entries[f][u] = Absent \/ Indexed(f, u) \/ Leaving(f, u)
  BY DEF RowsAreIndexed, Indexed, Leaving
<1>1. CASE Leaving(f, u)
  BY <1>1, LeavingStays
<1>2. CASE UNCHANGED <<entries, content, fts>>
  BY <1>0, <1>1, <1>2 DEF Indexed
<1>3. ASSUME NEW g \in Synced, SyncPurge(g)
      PROVE  entries'[f][u] = Absent \/ Indexed(f, u)' \/ Leaving(f, u)'
  <2>1. /\ UNCHANGED <<content, fts>>
        /\ entries'[f][u] \in {Absent, entries[f][u]}
    BY <1>t, <1>3 DEF SyncPurge, PurgeEntries
  <2> QED
    BY <1>0, <1>1, <2>1 DEF Indexed
<1>4. ASSUME NEW g \in Synced, SyncFlush(g)
      PROVE  entries'[f][u] = Absent \/ Indexed(f, u)' \/ Leaving(f, u)'
  <2> DEFINE us == sync[g].batch \ sync[g].bare
             msg == minted[g][sync[g].val]
  <2>1. InsertRows(g, us, msg)
    BY <1>4 DEF SyncFlush, ImportMessageBatch
  <2>2. CASE g = f /\ u \in NewRows(f, us)
    <3>1. /\ entries'[f][u] = msg[u]
          /\ content'[f][u] = IF content[f][u] = Absent THEN msg[u] ELSE content[f][u]
          /\ fts'[f][u] = fts[f][u] \cup {msg[u]}
      BY <1>t, <2>1, <2>2 DEF InsertRows
    <3> QED
      BY <3>1 DEF Indexed
  <2>3. CASE ~(g = f /\ u \in NewRows(f, us))
    <3>1. /\ entries'[f][u] = entries[f][u]
          /\ content'[f][u] = content[f][u]
          /\ fts'[f][u] = fts[f][u]
      BY <1>t, <2>1, <2>3, SyncedAssumption DEF InsertRows
    <3> QED
      BY <1>0, <1>1, <3>1 DEF Indexed
  <2> QED
    BY <2>2, <2>3
<1>5. ASSUME NEW d \in Deleters, DeleteRows(d)
      PROVE  entries'[f][u] = Absent \/ Indexed(f, u)' \/ Leaving(f, u)'
  <2>1. CASE ~(del[d].folder = f /\ del[d].uid = u)
    <3>1. /\ entries'[f][u] = entries[f][u]
          /\ content'[f][u] = content[f][u]
          /\ fts'[f][u] = fts[f][u]
      <4>1. del[d].folder \in Folders /\ del[d].uid \in Uids
        BY <1>t DEF DeleteCall
      <4> QED
        BY <1>t, <1>5, <2>1, <4>1 DEF DeleteRows, FirstDelete, SecondDelete, LastDelete, DeleteFts,
           DeleteContent, DeleteEntry
    <3> QED
      BY <1>0, <1>1, <3>1 DEF Indexed
  <2>2. CASE del[d].folder = f /\ del[d].uid = u /\ del[d].pc = "fts"
    <3>1. del'[d].folder = f /\ del'[d].uid = u /\ del'[d].pc = "content"
      BY <1>t, <1>5, <2>2 DEF DeleteRows, Goto, AfterDelete, DeleteCall
    <3> QED
      BY <3>1 DEF Leaving
  <2>3. CASE del[d].folder = f /\ del[d].uid = u /\ del[d].pc \in {"content", "entry"}
    BY <1>1, <2>3 DEF Leaving
  <2> QED
    BY <1>5, <2>1, <2>2, <2>3 DEF DeleteRows, FirstDelete, SecondDelete, LastDelete
<1>6. \/ UNCHANGED <<entries, content, fts>>
      \/ \E g \in Synced : SyncPurge(g) \/ SyncFlush(g)
      \/ \E d \in Deleters : DeleteRows(d)
  <2>1. CASE UNCHANGED vars \/ Crash \/ ServerStep
    BY <2>1 DEF vars, dbVars, Crash, ServerStep
  <2>2. ASSUME NEW g \in Synced, SyncStep(g) \/ SyncBreak(g) \/ SyncAbort(g)
        PROVE  UNCHANGED <<entries, content, fts>> \/ SyncPurge(g) \/ SyncFlush(g)
    BY <2>2 DEF SyncStep, SyncBegin, SyncReset, SyncFetch, SyncCollect, SyncStreamEnd,
       SyncFinish, SyncBreak, SyncAbort, ResetSyncState, PersistUIDValidity, dbVars
  <2>3. ASSUME NEW d \in Deleters, DeleteStep(d)
        PROVE  UNCHANGED <<entries, content, fts>> \/ DeleteRows(d)
    BY <2>3 DEF DeleteStep, DeleteLookup, DeleteRefused, DeleteMove, DeleteMoveNothing,
       DeleteMoveFailed, DeleteRowsFailed, dbVars
  <2> QED
    BY <2>1, <2>2, <2>3 DEF Next
<1> QED
  BY <1>2, <1>3, <1>4, <1>5, <1>6

\* Whatever imports and calls interleave, a row without its body or without its
\* FTS row is one a delete_mail call is about to remove, as long as no DELETE
\* fails and the process does not stop between two of them.
THEOREM RowsStayIndexed ==
  ASSUME "db" \notin Faults, "crash" \notin Faults
  PROVE  Spec => []RowsAreIndexed
<1>1. Init => RowsAreIndexed
  BY SyncedAssumption DEF Init, DBInit, RowsAreIndexed
<1>2. TypeInv /\ RowsAreIndexed /\ [Next]_vars => RowsAreIndexed'
  BY RowsAreIndexedKept
<1> QED
  BY <1>1, <1>2, TypeInvInit, TypeInvKept, PTL DEF Spec

-----------------------------------------------------------------------------

\* The mapped variables.
Entries == [f \in Folders |-> Shown(f)]
Waivers == [f \in Folders |-> GivenUp(f)]

\* A folder that is not synced has no validity recorded.
UnsyncedUnrecorded == \A f \in Folders \ Synced : storedVal[f] = 0

CacheInv == TypeInv /\ SyncInv /\ UnsyncedUnrecorded

LEMMA CacheInvInit == Init => CacheInv
BY TypeInvInit, SyncInvInit DEF CacheInv, UnsyncedUnrecorded, Init, DBInit

LEMMA CacheInvKept == ~ RenumberUnrecorded /\ CacheInv /\ [Next]_vars => CacheInv'
<1> SUFFICES ASSUME ~ RenumberUnrecorded, CacheInv, [Next]_vars PROVE CacheInv'
  OBVIOUS
<1>1. TypeInv' /\ SyncInv'
  BY TypeInvKept, SyncInvKept DEF CacheInv
<1>2. ASSUME NEW f \in Folders \ Synced
      PROVE  storedVal'[f] = storedVal[f]
  <2>1. storedVal \in [Folders -> 0..MaxValidity]
    BY DEF CacheInv, TypeInv, TypeOK, DBTypeOK
  <2>2. \/ UNCHANGED storedVal
        \/ \E g \in Synced : \E v : storedVal' = [storedVal EXCEPT ![g] = v]
    BY DEF Next, vars, dbVars, ServerStep, Crash, SyncStep, SyncBegin, SyncPurge, SyncReset,
           SyncFetch, SyncCollect, SyncFlush, SyncStreamEnd, SyncFinish, SyncBreak, SyncAbort,
           ImportMessageBatch, PurgeEntries, ResetSyncState, PersistUIDValidity,
           DeleteStep, DeleteLookup, DeleteRefused, UidSet, DeleteMove, DeleteMoveNothing,
           DeleteMoveFailed, DeleteRows, DeleteRowsFailed, FirstDelete, SecondDelete,
           LastDelete, DeleteFts, DeleteContent, DeleteEntry
  <2>3. QED
    BY <2>1, <2>2
<1>3. QED
  BY <1>1, <1>2 DEF CacheInv, UnsyncedUnrecorded

-----------------------------------------------------------------------------
\* What changes no validity, row or waiver changes nothing of the cache.
LEMMA Unseen ==
  ASSUME UNCHANGED <<validity, storedVal, entries, forgone>>
  PROVE  UNCHANGED <<Entries, Waivers>>
BY DEF Entries, Waivers, Shown, GivenUp, Recorded

\* A step that touches one folder is seen in no other.
LEMMA SeenInOne ==
  ASSUME NEW f \in Folders,
         \A g \in Folders \ {f} :
           /\ validity'[g] = validity[g] /\ storedVal'[g] = storedVal[g]
           /\ entries'[g] = entries[g] /\ forgone'[g] = forgone[g]
  PROVE  /\ Entries' = [Entries EXCEPT ![f] = Shown(f)']
         /\ Waivers' = [Waivers EXCEPT ![f] = GivenUp(f)']
BY DEF Entries, Waivers, Shown, GivenUp, Recorded

\* The server's actions are the same in both.
LEMMA SameServer ==
  /\ \A f \in Folders, m \in Msgs : Deliver(f, m) => Cache!Deliver(f, m)
  /\ \A f \in Folders, u \in Uids : Expunge(f, u) => Cache!Expunge(f, u)
  /\ \A f, t \in Folders, u \in Uids : MoveMessage(f, u, t) => Cache!MoveMessage(f, u, t)
  /\ \A f \in Folders : Renumber(f) => Cache!Renumber(f)
BY DEF Deliver, Cache!Deliver, Expunge, Cache!Expunge, MoveMessage, Cache!MoveMessage,
       Renumber, Cache!Renumber, MessageAt, Cache!MessageAt, Uids, Cache!Uids,
       Validities, Cache!Validities

-----------------------------------------------------------------------------
\* Mail comes and goes, or is moved.
LEMMA ServerIsLive ==
  ASSUME UNCHANGED <<dbVars, forgone>>,
         \/ \E f \in Folders, m \in Msgs : Deliver(f, m)
         \/ \E f \in Folders, u \in Uids : Expunge(f, u)
         \/ \E f, t \in Folders, u \in Uids : MoveMessage(f, u, t)
  PROVE  Cache!Live
<1>1. UNCHANGED <<Entries, Waivers>>
  BY Unseen DEF Deliver, Expunge, MoveMessage, dbVars
<1>2. QED
  BY <1>1, SameServer DEF Cache!Live, Entries, Waivers, Uids, Cache!Uids

\* A renumbering empties the cache.
LEMMA RenumberStartsOver ==
  ASSUME CacheInv, CacheInv', NEW f \in Folders, Renumber(f), storedVal[f] # 0,
         UNCHANGED <<dbVars, forgone>>
  PROVE  Cache!StartOver(f)
<1>1. f \in Synced /\ validity[f] \in Nat /\ storedVal[f] \in Nat /\ storedVal[f] <= validity[f]
  BY FolderTyped DEF CacheInv, UnsyncedUnrecorded, SyncInv, FolderInv, ValiditiesInOrder
<1>2. validity' = [validity EXCEPT ![f] = @ + 1] /\ validity \in [Folders -> Validities]
  BY DEF Renumber, CacheInv, TypeInv, TypeOK, ServerTypeOK
<1>3. ~ Recorded(f)'
  BY <1>1, <1>2 DEF Recorded, dbVars
<1>4. /\ Entries' = [Entries EXCEPT ![f] = Shown(f)']
      /\ Waivers' = [Waivers EXCEPT ![f] = GivenUp(f)']
  BY <1>2, SeenInOne DEF dbVars
<1>5. QED
  BY <1>3, <1>4, SameServer
  DEF Cache!StartOver, Cache!Empty, Shown, GivenUp, Entries, Waivers, Uids, Cache!Uids

\* The purge empties what is not shown, and the reset shows what is empty.
LEMMA PurgeIsUnseen ==
  ASSUME CacheInv, NEW f \in Synced, SyncPurge(f) \/ SyncReset(f)
  PROVE  UNCHANGED <<Entries, Waivers>>
<1>t. /\ f \in Folders /\ storedVal[f] \in Nat /\ validity[f] \in Nat /\ sync[f].val \in Nat
      /\ entries \in [Folders -> [Uids -> MsgOrNone]]
      /\ storedVal \in [Folders -> 0..MaxValidity]
      /\ forgone \in [Folders -> SUBSET Uids]
      /\ FolderInv(f)
  BY FolderTyped DEF CacheInv, TypeInv, TypeOK, DBTypeOK, SyncTypeOK, SyncInv
<1>1. ~ Recorded(f)
  <2>1. sync[f].pc \in {"purge", "reset"}
    BY DEF SyncPurge, SyncReset
  <2>2. /\ storedVal[f] # 0 /\ storedVal[f] # sync[f].val
        /\ storedVal[f] <= sync[f].val /\ sync[f].val <= validity[f]
    BY <1>t, <2>1 DEF FolderInv, ValiditiesInOrder, PurgeWhenStale
  <2>3. storedVal[f] \in Nat /\ validity[f] \in Nat /\ sync[f].val \in Nat
    BY <1>t
  <2>4. storedVal[f] # validity[f]
    BY <2>2, <2>3
  <2>5. QED
    BY <2>2, <2>4 DEF Recorded
<1>2. CASE SyncPurge(f)
  <2>1. /\ UNCHANGED <<validity, storedVal, forgone>>
        /\ entries' = [entries EXCEPT ![f] = [u \in Uids |-> Absent]]
    BY <1>2 DEF SyncPurge, PurgeEntries, serverVars
  <2>2. Shown(f)' = Shown(f) /\ GivenUp(f)' = GivenUp(f)
    BY <1>1, <2>1 DEF Shown, GivenUp, Recorded
  <2>3. /\ Entries' = [Entries EXCEPT ![f] = Shown(f)']
        /\ Waivers' = [Waivers EXCEPT ![f] = GivenUp(f)']
    BY <1>t, <2>1, SeenInOne
  <2>4. QED
    BY <1>t, <2>2, <2>3 DEF Entries, Waivers
<1>3. CASE SyncReset(f)
  <2>1. /\ UNCHANGED <<validity, entries>>
        /\ storedVal' = [storedVal EXCEPT ![f] = sync[f].val]
        /\ forgone' = [forgone EXCEPT ![f] = {}]
    BY <1>3 DEF SyncReset, ResetSyncState, serverVars
  <2>2. entries[f] = [u \in Uids |-> Absent]
    BY <1>t, <1>3 DEF SyncReset, FolderInv, PurgeWhenStale
  <2>3. Shown(f)' = Shown(f) /\ GivenUp(f)' = GivenUp(f)
    BY <1>t, <1>1, <2>1, <2>2 DEF Shown, GivenUp
  <2>4. /\ Entries' = [Entries EXCEPT ![f] = Shown(f)']
        /\ Waivers' = [Waivers EXCEPT ![f] = GivenUp(f)']
    BY <1>t, <2>1, SeenInOne
  <2>5. QED
    BY <1>t, <2>3, <2>4 DEF Entries, Waivers
<1>4. QED
  BY <1>2, <1>3

\* A message is left out: seen when the run works under the recorded validity.
LEMMA CollectIsSeen ==
  ASSUME CacheInv, NEW f \in Synced, SyncCollect(f)
  PROVE  [Cache!CacheNext]_(Cache!cacheVars)
<1>t. /\ f \in Folders /\ forgone \in [Folders -> SUBSET Uids] /\ sync[f] \in SyncRun
  BY FolderTyped DEF CacheInv, TypeInv, TypeOK, SyncTypeOK
<1>1. UNCHANGED <<serverVars, dbVars>>
  BY DEF SyncCollect
<1>2. CASE UNCHANGED forgone
  BY <1>1, <1>2, Unseen DEF serverVars, dbVars, Cache!cacheVars, Cache!serverVars, Entries, Waivers
<1>3. ASSUME NEW u \in Uids, forgone' = [forgone EXCEPT ![f] = @ \cup {u}]
      PROVE  [Cache!CacheNext]_(Cache!cacheVars)
  <2>1. /\ Entries' = [Entries EXCEPT ![f] = Shown(f)']
        /\ Waivers' = [Waivers EXCEPT ![f] = GivenUp(f)']
    BY <1>t, <1>1, <1>3, SeenInOne DEF serverVars, dbVars
  <2>2. Entries' = Entries
    BY <1>1, <2>1 DEF serverVars, dbVars, Shown, Recorded, Entries
  <2>3. CASE Recorded(f)
    <3>1. Waivers' = [Waivers EXCEPT ![f] = @ \cup {u}]
      BY <1>t, <1>1, <1>3, <2>1, <2>3 DEF serverVars, dbVars, Recorded, GivenUp, Waivers
    <3>2. Cache!Waive(f, u)
      BY <1>1, <2>2, <3>1 DEF Cache!Waive, Cache!serverVars, serverVars, Entries, Waivers
    <3>3. QED
      BY <1>t, <3>2 DEF Cache!CacheNext, Uids, Cache!Uids
  <2>4. CASE ~ Recorded(f)
    <3>1. Waivers' = Waivers
      BY <1>t, <1>1, <2>1, <2>4 DEF serverVars, dbVars, Recorded, GivenUp, Waivers
    <3>2. QED
      BY <1>1, <2>2, <3>1
      DEF serverVars, Cache!cacheVars, Cache!serverVars, Entries, Waivers
  <2>5. QED
    BY <2>3, <2>4
<1>4. NextOf(sync[f]) \in Uids
  <2>1. sync[f].stream \in SUBSET Uids /\ sync[f].stream # {}
    BY <1>t DEF SyncCollect, SyncRun
  <2>2. QED
    BY <2>1, LowestExists DEF NextOf
<1>5. UNCHANGED forgone \/ forgone' = [forgone EXCEPT ![f] = @ \cup {NextOf(sync[f])}]
  BY DEF SyncCollect
<1>6. QED
  BY <1>2, <1>3, <1>4, <1>5

\* An import under the recorded validity takes up the new messages of the batch,
\* and leaves none below them behind; under another validity it is not seen.
LEMMA FlushIsLoad ==
  ASSUME CacheInv, NEW f \in Synced, SyncFlush(f)
  PROVE  [Cache!CacheNext]_(Cache!cacheVars)
<1> DEFINE us == sync[f].batch \ sync[f].bare
           new == NewRows(f, us)
<1>t. /\ f \in Folders /\ sync[f] \in SyncRun /\ FolderInv(f) /\ UidsGiven(f)
      /\ entries \in [Folders -> [Uids -> MsgOrNone]]
      /\ mbox[f] \in SUBSET Uids /\ us \in SUBSET Uids
      /\ \A x \in Uids : x \in Nat
  BY FolderTyped, UidsAreNumbers
  DEF CacheInv, TypeInv, TypeOK, DBTypeOK, SyncInv, ServerInv, SyncRun
<1>1. /\ UNCHANGED <<serverVars, storedVal, forgone>> /\ sync[f].pc = "collect"
      /\ InsertRows(f, us, minted[f][sync[f].val])
  BY DEF SyncFlush, ImportMessageBatch
<1>2. /\ Entries' = [Entries EXCEPT ![f] = Shown(f)']
      /\ Waivers' = [Waivers EXCEPT ![f] = GivenUp(f)']
  BY <1>t, <1>1, SeenInOne DEF serverVars, InsertRows
<1>3. UNCHANGED Waivers
  BY <1>t, <1>1, <1>2 DEF serverVars, Waivers, GivenUp, Recorded
<1>4. CASE ~ Recorded(f)
  <2>1. UNCHANGED Entries
    BY <1>t, <1>1, <1>2, <1>4 DEF serverVars, Entries, Shown, Recorded
  <2>2. QED
    BY <1>1, <1>3, <2>1 DEF serverVars, Cache!cacheVars, Cache!serverVars, Entries, Waivers
<1>5. CASE Recorded(f)
  <2>1. sync[f].val = validity[f]
    BY <1>t, <1>1, <1>5, StaleRun DEF CacheInv
  <2>2. entries'[f] = [u \in Uids |-> IF u \in new THEN MessageAt(f, u) ELSE entries[f][u]]
    BY <1>t, <1>1, <2>1 DEF InsertRows, MessageAt
  <2>3. Entries' = [Entries EXCEPT ![f] =
                      [u \in Uids |-> IF u \in new THEN MessageAt(f, u) ELSE @[u]]]
    BY <1>t, <1>1, <1>2, <1>5, <2>2 DEF serverVars, Entries, Shown, Recorded
  <2>4. new \subseteq us /\ new \in SUBSET Uids
    BY <1>t DEF NewRows
  <2>5. \A x \in us : MessageAt(f, x) # Absent
    BY <1>t, <1>1, <2>1 DEF FolderInv, StreamInOrder, Held, UidsGiven
  <2>6. ASSUME NEW x \in us, NEW u \in mbox[f], u < x
        PROVE  entries'[f][u] # Absent \/ u \in forgone[f]
    <3>1. /\ \A b \in sync[f].batch, s \in sync[f].stream : b < s
          /\ sync[f].bare \subseteq forgone[f]
          /\ Known(f, u) \/ u \in Held(f)
      BY <1>t, <1>1, <2>1, <2>6 DEF FolderInv, StreamInOrder, Held
    <3>2. u \notin sync[f].stream
      BY <1>t, <2>6, <3>1
    <3>3. CASE u \in us
      BY <1>t, <2>2, <2>5, <3>3 DEF NewRows
    <3>4. CASE Known(f, u)
      BY <1>t, <2>2, <2>4, <2>5, <3>4 DEF Known
    <3>5. QED
      BY <3>1, <3>2, <3>3, <3>4 DEF Held
  <2>7. Cache!Load(f, new)
    <3>1. \A x \in new : Cache!MessageAt(f, x) # Absent
      BY <2>4, <2>5 DEF MessageAt, Cache!MessageAt
    <3>2. Entries'[f] = entries'[f] /\ Waivers[f] = forgone[f]
      BY <1>t, <1>1, <1>5, <1>2 DEF Entries, Waivers, Shown, GivenUp, Recorded, serverVars
    <3>3. \A x \in new, u \in mbox[f] : u < x => Entries'[f][u] # Absent \/ u \in Waivers[f]
      BY <2>4, <2>6, <3>2
    <3>4. QED
      BY <1>1, <1>3, <2>3, <3>1, <3>3
      DEF Cache!Load, Cache!serverVars, serverVars, Entries, Waivers, Uids, Cache!Uids,
          MessageAt, Cache!MessageAt
  <2>8. QED
    BY <1>t, <2>4, <2>7 DEF Cache!CacheNext, Uids, Cache!Uids
<1>6. QED
  BY <1>4, <1>5

\* The validity is recorded over none, or over itself.
LEMMA FinishIsUnseen ==
  ASSUME CacheInv, NEW f \in Synced, SyncFinish(f)
  PROVE  UNCHANGED <<Entries, Waivers>>
<1>t. /\ f \in Folders /\ storedVal \in [Folders -> 0..MaxValidity] /\ FolderInv(f)
      /\ storedVal[f] \in Nat /\ validity[f] \in Nat /\ sync[f].val \in Nat
      /\ sync[f].pc # "idle" => sync[f].val # 0
  BY FolderTyped DEF CacheInv, TypeInv, TypeOK, DBTypeOK, SyncInv
<1>1. UNCHANGED <<serverVars, forgone, entries>> /\ sync[f].pc = "finish"
  BY DEF SyncFinish, PersistUIDValidity, dbVars
<1>2. storedVal' = storedVal \/ storedVal' = [storedVal EXCEPT ![f] = sync[f].val]
  BY DEF SyncFinish, PersistUIDValidity, dbVars
<1>3. /\ storedVal[f] \in {0, sync[f].val} /\ sync[f].val <= validity[f]
      /\ storedVal[f] = 0 => validity[f] = 1
  BY <1>t, <1>1 DEF FolderInv, PurgeWhenStale, ValiditiesInOrder
<1>4. Recorded(f)' = Recorded(f)
  BY <1>t, <1>1, <1>2, <1>3 DEF Recorded, serverVars
<1>5. Shown(f)' = Shown(f) /\ GivenUp(f)' = GivenUp(f)
  BY <1>1, <1>4 DEF Shown, GivenUp
<1>6. /\ Entries' = [Entries EXCEPT ![f] = Shown(f)']
      /\ Waivers' = [Waivers EXCEPT ![f] = GivenUp(f)']
  BY <1>t, <1>1, <1>2, SeenInOne DEF serverVars
<1>7. QED
  BY <1>t, <1>5, <1>6 DEF Entries, Waivers

\* The last DELETE of a call takes a row whose message is gone or given up.
LEMMA LastDeleteIsDrop ==
  ASSUME CacheInv, NEW d \in Deleters, LastDelete(d), UNCHANGED serverVars
  PROVE  [Cache!CacheNext]_(Cache!cacheVars)
<1>1. PICK f \in Folders, u \in Uids :
        /\ entries' = [entries EXCEPT ![f][u] = Absent]
        /\ forgone' = [forgone EXCEPT ![f] = IF u \in mbox[f] /\ entries[f][u] # Absent
                                               THEN @ \cup {u} ELSE @]
  BY DEF LastDelete, DeleteEntry, CacheInv, TypeInv, TypeOK, DeleteTypeOK, DeleteCall
<1>t. /\ entries \in [Folders -> [Uids -> MsgOrNone]]
      /\ forgone \in [Folders -> SUBSET Uids]
      /\ UNCHANGED <<validity, storedVal>>
  BY DEF CacheInv, TypeInv, TypeOK, DBTypeOK, SyncTypeOK, LastDelete, DeleteEntry, serverVars
<1>2. /\ \A g \in Folders \ {f} : entries'[g] = entries[g] /\ forgone'[g] = forgone[g]
      /\ entries'[f] = [entries[f] EXCEPT ![u] = Absent]
      /\ forgone'[f] = IF u \in mbox[f] /\ entries[f][u] # Absent
                         THEN forgone[f] \cup {u} ELSE forgone[f]
      /\ entries[f] \in [Uids -> MsgOrNone]
  BY <1>1, <1>t
<1>3. /\ Entries' = [Entries EXCEPT ![f] = Shown(f)']
      /\ Waivers' = [Waivers EXCEPT ![f] = GivenUp(f)']
  BY <1>t, <1>2, SeenInOne
<1>4. CASE ~ Recorded(f) \/ entries[f][u] = Absent
  <2>1. Shown(f)' = Shown(f) /\ GivenUp(f)' = GivenUp(f)
    <3>1. Recorded(f)' = Recorded(f)
      BY <1>t DEF Recorded
    <3>2. entries[f][u] = Absent => entries'[f] = entries[f] /\ forgone'[f] = forgone[f]
      BY <1>2
    <3>3. QED
      BY <1>4, <3>1, <3>2 DEF Shown, GivenUp
  <2>2. UNCHANGED <<Entries, Waivers>>
    BY <1>3, <2>1 DEF Entries, Waivers
  <2>3. QED
    BY <2>2 DEF serverVars, Cache!cacheVars, Cache!serverVars, Entries, Waivers
<1>5. CASE Recorded(f) /\ entries[f][u] # Absent
  <2>1. Recorded(f)'
    BY <1>t, <1>5 DEF Recorded
  <2>2. Shown(f)' = [Shown(f) EXCEPT ![u] = Absent]
    BY <1>2, <1>5, <2>1 DEF Shown
  <2>3. GivenUp(f)' = IF u \in mbox[f] THEN GivenUp(f) \cup {u} ELSE GivenUp(f)
    BY <1>2, <1>5, <2>1 DEF GivenUp
  <2>4. /\ Entries' = [Entries EXCEPT ![f][u] = Absent]
        /\ Waivers' = IF u \in mbox[f] THEN [Waivers EXCEPT ![f] = @ \cup {u}] ELSE Waivers
        /\ u \in mbox[f] => u \in Waivers'[f]
    BY <1>3, <2>2, <2>3 DEF Entries, Waivers
  <2>5. Cache!Drop(f, u)
    BY <2>4 DEF Cache!Drop, Cache!serverVars, serverVars, Entries, Waivers
  <2>6. QED
    BY <2>5 DEF Cache!CacheNext, Uids, Cache!Uids
<1>6. QED
  BY <1>4, <1>5

-----------------------------------------------------------------------------
LEMMA StepOfCache ==
  ASSUME ~ RenumberUnrecorded, CacheInv, [Next]_vars
  PROVE  [Cache!CacheNext]_(Cache!cacheVars)
<1>1. CacheInv'
  BY CacheInvKept
<1>2. ASSUME UNCHANGED <<serverVars, Entries, Waivers>>
      PROVE  [Cache!CacheNext]_(Cache!cacheVars)
  BY <1>2 DEF serverVars, Cache!cacheVars, Cache!serverVars, Entries, Waivers
<1>3. ASSUME UNCHANGED <<serverVars, storedVal, entries, forgone>>
      PROVE  [Cache!CacheNext]_(Cache!cacheVars)
  BY <1>2, <1>3, Unseen DEF serverVars
<1>4. ASSUME ServerStep
      PROVE  Cache!CacheNext
  <2>1. UNCHANGED <<dbVars, forgone>>
    BY <1>4 DEF ServerStep, syncVars
  <2>2. ASSUME NEW f \in Folders, Renumber(f), storedVal[f] # 0
        PROVE  Cache!CacheNext
    BY <1>1, <2>1, <2>2, RenumberStartsOver DEF Cache!CacheNext
  <2>3. CASE \E f \in Folders : \/ \E m \in Msgs : Deliver(f, m)
                               \/ \E u \in Uids : Expunge(f, u)
    BY <2>1, <2>3, ServerIsLive DEF Cache!CacheNext
  <2>4. QED
    BY <1>4, <2>2, <2>3 DEF ServerStep
<1>5. ASSUME NEW f \in Synced, SyncStep(f) \/ SyncBreak(f) \/ SyncAbort(f)
      PROVE  [Cache!CacheNext]_(Cache!cacheVars)
  <2>1. CASE SyncBegin(f) \/ SyncFetch(f) \/ SyncStreamEnd(f) \/ SyncBreak(f) \/ SyncAbort(f)
    BY <1>3, <2>1
    DEF SyncBegin, SyncFetch, SyncStreamEnd, SyncBreak, SyncAbort, dbVars
  <2>2. CASE SyncPurge(f) \/ SyncReset(f)
    BY <1>2, <2>2, PurgeIsUnseen DEF SyncPurge, SyncReset
  <2>3. CASE SyncFinish(f)
    BY <1>2, <2>3, FinishIsUnseen DEF SyncFinish
  <2>4. QED
    BY <1>5, <2>1, <2>2, <2>3, CollectIsSeen, FlushIsLoad DEF SyncStep
<1>6. ASSUME NEW d \in Deleters, DeleteStep(d)
      PROVE  [Cache!CacheNext]_(Cache!cacheVars)
  <2>1. CASE DeleteMove(d)
    <3>1. /\ MoveMessage(del[d].folder, del[d].uid, Trash) /\ UNCHANGED <<dbVars, forgone>>
          /\ Trash \in Folders /\ del[d].folder \in Folders /\ del[d].uid \in Uids
      BY <2>1 DEF UidSet, DeleteMove, CacheInv, TypeInv, TypeOK, MoversHaveTrash, DeleteTypeOK, DeleteCall
    <3>2. QED
      BY <3>1, ServerIsLive DEF Cache!CacheNext
  <2>2. CASE DeleteRows(d) /\ LastDelete(d)
    BY <2>2, LastDeleteIsDrop DEF DeleteRows
  <2>3. CASE ~ DeleteMove(d) /\ ~ LastDelete(d)
    <3>1. UNCHANGED <<serverVars, storedVal, entries, forgone>>
      BY <1>6, <2>3
      DEF DeleteStep, DeleteLookup, DeleteRefused, UidSet, DeleteMoveNothing, DeleteMoveFailed,
          DeleteRows, DeleteRowsFailed, FirstDelete, SecondDelete, DeleteFts, DeleteContent,
          dbVars, syncVars
    <3>2. QED
      BY <1>3, <3>1
  <2>4. CASE ~ DeleteMove(d) /\ ~ DeleteRows(d)
    <3>1. UNCHANGED <<serverVars, storedVal, entries, forgone>>
      BY <1>6, <2>4
      DEF DeleteStep, DeleteLookup, DeleteRefused, UidSet, DeleteMoveNothing, DeleteMoveFailed,
          DeleteRowsFailed, dbVars, syncVars
    <3>2. QED
      BY <1>3, <3>1
  <2>5. QED
    BY <2>1, <2>2, <2>3, <2>4
<1>7. CASE Crash \/ UNCHANGED vars
  BY <1>3, <1>7 DEF Crash, vars, dbVars, syncVars
<1>8. QED
  BY <1>4, <1>5, <1>6, <1>7 DEF Next

\* Seen through the recorded validity the database is a cache that forgets a
\* folder in the step in which it is renumbered, and takes up its messages
\* without leaving one behind (SyncFolder, checkAndResetUIDValidity,
\* importMessageBatch, handleDeleteMail).
THEOREM ShadowImplementsCache ==
  ASSUME ~ RenumberUnrecorded
  PROVE  Spec => ShadowIsCache
<1>1. Init => Cache!CacheInit
  <2> SUFFICES ASSUME Init PROVE Cache!CacheInit
    OBVIOUS
  <2>1. Cache!ServerInit
    BY DEF Init, ServerInit, Cache!ServerInit, Uids, Cache!Uids, Validities, Cache!Validities
  <2>2. /\ \A f \in Folders : Shown(f) = [u \in Uids |-> Absent]
        /\ \A f \in Folders : GivenUp(f) = {}
    BY DEF Init, DBInit, SyncInit, Shown, GivenUp
  <2>3. QED
    BY <2>1, <2>2 DEF Cache!CacheInit, Cache!Empty, Uids, Cache!Uids
<1>2. CacheInv /\ [Next]_vars => [Cache!CacheNext]_(Cache!cacheVars)
  BY StepOfCache
<1>3. QED
  BY <1>1, <1>2, CacheInvInit, CacheInvKept, PTL DEF Spec, ShadowIsCache, Cache!CacheSpec
-----------------------------------------------------------------------------
(* The runs: what SyncFolder promises to those who start it.               *)

\* What the cache knows of a message that stays, it keeps: a step takes away
\* only what has left the folder.
LEMMA CacheKeeps ==
  ASSUME TypeInv, [Cache!CacheNext]_(Cache!cacheVars), NEW f \in Folders, NEW u \in Uids,
         validity'[f] = validity[f], u \in mbox'[f],
         Shown(f)[u] # Absent \/ u \in GivenUp(f)
  PROVE  (Shown(f)[u] # Absent \/ u \in GivenUp(f))'
<1>t. /\ Entries[f] = Shown(f) /\ Entries'[f] = Shown(f)'
      /\ Waivers[f] = GivenUp(f) /\ Waivers'[f] = GivenUp(f)'
      /\ DOMAIN Entries = Folders /\ DOMAIN Waivers = Folders
  BY DEF Entries, Waivers
<1>d. Shown(f) \in [Uids -> MsgOrNone]
  BY DEF Shown, TypeInv, TypeOK, DBTypeOK, MsgOrNone
<1> SUFFICES Entries'[f][u] # Absent \/ u \in Waivers'[f]
  BY <1>t
<1>h. Entries[f][u] # Absent \/ u \in Waivers[f]
  BY <1>t
<1> HIDE DEF Entries, Waivers
<1>1. CASE Cache!Live \/ UNCHANGED Cache!cacheVars
  BY <1>1, <1>h DEF Cache!Live, Cache!cacheVars, Entries, Waivers
<1>2. ASSUME NEW g \in Folders, Cache!StartOver(g)
      PROVE  Entries'[f][u] # Absent \/ u \in Waivers'[f]
  <2>1. g # f
    <3>1. validity \in [Folders -> Nat]
      BY BoundsAreNumbers DEF TypeInv, TypeOK, ServerTypeOK, Validities
    <3>2. validity' = [validity EXCEPT ![g] = @ + 1]
      BY <1>2 DEF Cache!StartOver, Cache!Renumber
    <3>3. QED
      BY <3>1, <3>2
  <2>2. Entries' = [Entries EXCEPT ![g] = Cache!Empty] /\ Waivers' = [Waivers EXCEPT ![g] = {}]
    BY <1>2 DEF Cache!StartOver, Entries, Waivers
  <2>3. QED
    BY <1>h, <2>1, <2>2
<1>3. ASSUME NEW g \in Folders, NEW us \in SUBSET Uids, Cache!Load(g, us)
      PROVE  Entries'[f][u] # Absent \/ u \in Waivers'[f]
  <2>1. /\ Waivers' = Waivers
        /\ \A x \in us : Cache!MessageAt(g, x) # Absent
        /\ Entries' = [Entries EXCEPT ![g] =
                         [x \in Uids |-> IF x \in us THEN Cache!MessageAt(g, x) ELSE @[x]]]
    BY <1>3 DEF Cache!Load, Entries, Waivers, Uids, Cache!Uids
  <2>2. QED
    BY <1>t, <1>h, <2>1
<1>4. ASSUME NEW g \in Folders, NEW w \in Uids, Cache!Waive(g, w)
      PROVE  Entries'[f][u] # Absent \/ u \in Waivers'[f]
  <2>1. Entries' = Entries /\ Waivers' = [Waivers EXCEPT ![g] = @ \cup {w}]
    BY <1>4 DEF Cache!Waive, Entries, Waivers
  <2>2. QED
    BY <1>t, <1>h, <2>1
<1>5. ASSUME NEW g \in Folders, NEW w \in Uids, Cache!Drop(g, w)
      PROVE  Entries'[f][u] # Absent \/ u \in Waivers'[f]
  <2>1. /\ Entries' = [Entries EXCEPT ![g][w] = Absent]
        /\ Waivers' \in {Waivers, [Waivers EXCEPT ![g] = @ \cup {w}]}
        /\ w \in mbox[g] => w \in Waivers'[g]
        /\ mbox' = mbox
    BY <1>5 DEF Cache!Drop, Cache!serverVars, Entries, Waivers
  <2>2. CASE g = f /\ w = u
    BY <2>1, <2>2
  <2>3. CASE g # f \/ w # u
    <3>1. Entries'[f][u] = Entries[f][u]
      BY <1>t, <1>d, <2>1, <2>3
    <3>2. u \in Waivers[f] => u \in Waivers'[f]
      BY <1>t, <2>1
    <3>3. QED
      BY <1>h, <3>1, <3>2
  <2>4. QED
    BY <2>2, <2>3
<1>6. QED
  BY <1>1, <1>2, <1>3, <1>4, <1>5 DEF Cache!CacheNext, Uids, Cache!Uids

\* What the program knows of a folder whose validity is the recorded one.
LEMMA KnownIsSeen ==
  ASSUME NEW f \in Folders, NEW u \in Uids
  PROVE  Recorded(f) /\ Known(f, u) <=> Shown(f)[u] # Absent \/ u \in GivenUp(f)
BY DEF Shown, GivenUp, Known

LEMMA KnownStays ==
  ASSUME ~ RenumberUnrecorded, CacheInv, [Next]_vars, NEW f \in Folders,
         validity'[f] = validity[f], NEW u \in Uids, u \in mbox'[f], Recorded(f), Known(f, u)
  PROVE  Recorded(f)' /\ Known(f, u)'
<1>1. Shown(f)[u] # Absent \/ u \in GivenUp(f)
  BY KnownIsSeen
<1>2. (Shown(f)[u] # Absent \/ u \in GivenUp(f))'
  BY <1>1, StepOfCache, CacheKeeps DEF CacheInv
<1>3. (Shown(f)[u] # Absent \/ u \in GivenUp(f))' => Recorded(f)' /\ Known(f, u)'
  BY DEF Shown, GivenUp, Known
<1>4. QED
  BY <1>2, <1>3

\* ... and as the contract says it.
LEMMA HadStays ==
  ASSUME ~ RenumberUnrecorded, CacheInv, [Next]_vars, NEW f \in Synced
  PROVE  Had(f) \cap There(f)' \subseteq Had(f)'
<1> SUFFICES ASSUME NEW x \in Had(f), x \in There(f)' PROVE x \in Had(f)'
  OBVIOUS
<1>1. f \in Folders /\ Recorded(f)
  BY SyncedAssumption DEF Had
<1>2. PICK u \in Uids : x = <<validity[f], u>> /\ Known(f, u)
  BY <1>1 DEF Had, Under
<1>3. PICK w \in mbox'[f] : x = <<validity'[f], w>>
  BY DEF There, Under
<1>4. validity'[f] = validity[f] /\ u \in mbox'[f]
  BY <1>2, <1>3
<1>5. Recorded(f)' /\ Known(f, u)'
  BY <1>1, <1>2, <1>4, KnownStays
<1>6. QED
  BY <1>2, <1>4, <1>5 DEF Had, Under

\* A run moves by its own steps, or is lost with the process.
LEMMA RunMoves ==
  ASSUME TypeInv, [Next]_vars, NEW f \in Synced, sync'[f] # sync[f]
  PROVE  SyncStep(f) \/ SyncBreak(f) \/ SyncAbort(f) \/ Crash
<1>1. CASE ServerStep \/ UNCHANGED vars
  BY <1>1 DEF ServerStep, vars, syncVars
<1>2. ASSUME NEW g \in Synced, SyncStep(g) \/ SyncBreak(g) \/ SyncAbort(g), g # f
      PROVE  FALSE
  BY <1>2, OthersKeep
<1>3. ASSUME NEW d \in Deleters, DeleteStep(d)
      PROVE  FALSE
  BY <1>3
  DEF DeleteStep, DeleteLookup, DeleteRefused, UidSet, DeleteMove, DeleteMoveNothing,
      DeleteMoveFailed, DeleteRows, DeleteRowsFailed, FirstDelete, SecondDelete, LastDelete, syncVars
<1>4. QED
  BY <1>1, <1>2, <1>3 DEF Next

\* What a step of the run does to its place and to the validity it works under.
LEMMA RunGoesOn ==
  ASSUME TypeInv, NEW f \in Synced, SyncStep(f) \/ SyncBreak(f) \/ SyncAbort(f) \/ Crash
  PROVE  /\ sync[f].pc = "idle" /\ sync'[f].pc # "idle" =>
              /\ SyncBegin(f) /\ sync'[f].pc \in {"purge", "fetch"}
              /\ sync'[f].val = validity[f]
              /\ sync'[f].empty = (mbox[f] = {})
              /\ sync'[f].pc = "fetch" => mbox[f] # {}
         /\ sync[f].pc # "idle" /\ sync'[f].pc # "idle" => /\ sync'[f].val = sync[f].val
                                                           /\ sync'[f].empty = sync[f].empty
         /\ sync'[f].pc = "reset" => sync[f].pc = "purge"
         /\ sync'[f].pc = "purge" => sync[f].pc = "idle"
         /\ sync'[f].pc = "collect" => \/ sync[f].pc = "fetch" /\ SyncFetch(f)
                                       \/ sync[f].pc = "collect"
                                          /\ (SyncCollect(f) \/ SyncFlush(f) \/ SyncBreak(f))
         /\ sync'[f].pc = "finish" => /\ SyncStreamEnd(f) /\ sync[f].pc = "collect"
                                      /\ sync'[f] = [sync[f] EXCEPT !.pc = "finish"]
<1>t. sync \in [Folders -> SyncRun] /\ f \in Folders /\ sync[f] \in SyncRun
  BY SyncedAssumption DEF TypeInv, TypeOK, SyncTypeOK
<1>n. NoRun.pc = "idle"
  BY DEF NoRun
<1>1. CASE SyncBegin(f)
  BY <1>t, <1>n, <1>1 DEF SyncBegin, AfterCheck, NoRun
<1>2. CASE SyncPurge(f)
  BY <1>t, <1>2 DEF SyncPurge, SyncRun
<1>3. CASE SyncReset(f)
  BY <1>t, <1>n, <1>3 DEF SyncReset, AfterCheck, SyncRun
<1>4. CASE SyncFetch(f)
  BY <1>t, <1>n, <1>4 DEF SyncFetch, SyncRun
<1>5. CASE SyncCollect(f)
  <2>1. /\ sync[f].pc = "collect"
        /\ \E r \in {Collected(sync[f], NextOf(sync[f])), CollectSkipped(sync[f], NextOf(sync[f])),
                     CollectedBare(sync[f], NextOf(sync[f]))} : sync' = [sync EXCEPT ![f] = r]
    BY <1>5 DEF SyncCollect
  <2>2. \A u : \A r \in {Collected(sync[f], u), CollectSkipped(sync[f], u), CollectedBare(sync[f], u)} :
          r.pc = sync[f].pc /\ r.val = sync[f].val /\ r.empty = sync[f].empty
    BY <1>t DEF Collected, CollectSkipped, CollectedBare, SyncRun
  <2>3. sync'[f].pc = "collect" /\ sync'[f].val = sync[f].val /\ sync'[f].empty = sync[f].empty
    BY <1>t, <2>1, <2>2
  <2>4. QED
    BY <1>5, <2>1, <2>3
<1>6. CASE SyncFlush(f)
  BY <1>t, <1>6 DEF SyncFlush, Flushed, SyncRun
<1>7. CASE SyncStreamEnd(f)
  BY <1>t, <1>n, <1>7 DEF SyncStreamEnd, SyncRun
<1>8. CASE SyncFinish(f)
  BY <1>t, <1>n, <1>8 DEF SyncFinish
<1>9. CASE SyncBreak(f)
  BY <1>t, <1>9 DEF SyncBreak, SyncRun
<1>10. CASE SyncAbort(f)
  BY <1>t, <1>n, <1>10 DEF SyncAbort
<1>11. CASE Crash
  BY <1>t, <1>n, <1>11 DEF Crash, SyncLost
<1>12. QED
  BY <1>1, <1>2, <1>3, <1>4, <1>5, <1>6, <1>7, <1>8, <1>9, <1>10, <1>11 DEF SyncStep

\* A folder's validity goes up, if it changes.
LEMMA ValidityGrows ==
  ASSUME TypeInv, [Next]_vars, NEW f \in Folders
  PROVE  validity'[f] \in Nat /\ validity[f] <= validity'[f]
<1>t. validity \in [Folders -> Nat]
  BY BoundsAreNumbers DEF TypeInv, TypeOK, ServerTypeOK, Validities
<1>1. \/ UNCHANGED validity
      \/ \E g \in Folders : validity' = [validity EXCEPT ![g] = @ + 1]
  BY DEF Next, vars, serverVars, ServerStep, Deliver, Expunge, Renumber, Crash, SyncStep,
     SyncBegin, SyncPurge, SyncReset, SyncFetch, SyncCollect, SyncFlush, SyncStreamEnd,
     SyncFinish, SyncBreak, SyncAbort, DeleteStep, DeleteLookup, DeleteRefused, UidSet,
     DeleteMove, MoveMessage, DeleteMoveNothing, DeleteMoveFailed, DeleteRows, DeleteRowsFailed
<1>2. QED
  BY <1>t, <1>1

\* An import makes its whole batch known.
LEMMA FlushKnows ==
  ASSUME CacheInv, NEW f \in Synced, SyncFlush(f), sync[f].val = validity[f],
         NEW u \in sync[f].batch
  PROVE  Known(f, u)'
<1> DEFINE us == sync[f].batch \ sync[f].bare
<1>t. /\ f \in Folders /\ sync[f] \in SyncRun /\ FolderInv(f) /\ UidsGiven(f)
      /\ entries \in [Folders -> [Uids -> MsgOrNone]]
      /\ sync[f].batch \in SUBSET Uids
  BY FolderTyped
  DEF CacheInv, TypeInv, TypeOK, DBTypeOK, SyncInv, ServerInv, SyncRun
<1>1. /\ UNCHANGED <<serverVars, storedVal, forgone>> /\ sync[f].pc = "collect"
      /\ InsertRows(f, us, minted[f][sync[f].val])
  BY DEF SyncFlush, ImportMessageBatch
<1>2. sync[f].bare \subseteq forgone[f] /\ u < uidNext[f] /\ u \in Uids
  BY <1>t, <1>1 DEF FolderInv, StreamInOrder, Held
<1>3. CASE u \in sync[f].bare
  BY <1>1, <1>2, <1>3 DEF Known
<1>4. CASE u \in us
  <2>1. minted[f][sync[f].val][u] # Absent
    BY <1>t, <1>2 DEF UidsGiven, MessageAt
  <2>2. entries'[f][u] = IF entries[f][u] = Absent THEN minted[f][sync[f].val][u]
                                                  ELSE entries[f][u]
    BY <1>t, <1>1, <1>2, <1>4 DEF InsertRows, NewRows
  <2>3. QED
    BY <2>1, <2>2 DEF Known
<1>5. QED
  BY <1>3, <1>4

\* What a run has is only as good as what CacheInv says of the database.
RunsHave == CacheInv /\ RunsInv

LEMMA RunsInvInit == HistoryInit => RunsHave
<1> SUFFICES ASSUME HistoryInit PROVE RunsHave
  OBVIOUS
<1>1. CacheInv
  BY CacheInvInit DEF HistoryInit
<1>2. \A f \in Synced : sync[f].pc = "idle"
  BY SyncedAssumption DEF HistoryInit, Init, SyncInit, NoRun
<1>3. RunsInv
  BY <1>2 DEF HistoryInit, RunsInv, UndertakenIsHad
<1>4. QED
  BY <1>1, <1>3 DEF RunsHave

\* What a run began for was given, as long as its folder keeps the numbering.
LEMMA UndertakenGiven ==
  ASSUME ~ RenumberUnrecorded, CacheInv, RunsInv, HistoryNext, NEW f \in Synced,
         sync'[f].pc # "idle", sync'[f].val = validity'[f], NEW u \in undertaken'[f]
  PROVE  u \in Uids /\ u < uidNext'[f]
<1>t. /\ f \in Folders /\ mbox[f] \in SUBSET Uids /\ uidNext[f] \in Nat
      /\ validity[f] \in Nat /\ UidsGiven(f) /\ FolderInv(f) /\ TypeInv /\ ServerInv
      /\ undertaken[f] \in SUBSET Uids
  BY FolderTyped, SyncedAssumption DEF CacheInv, SyncInv, ServerInv, RunsInv
<1>u. undertaken'[f] = IF sync[f].pc = "idle" THEN mbox[f]
                       ELSE IF SyncBreak(f) THEN {} ELSE undertaken[f]
  BY <1>t DEF HistoryNext, Undertake
<1>1. CASE sync[f].pc = "idle"
  <2>1. SyncBegin(f)
    BY <1>t, <1>1, RunMoves, RunGoesOn DEF HistoryNext
  <2>2. u \in mbox[f] /\ uidNext'[f] = uidNext[f]
    BY <1>u, <1>1, <2>1 DEF SyncBegin, serverVars
  <2>3. QED
    BY <1>t, <2>2 DEF UidsGiven
<1>2. CASE sync[f].pc # "idle"
  <2>1. u \in undertaken[f] /\ sync'[f].val = sync[f].val
    BY <1>t, <1>u, <1>2, RunMoves, RunGoesOn DEF HistoryNext
  <2>2. validity'[f] = validity[f] /\ sync[f].val = validity[f]
    <3>1. validity'[f] \in Nat /\ validity[f] <= validity'[f]
      BY <1>t, ValidityGrows DEF HistoryNext
    <3>2. sync[f].val <= validity[f]
      BY <1>t, <1>2 DEF FolderInv, ValiditiesInOrder
    <3>3. QED
      BY <1>t, <2>1, <3>1, <3>2
  <2>3. u \in Uids /\ u < uidNext[f]
    BY <1>t, <1>2, <2>1, <2>2 DEF RunsInv
  <2>4. QED
    BY <1>t, <2>2, <2>3, GivenWasThere DEF HistoryNext
<1>3. QED
  BY <1>1, <1>2

\* What a run began for it has, or still has in its hands, step by step.
LEMMA UndertakenIsHadKept ==
  ASSUME ~ RenumberUnrecorded, CacheInv, RunsInv, HistoryNext, NEW f \in Synced
  PROVE  UndertakenIsHad(f)'
<1> SUFFICES ASSUME sync'[f].pc \in {"collect", "finish"}, sync'[f].val = validity'[f],
                    NEW u \in undertaken'[f], u \in mbox'[f]
             PROVE  Known(f, u)' \/ u \in Held(f)'
  BY DEF UndertakenIsHad
<1>t. /\ f \in Folders /\ mbox[f] \in SUBSET Uids /\ uidNext[f] \in Nat
      /\ validity[f] \in Nat /\ UidsGiven(f) /\ FolderInv(f) /\ TypeInv /\ ServerInv
      /\ sync[f] \in SyncRun /\ sync \in [Folders -> SyncRun] /\ \A w \in Uids : w \in Nat
      /\ forgone \in [Folders -> SUBSET Uids] /\ lastUid[f] \in Nat
  BY FolderTyped, SyncedAssumption, UidsAreNumbers, BoundsAreNumbers
  DEF CacheInv, SyncInv, ServerInv, TypeInv, TypeOK, SyncTypeOK, DBTypeOK
<1>m. sync'[f] = sync[f] \/ SyncStep(f) \/ SyncBreak(f) \/ SyncAbort(f) \/ Crash
  BY <1>t, RunMoves DEF HistoryNext
<1>p. /\ sync[f].pc \in {"fetch", "collect", "finish"}
      /\ sync'[f].val = sync[f].val
  BY <1>t, <1>m, RunGoesOn
<1>u. ~ SyncBreak(f) /\ u \in undertaken[f] /\ u \in Uids
  <2>1. undertaken'[f] = IF SyncBreak(f) THEN {} ELSE undertaken[f]
    BY <1>t, <1>p DEF HistoryNext, Undertake
  <2>2. QED
    BY <1>t, <2>1 DEF RunsInv
<1>v. validity'[f] = validity[f] /\ sync[f].val = validity[f]
  <2>1. validity'[f] \in Nat /\ validity[f] <= validity'[f]
    BY <1>t, ValidityGrows DEF HistoryNext
  <2>2. sync[f].val <= validity[f]
    BY <1>t, <1>p DEF FolderInv, ValiditiesInOrder
  <2>3. QED
    BY <1>t, <1>p, <2>1, <2>2
<1>b. u \in mbox[f] /\ u < uidNext[f]
  <2>1. u < uidNext[f]
    BY <1>p, <1>u, <1>v DEF RunsInv
  <2>2. QED
    BY <1>t, <1>u, <1>v, <2>1, GivenWasThere DEF HistoryNext
<1>r. Recorded(f)
  BY <1>t, <1>p, <1>v DEF Recorded, FolderInv, PurgeWhenStale
<1>k. Known(f, u) => Known(f, u)'
  BY <1>t, <1>v, <1>u, <1>r, KnownStays DEF HistoryNext
<1>h. sync[f].pc \in {"collect", "finish"} => Known(f, u) \/ u \in Held(f)
  BY <1>b, <1>u, <1>v DEF RunsInv, UndertakenIsHad
<1>1. CASE sync'[f] = sync[f]
  BY <1>1, <1>h, <1>k DEF Held
<1>2. CASE SyncFetch(f) /\ sync[f].pc = "fetch"
  <2>1. sync'[f].stream = FetchRange(f, sync[f].last)
    BY <1>t, <1>2 DEF SyncFetch, NoRun, SyncRun
  <2>2. sync[f].last = lastUid[f]
    BY <1>t, <1>2 DEF FolderInv, StreamInOrder
  <2>3. CASE u > lastUid[f]
    BY <1>b, <2>1, <2>2, <2>3 DEF FetchRange, Held
  <2>4. CASE ~ u > lastUid[f]
    <3>1. u <= lastUid[f]
      BY <1>t, <1>u, <2>4
    <3>2. Known(f, u)
      BY <1>t, <1>b, <1>r, <3>1 DEF FolderInv, NoGapIn
    <3>3. QED
      BY <1>k, <3>2
  <2>5. QED
    BY <2>3, <2>4
<1>3. CASE SyncCollect(f)
  <2> DEFINE w == NextOf(sync[f])
  <2>1. \/ sync' = [sync EXCEPT ![f] = Collected(sync[f], w)]
        \/ sync' = [sync EXCEPT ![f] = CollectedBare(sync[f], w)]
        \/ /\ sync' = [sync EXCEPT ![f] = CollectSkipped(sync[f], w)]
           /\ forgone' = [forgone EXCEPT ![f] = @ \cup {w}]
    BY <1>3 DEF SyncCollect
  <2>2. CASE \/ sync' = [sync EXCEPT ![f] = Collected(sync[f], w)]
             \/ sync' = [sync EXCEPT ![f] = CollectedBare(sync[f], w)]
    <3>1. Held(f) \subseteq Held(f)'
      <4>1. \/ sync'[f] = Collected(sync[f], w)
            \/ sync'[f] = CollectedBare(sync[f], w)
        BY <1>t, <2>2
      <4>2. \A r \in {Collected(sync[f], w), CollectedBare(sync[f], w)} :
              r.stream = sync[f].stream \ {w} /\ r.batch = sync[f].batch \cup {w}
        BY <1>t DEF Collected, CollectedBare, SyncRun
      <4>3. QED
        BY <4>1, <4>2 DEF Held
    <3>2. QED
      BY <1>3, <1>h, <1>k, <3>1 DEF SyncCollect
  <2>3. CASE /\ sync' = [sync EXCEPT ![f] = CollectSkipped(sync[f], w)]
             /\ forgone' = [forgone EXCEPT ![f] = @ \cup {w}]
    <3>1. Held(f) \subseteq Held(f)' \cup {w}
      BY <1>t, <2>3 DEF Held, CollectSkipped, SyncRun
    <3>2. u = w => Known(f, u)'
      BY <1>t, <2>3 DEF Known
    <3>3. QED
      BY <1>3, <1>h, <1>k, <3>1, <3>2 DEF SyncCollect
  <2>4. QED
    BY <2>1, <2>2, <2>3
<1>4. CASE SyncFlush(f)
  <2>1. sync'[f].stream = sync[f].stream
    BY <1>t, <1>4 DEF SyncFlush, Flushed, SyncRun
  <2>2. u \in sync[f].batch => Known(f, u)'
    BY <1>4, <1>v, FlushKnows
  <2>3. QED
    BY <1>4, <1>h, <1>k, <2>1, <2>2 DEF SyncFlush, Held
<1>5. CASE SyncStreamEnd(f) /\ sync'[f] = [sync[f] EXCEPT !.pc = "finish"]
  BY <1>t, <1>5, <1>h, <1>k DEF SyncStreamEnd, Held, SyncRun
<1>6. QED
  BY <1>t, <1>m, <1>u, <1>1, <1>2, <1>3, <1>4, <1>5, RunGoesOn

LEMMA RunsInvKept ==
  ~ RenumberUnrecorded /\ RunsHave /\ [HistoryNext]_runsVars => RunsHave'
<1> SUFFICES ASSUME ~ RenumberUnrecorded, RunsHave, [HistoryNext]_runsVars PROVE RunsHave'
  OBVIOUS
<1>1. CacheInv'
  BY CacheInvKept DEF RunsHave, HistoryNext, runsVars
<1>2. CASE UNCHANGED runsVars
  <2>1. RunsInv'
    BY <1>2 DEF RunsHave, RunsInv, UndertakenIsHad, Known, Held, runsVars, vars,
       serverVars, dbVars, syncVars
  <2>2. QED
    BY <1>1, <2>1 DEF RunsHave
<1>3. CASE HistoryNext
  <2>t. /\ undertaken \in [Folders -> SUBSET Uids] /\ mbox \in [Folders -> SUBSET Uids]
        /\ TypeInv /\ CacheInv /\ RunsInv
    BY DEF RunsHave, CacheInv, RunsInv, TypeInv, TypeOK, ServerTypeOK
  <2>1. undertaken' \in [Folders -> SUBSET Uids]
    BY <1>3, <2>t DEF HistoryNext, Undertake
  <2>2. ASSUME NEW f \in Synced
        PROVE  sync'[f].pc = "finish" => sync'[f].stream = {}
    <3>1. CASE sync'[f] = sync[f]
      BY <2>t, <3>1 DEF RunsInv
    <3>2. CASE SyncStreamEnd(f) /\ sync'[f] = [sync[f] EXCEPT !.pc = "finish"]
      BY <2>t, <3>2, FolderTyped DEF SyncStreamEnd, SyncRun
    <3>3. QED
      BY <1>3, <2>t, <3>1, <3>2, RunMoves, RunGoesOn DEF HistoryNext
  <2>3. ASSUME NEW f \in Synced, sync'[f].pc \in {"purge", "reset"}, sync'[f].empty
        PROVE  undertaken'[f] = {}
    <3>u. f \in Folders /\ undertaken'[f] = IF sync[f].pc = "idle" THEN mbox[f]
                                            ELSE IF SyncBreak(f) THEN {} ELSE undertaken[f]
      BY <1>3, <2>t, <2>3, SyncedAssumption DEF HistoryNext, Undertake
    <3>1. CASE sync'[f] = sync[f]
      BY <2>t, <2>3, <3>u, <3>1 DEF RunsInv
    <3>2. CASE SyncStep(f) \/ SyncBreak(f) \/ SyncAbort(f) \/ Crash
      <4>1. CASE sync[f].pc = "idle"
        BY <2>t, <2>3, <3>u, <3>2, <4>1, RunGoesOn
      <4>2. CASE sync[f].pc # "idle"
        <5>1. sync[f].empty /\ sync[f].pc \in {"purge", "reset"}
          BY <2>t, <2>3, <3>2, <4>2, RunGoesOn
        <5>2. QED
          BY <2>t, <3>u, <4>2, <5>1 DEF RunsInv
      <4>3. QED
        BY <4>1, <4>2
    <3>3. QED
      BY <1>3, <2>t, <3>1, <3>2, RunMoves DEF HistoryNext
  <2>4. \A f \in Synced : UndertakenIsHad(f)'
    BY <1>3, <2>t, UndertakenIsHadKept
  <2>5. ASSUME NEW f \in Synced, sync'[f].pc # "idle", sync'[f].val = validity'[f],
               NEW u \in undertaken'[f]
        PROVE  u < uidNext'[f]
    BY <1>3, <2>t, <2>5, UndertakenGiven
  <2>6. RunsInv'
    BY <2>1, <2>2, <2>3, <2>4, <2>5 DEF RunsInv
  <2>7. QED
    BY <1>1, <2>6 DEF RunsHave
<1>4. QED
  BY <1>2, <1>3

-----------------------------------------------------------------------------
\* A run that is about to end has what it began for and the folder still has.
LEMMA EndingHas ==
  ASSUME CacheInv, RunsInv, NEW f \in Synced,
         \/ sync[f].pc = "finish"
         \/ sync[f].pc = "collect" /\ sync[f].stream = {} /\ sync[f].batch = {}
  PROVE  Under(sync[f].val, undertaken[f]) \cap There(f) \subseteq Had(f)
<1> SUFFICES ASSUME NEW x \in Under(sync[f].val, undertaken[f]), x \in There(f)
             PROVE  x \in Had(f)
  OBVIOUS
<1>1. PICK u \in undertaken[f] : x = <<sync[f].val, u>>
  BY DEF Under
<1>2. u \in mbox[f] /\ sync[f].val = validity[f]
  BY <1>1 DEF There, Under
<1>t. /\ f \in Folders /\ FolderInv(f) /\ mbox[f] \in SUBSET Uids
  BY FolderTyped DEF CacheInv, SyncInv
<1>3. Held(f) = {}
  BY <1>t DEF RunsInv, FolderInv, StreamInOrder, Held
<1>4. Known(f, u)
  BY <1>1, <1>2, <1>3 DEF RunsInv, UndertakenIsHad
<1>5. Recorded(f)
  BY <1>t, <1>2 DEF Recorded, FolderInv, PurgeWhenStale
<1>6. QED
  BY <1>t, <1>1, <1>2, <1>4, <1>5 DEF Had, Under

\* A run whose folder was renumbered, or is empty, began for nothing that is there.
LEMMA NothingLeft ==
  ASSUME NEW f \in Synced,
         validity[f] # sync[f].val \/ mbox[f] = {} \/ undertaken[f] = {}
  PROVE  Under(sync[f].val, undertaken[f]) \cap There(f) = {}
BY DEF Under, There

\* The steps after which a run is still under way.
LEMMA StaysOn ==
  ASSUME TypeInv, NEW f \in Synced, sync[f].pc # "idle",
         SyncBegin(f) \/ SyncPurge(f) \/ SyncCollect(f) \/ SyncFlush(f) \/ SyncBreak(f)
  PROVE  sync'[f].pc # "idle"
<1>t. sync \in [Folders -> SyncRun] /\ f \in Folders /\ sync[f] \in SyncRun
  BY SyncedAssumption DEF TypeInv, TypeOK, SyncTypeOK
<1>1. CASE SyncBegin(f)
  BY <1>1 DEF SyncBegin
<1>2. CASE SyncPurge(f)
  BY <1>t, <1>2 DEF SyncPurge, SyncRun
<1>5. CASE SyncFlush(f) \/ SyncBreak(f)
  <2>1. /\ sync[f].pc = "collect"
        /\ sync'[f] \in {Flushed(sync[f]), [sync[f] EXCEPT !.stream = {}]}
    BY <1>t, <1>5 DEF SyncFlush, SyncBreak
  <2>2. QED
    BY <1>t, <2>1 DEF Flushed, SyncRun
<1>3. CASE SyncCollect(f)
  <2>1. \E r \in {Collected(sync[f], NextOf(sync[f])), CollectSkipped(sync[f], NextOf(sync[f])),
                 CollectedBare(sync[f], NextOf(sync[f]))} : sync' = [sync EXCEPT ![f] = r]
    BY <1>3 DEF SyncCollect
  <2>2. \A u : \A r \in {Collected(sync[f], u), CollectSkipped(sync[f], u), CollectedBare(sync[f], u)} :
          r.pc = sync[f].pc
    BY <1>t DEF Collected, CollectSkipped, CollectedBare, SyncRun
  <2>3. QED
    BY <1>t, <2>1, <2>2
<1>4. QED
  BY <1>1, <1>2, <1>3, <1>5

LEMMA StepOfFolder ==
  ASSUME ~ RenumberUnrecorded, RunsHave, HistoryNext, NEW f \in Synced
  PROVE  Runs!Begin(f) \/ Runs!Change(f) \/ Runs!End(f) \/ Runs!Fail(f)
<1>t. /\ f \in Folders /\ mbox[f] \in SUBSET Uids /\ sync[f] \in SyncRun
      /\ sync \in [Folders -> SyncRun] /\ faults \in Nat
      /\ CacheInv /\ RunsInv /\ TypeInv
  BY FolderTyped, SyncedAssumption, SyncAssumption
  DEF RunsHave, CacheInv, TypeInv, TypeOK, SyncTypeOK
<1>n. NoRun.pc = "idle"
  BY DEF NoRun
<1>k. Had(f) \cap There(f)' \subseteq Had(f)'
  BY <1>t, HadStays DEF HistoryNext
<1>m. sync'[f] = sync[f] \/ SyncStep(f) \/ SyncBreak(f) \/ SyncAbort(f) \/ Crash
  BY <1>t, RunMoves DEF HistoryNext
<1>u. undertaken'[f] = IF sync'[f].pc = "idle" THEN {}
                       ELSE IF sync[f].pc = "idle" THEN mbox[f]
                       ELSE IF SyncBreak(f) THEN {} ELSE undertaken[f]
  BY <1>t DEF HistoryNext, Undertake
<1>1. CASE RunOn(f)' = RunOn(f)
  BY <1>1, <1>k DEF Runs!Change
<1>2. CASE sync[f].pc = "idle" /\ sync'[f].pc # "idle"
  <2>1. SyncBegin(f) /\ sync'[f].val = validity[f]
    BY <1>t, <1>m, <1>2, RunGoesOn
  <2>2. There(f)' = There(f) /\ Had(f)' = Had(f)
    BY <2>1 DEF SyncBegin, serverVars, dbVars, There, Had, Recorded, Known
  <2>3. RunOn(f) = {} /\ RunOn(f)' = {<<"run", There(f)>>}
    BY <1>u, <1>2, <2>1 DEF RunOn, There
  <2>4. QED
    BY <2>2, <2>3 DEF Runs!Begin
<1>3. CASE sync[f].pc # "idle" /\ sync'[f].pc # "idle"
  <2>1. sync'[f].val = sync[f].val
    BY <1>t, <1>m, <1>3, RunGoesOn
  <2>2. CASE SyncBreak(f)
    <3>1. There(f)' = There(f) /\ Had(f)' = Had(f) /\ faults' # faults
      BY <1>t, <2>2 DEF SyncBreak, Fault, serverVars, dbVars, There, Had, Recorded, Known
    <3>2. RunOn(f) # {} /\ RunOn(f)' = {<<"run", {}>>}
      BY <1>u, <1>3, <2>2 DEF RunOn, Under
    <3>3. QED
      BY <3>1, <3>2 DEF Runs!Fail
  <2>3. CASE ~ SyncBreak(f)
    BY <1>1, <1>u, <1>3, <2>1, <2>3 DEF RunOn
  <2>4. QED
    BY <2>2, <2>3
<1>4. CASE sync[f].pc # "idle" /\ sync'[f].pc = "idle"
  <2>1. RunOn(f) = {<<"run", Under(sync[f].val, undertaken[f])>>} /\ RunOn(f)' = {}
    BY <1>4 DEF RunOn
  <2>2. ASSUME There(f)' = There(f), Under(sync[f].val, undertaken[f]) \cap There(f) \subseteq Had(f)
        PROVE  Runs!End(f)
    <3>1. \A r \in RunOn(f) : r[2] \cap There(f) \subseteq Had(f)'
      BY <1>k, <2>1, <2>2
    <3>2. Had(f) \cap There(f) \subseteq Had(f)'
      BY <1>k, <2>2
    <3>3. RunOn(f) # {}
      BY <2>1
    <3> HIDE DEF RunOn, There, Had
    <3>4. QED
      BY <2>1, <2>2, <3>1, <3>2, <3>3 DEF Runs!End
  <2>3. ASSUME UNCHANGED <<serverVars, dbVars, forgone>>, faults' # faults
        PROVE  Runs!Fail(f)
    <3>1. There(f)' = There(f) /\ Had(f)' = Had(f)
      BY <2>3 DEF serverVars, dbVars, There, Had, Recorded, Known
    <3>2. QED
      BY <2>1, <2>3, <3>1 DEF Runs!Fail
  <2>4. CASE SyncAbort(f) \/ Crash
    BY <1>t, <2>3, <2>4 DEF SyncAbort, Crash, Fault
  <2>5. CASE SyncReset(f)
    <3>1. sync[f].empty
      BY <1>t, <1>4, <2>5 DEF SyncReset, AfterCheck, SyncRun
    <3>2. undertaken[f] = {} /\ There(f)' = There(f)
      BY <1>t, <2>5, <3>1 DEF SyncReset, RunsInv, serverVars, There
    <3>3. QED
      BY <2>2, <3>2, NothingLeft
  <2>6. CASE SyncFetch(f)
    <3>1. There(f)' = There(f)
      BY <2>6 DEF SyncFetch, serverVars, There
    <3>2. validity[f] # sync[f].val \/ FetchRange(f, sync[f].last) = {}
      BY <1>t, <1>4, <2>6 DEF SyncFetch, SyncRun
    <3>3. mbox[f] # {} => FetchRange(f, sync[f].last) # {}
      BY <1>t, HighestExists DEF FetchRange
    <3>4. QED
      BY <2>2, <3>1, <3>2, <3>3, NothingLeft
  <2>7. CASE SyncStreamEnd(f)
    <3>1. There(f)' = There(f)
      BY <2>7 DEF SyncStreamEnd, serverVars, There
    <3>2. sync[f].pc = "collect" /\ sync[f].stream = {} /\ sync[f].batch = {}
      BY <2>7 DEF SyncStreamEnd
    <3>3. QED
      BY <1>t, <2>2, <3>1, <3>2, EndingHas
  <2>8. CASE SyncFinish(f)
    <3>1. There(f)' = There(f) /\ sync[f].pc = "finish"
      BY <2>8 DEF SyncFinish, serverVars, There
    <3>2. QED
      BY <1>t, <2>2, <3>1, EndingHas
  <2>9. CASE SyncBegin(f) \/ SyncPurge(f) \/ SyncCollect(f) \/ SyncFlush(f) \/ SyncBreak(f)
    <3>1. FALSE
      BY <1>t, <1>4, <2>9, StaysOn
    <3>2. QED
      BY <3>1
  <2>10. QED
    BY <1>m, <1>4, <2>4, <2>5, <2>6, <2>7, <2>8, <2>9 DEF SyncStep
<1>5. CASE sync[f].pc = "idle" /\ sync'[f].pc = "idle"
  BY <1>1, <1>5 DEF RunOn
<1>6. QED
  BY <1>2, <1>3, <1>4, <1>5

\* Every run of SyncFolder keeps the contract that the scheduling builds on: when
\* it ends without a fault, every message that was in the folder at its SELECT and
\* still is has its row, or was given up (SyncFolder, importMessageBatch).
THEOREM EveryRunKeepsItsWord ==
  ASSUME ~ RenumberUnrecorded
  PROVE  HistorySpec => RunsKeepTheirWord
<1>1. HistoryInit => Runs!RunsInit
  BY SyncedAssumption DEF HistoryInit, Init, SyncInit, NoRun, Runs!RunsInit, RunOn
<1>2. RunsHave /\ [HistoryNext]_runsVars =>
        [Runs!RunsNext]_<<[f \in Synced |-> There(f)], [f \in Synced |-> Had(f)],
                          [f \in Synced |-> RunOn(f)], faults>>
  <2> SUFFICES ASSUME RunsHave, [HistoryNext]_runsVars
               PROVE  Runs!RunsNext \/ UNCHANGED <<[f \in Synced |-> There(f)], [f \in Synced |-> Had(f)],
                          [f \in Synced |-> RunOn(f)], faults>>
    OBVIOUS
  <2>1. CASE HistoryNext
    BY <2>1, StepOfFolder DEF Runs!RunsNext
  <2>2. CASE UNCHANGED runsVars
    BY <2>2 DEF runsVars, vars, serverVars, dbVars, syncVars, There, Had, RunOn, Recorded, Known
  <2>3. QED
    BY <2>1, <2>2
<1>3. QED
  BY <1>1, <1>2, RunsInvInit, RunsInvKept, PTL DEF HistorySpec, RunsKeepTheirWord, Runs!RunsSpec

\* The history only watches: what is proved of Spec holds under it.
LEMMA HistoryAddsNothing == HistorySpec => Spec
<1>1. HistoryInit => Init
  BY DEF HistoryInit
<1>2. [HistoryNext]_runsVars => [Next]_vars
  BY DEF HistoryNext, runsVars
<1>3. QED
  BY <1>1, <1>2, PTL DEF HistorySpec, Spec
=============================================================================
