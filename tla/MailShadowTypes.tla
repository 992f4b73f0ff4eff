-------------------------- MODULE MailShadowTypes ---------------------------
(***************************************************************************)
(* Type correctness of MailShadow for every instance: any folders,         *)
(* messages, batch size, faults and number of delete_mail calls.           *)
(***************************************************************************)
EXTENDS MailShadowInv, WellFoundedInduction, TLAPS

LEMMA BoundsAreNumbers ==
  /\ MaxUid \in Nat \ {0}
  /\ MaxValidity \in Nat \ {0}
  /\ Absent \notin Msgs
BY ServerAssumption

\* A set of UIDs that is not empty has a lowest and a highest member: both
\* orders are well-founded on the naturals up to a bound.
LEMMA LowestExists ==
  ASSUME NEW us \in SUBSET Uids, us # {}
  PROVE  \E x \in us : \A y \in us : x <= y
<1> DEFINE Less == {ss \in Nat \X Nat : ss[1] < ss[2]}
<1>1. IsWellFoundedOn(Less, Nat)
  BY NatLessThanWellFounded, Zenon DEF OpToRel
<1>2. us \subseteq Nat
  BY BoundsAreNumbers DEF Uids
<1>3. PICK x \in us : \A y \in us : ~ (<<y, x>> \in Less)
  <2> HIDE DEF Less
  <2> QED BY <1>1, <1>2, WFMin
<1>4. ASSUME NEW y \in us, y < x
      PROVE  FALSE
  <2>1. <<y, x>> \in Nat \X Nat /\ <<y, x>>[1] < <<y, x>>[2]
    BY <1>2, <1>4
  <2>2. <<y, x>> \in Less
    BY <2>1
  <2>3. QED
    BY <1>3, <2>2
<1>5. QED
  BY <1>2, <1>4

LEMMA HighestExists ==
  ASSUME NEW us \in SUBSET Uids, us # {}
  PROVE  \E x \in us : \A y \in us : y <= x
<1> USE BoundsAreNumbers DEF Uids
<1> DEFINE mirror == {MaxUid + 1 - x : x \in us}
<1>1. mirror \in SUBSET Uids /\ mirror # {}
  <2>1. PICK x \in us : TRUE
    OBVIOUS
  <2>2. MaxUid + 1 - x \in mirror
    OBVIOUS
  <2>3. \A y \in us : MaxUid + 1 - y \in Uids
    OBVIOUS
  <2>4. QED
    BY <2>2, <2>3
<1>2. PICK k \in mirror : \A j \in mirror : k <= j
  <2> HIDE DEF mirror
  <2> QED BY <1>1, LowestExists
<1>3. PICK top \in us : k = MaxUid + 1 - top
  OBVIOUS
<1>4. \A y \in us : y <= top
  BY <1>2, <1>3
<1>5. QED
  BY <1>4

\* Every server action keeps the folders well-formed.
LEMMA ServerStepTyped ==
  ASSUME ServerTypeOK,
         \/ \E f \in Folders, m \in Msgs : Deliver(f, m)
         \/ \E f \in Folders, u \in Uids : Expunge(f, u)
         \/ \E f \in Folders : Renumber(f)
         \/ \E f \in Folders, u \in Uids, t \in Folders : MoveMessage(f, u, t)
  PROVE  ServerTypeOK'
<1> USE BoundsAreNumbers DEF Uids, Validities, MsgOrNone, ServerTypeOK
<1>1. ASSUME NEW f \in Folders, NEW m \in Msgs, Deliver(f, m)
      PROVE  ServerTypeOK'
  <2>1. /\ uidNext[f] \in Uids
        /\ mbox' = [mbox EXCEPT ![f] = @ \cup {uidNext[f]}]
        /\ minted' = [minted EXCEPT ![f][validity[f]][uidNext[f]] = m]
        /\ uidNext' = [uidNext EXCEPT ![f] = @ + 1]
        /\ validity' = validity
    BY <1>1 DEF Deliver
  <2>2. uidNext' \in [Folders -> 1..(MaxUid + 1)]
    BY <2>1
  <2>3. mbox' \in [Folders -> SUBSET Uids]
    BY <2>1
  <2>4. minted' \in [Folders -> [Validities -> [Uids -> MsgOrNone]]]
    <3>1. m \in MsgOrNone
      OBVIOUS
    <3> HIDE DEF Uids, Validities, MsgOrNone
    <3> QED
      BY <2>1, <3>1
  <2>5. QED
    BY <2>1, <2>2, <2>3, <2>4
<1>2. ASSUME NEW f \in Folders, NEW u \in Uids, Expunge(f, u)
      PROVE  ServerTypeOK'
  BY <1>2 DEF Expunge
<1>3. ASSUME NEW f \in Folders, Renumber(f)
      PROVE  ServerTypeOK'
  <2>0. PICK n \in 0..MaxUid : \E kept \in [1..n -> mbox[f]] :
          /\ mbox' = [mbox EXCEPT ![f] = 1..n]
          /\ minted' = [minted EXCEPT ![f][validity[f] + 1] =
                          [u \in Uids |-> IF u <= n THEN MessageAt(f, kept[u])
                                                    ELSE Absent]]
          /\ uidNext' = [uidNext EXCEPT ![f] = n + 1]
    BY <1>3 DEF Renumber
  <2>1. PICK kept \in [1..n -> mbox[f]] :
          /\ mbox' = [mbox EXCEPT ![f] = 1..n]
          /\ minted' = [minted EXCEPT ![f][validity[f] + 1] =
                          [u \in Uids |-> IF u <= n THEN MessageAt(f, kept[u])
                                                    ELSE Absent]]
          /\ uidNext' = [uidNext EXCEPT ![f] = n + 1]
    BY <2>0
  <2>2. [u \in Uids |-> IF u <= n THEN MessageAt(f, kept[u]) ELSE Absent]
          \in [Uids -> MsgOrNone]
    BY <2>1 DEF MessageAt
  <2>3. minted' \in [Folders -> [Validities -> [Uids -> MsgOrNone]]]
    BY <2>1, <2>2
  <2>4. mbox' \in [Folders -> SUBSET Uids]
    <3>1. 1..n \subseteq Uids
      OBVIOUS
    <3> QED
      BY <2>1, <3>1
  <2>5. uidNext' \in [Folders -> 1..(MaxUid + 1)]
    <3>1. n + 1 \in 1..(MaxUid + 1)
      OBVIOUS
    <3> QED
      BY <2>1, <3>1
  <2>6. validity' \in [Folders -> Validities]
    <3>1. validity[f] + 1 \in Validities
      BY <1>3 DEF Renumber
    <3>2. validity' = [validity EXCEPT ![f] = validity[f] + 1]
      BY <1>3 DEF Renumber
    <3> QED
      BY <3>1, <3>2
  <2>7. QED
    BY <2>3, <2>4, <2>5, <2>6
<1>4. ASSUME NEW f \in Folders, NEW u \in Uids, NEW t \in Folders,
             MoveMessage(f, u, t)
      PROVE  ServerTypeOK'
  <2>1. MessageAt(f, u) \in MsgOrNone
    BY DEF MessageAt
  <2>2. mbox' \in [Folders -> SUBSET Uids]
    <3>1. uidNext[t] \in Uids
      <4>1. uidNext[t] \in 1..(MaxUid + 1) /\ uidNext[t] <= MaxUid
        BY <1>4 DEF MoveMessage
      <4> QED
        BY <4>1
    <3>2. mbox' = [g \in Folders |->
                     (mbox[g] \ (IF g = f THEN {u} ELSE {}))
                       \cup (IF g = t THEN {uidNext[t]} ELSE {})]
      BY <1>4 DEF MoveMessage
    <3>3. \A g \in Folders : mbox[g] \subseteq Uids
      OBVIOUS
    <3> HIDE DEF Uids
    <3> QED
      BY <3>1, <3>2, <3>3
  <2>3. minted' \in [Folders -> [Validities -> [Uids -> MsgOrNone]]]
    <3>1. minted' = [minted EXCEPT ![t][validity[t]][uidNext[t]] = MessageAt(f, u)]
      BY <1>4 DEF MoveMessage
    <3> HIDE DEF Uids, Validities, MsgOrNone
    <3> QED
      BY <2>1, <3>1
  <2>4. uidNext' \in [Folders -> 1..(MaxUid + 1)] /\ validity' = validity
    BY <1>4 DEF MoveMessage
  <2>5. QED
    BY <2>2, <2>3, <2>4
<1>5. QED
  BY <1>1, <1>2, <1>3, <1>4

\* Every statement keeps the tables well-formed.
LEMMA StatementTyped ==
  ASSUME ServerTypeOK, DBTypeOK, NEW f \in Folders,
         \/ \E us \in SUBSET Uids, v \in Validities : ImportMessageBatch(f, us, minted[f][v])
         \/ PurgeEntries(f)
         \/ \E v \in 0..MaxValidity : ResetSyncState(f, v) \/ PersistUIDValidity(f, v)
         \/ \E u \in Uids : DeleteFts(f, u) \/ DeleteContent(f, u) \/ DeleteEntry(f, u)
         \/ UNCHANGED dbVars
  PROVE  DBTypeOK'
<1> USE BoundsAreNumbers DEF Uids, Validities, MsgOrNone, DBTypeOK
<1>1. ASSUME NEW us \in SUBSET Uids, NEW v \in Validities,
             ImportMessageBatch(f, us, minted[f][v])
      PROVE  DBTypeOK'
  <2>1. minted[f][v] \in [Uids -> MsgOrNone]
    BY DEF ServerTypeOK
  <2>2. lastUid' \in [Folders -> 0..MaxUid]
    <3>1. CASE us = {}
      BY <1>1, <3>1 DEF ImportMessageBatch, UpdateLastUID
    <3>2. CASE us # {}
      <4>1. PICK top \in us : \A y \in us : y <= top
        BY <3>2, HighestExists
      <4>2. (CHOOSE x \in us : \A y \in us : y <= x) \in Uids
        BY <4>1
      <4>3. QED
        BY <1>1, <3>2, <4>2 DEF ImportMessageBatch, UpdateLastUID
    <3>3. QED
      BY <3>1, <3>2
  <2>3. entries' \in [Folders -> [Uids -> MsgOrNone]]
    BY <1>1, <2>1 DEF ImportMessageBatch, InsertRows
  <2>4. content' \in [Folders -> [Uids -> MsgOrNone]]
    BY <1>1, <2>1 DEF ImportMessageBatch, InsertRows
  <2>5. fts' \in [Folders -> [Uids -> SUBSET MsgOrNone]]
    BY <1>1, <2>1 DEF ImportMessageBatch, InsertRows
  <2>6. QED
    BY <1>1, <2>2, <2>3, <2>4, <2>5 DEF ImportMessageBatch
<1>2. CASE PurgeEntries(f)
  BY <1>2 DEF PurgeEntries
<1>3. ASSUME NEW v \in 0..MaxValidity, ResetSyncState(f, v)
      PROVE  DBTypeOK'
  BY <1>3 DEF ResetSyncState
<1>4. ASSUME NEW v \in 0..MaxValidity, PersistUIDValidity(f, v)
      PROVE  DBTypeOK'
  BY <1>4 DEF PersistUIDValidity
<1>5. ASSUME NEW u \in Uids, DeleteFts(f, u)
      PROVE  DBTypeOK'
  BY <1>5 DEF DeleteFts
<1>6. ASSUME NEW u \in Uids, DeleteContent(f, u)
      PROVE  DBTypeOK'
  BY <1>6 DEF DeleteContent
<1>7. ASSUME NEW u \in Uids, DeleteEntry(f, u)
      PROVE  DBTypeOK'
  BY <1>7 DEF DeleteEntry
<1>8. CASE UNCHANGED dbVars
  BY <1>8 DEF dbVars
<1>9. QED
  BY <1>1, <1>2, <1>3, <1>4, <1>5, <1>6, <1>7, <1>8

\* NoRun and the runs a step makes are runs.
LEMMA NoRunTyped == NoRun \in SyncRun
BY BoundsAreNumbers DEF NoRun, SyncRun, SyncPcs

LEMMA NextOfTyped ==
  ASSUME NEW run \in SyncRun, run.stream # {}
  PROVE  /\ NextOf(run) \in run.stream
         /\ \A w \in run.stream : NextOf(run) <= w
<1>1. run.stream \in SUBSET Uids
  BY DEF SyncRun
<1>2. QED
  BY <1>1, LowestExists DEF NextOf

\* Every step of a run, faults included, keeps the variables well-formed.
LEMMA SyncStepTyped ==
  ASSUME TypeOK, RunsSelected, NEW f \in Synced,
         SyncStep(f) \/ SyncBreak(f) \/ SyncAbort(f)
  PROVE  ServerTypeOK' /\ DBTypeOK' /\ SyncTypeOK'
<1> USE BoundsAreNumbers, SyncAssumption DEF TypeOK
<1>f. f \in Folders /\ sync[f] \in SyncRun
  BY SyncedAssumption DEF SyncTypeOK
<1>val. validity[f] \in 0..MaxValidity /\ lastUid[f] \in 0..MaxUid
  BY <1>f DEF ServerTypeOK, DBTypeOK, Validities
<1>same. UNCHANGED serverVars => ServerTypeOK'
  BY DEF serverVars, ServerTypeOK
<1>db. UNCHANGED dbVars => DBTypeOK'
  BY DEF dbVars, DBTypeOK
<1>rest. UNCHANGED <<faults, forgone>> => faults' \in 0..MaxFaults /\ forgone' \in [Folders -> SUBSET Uids]
  BY DEF SyncTypeOK
<1>run. ASSUME NEW run \in SyncRun, sync' = [sync EXCEPT ![f] = run]
        PROVE  sync' \in [Folders -> SyncRun]
  BY <1>f, <1>run DEF SyncTypeOK
<1>1. CASE SyncBegin(f)
  <2>1. PICK run \in SyncRun : sync' = [sync EXCEPT ![f] = run]
    BY <1>1, <1>f, <1>val, NoRunTyped
    DEF SyncBegin, GetLastUID, AfterCheck, NoRun, SyncRun, SyncPcs
  <2>2. QED
    BY <1>1, <2>1, <1>run, <1>same, <1>db, <1>rest DEF SyncBegin, SyncTypeOK
<1>2. CASE SyncPurge(f)
  <2>1. PICK run \in SyncRun : sync' = [sync EXCEPT ![f] = run]
    BY <1>2, <1>f DEF SyncPurge, SyncRun, SyncPcs
  <2>2. DBTypeOK'
    BY <1>2, <1>f, StatementTyped DEF SyncPurge
  <2>3. QED
    BY <1>2, <2>1, <2>2, <1>run, <1>same, <1>rest DEF SyncPurge, SyncTypeOK
<1>3. CASE SyncReset(f)
  <2>0. [sync[f] EXCEPT !.pc = AfterCheck(FALSE), !.last = 0] \in SyncRun
    <3>1. AfterCheck(FALSE) = "fetch" /\ 0 \in 0..MaxUid
      BY DEF AfterCheck
    <3>2. QED
      BY <1>f, <3>1 DEF SyncRun, SyncPcs
  <2>1. PICK run \in SyncRun : sync' = [sync EXCEPT ![f] = run]
    BY <1>3, <2>0, NoRunTyped DEF SyncReset
  <2>2. DBTypeOK'
    BY <1>3, <1>f, StatementTyped DEF SyncReset, SyncRun
  <2>3. forgone' \in [Folders -> SUBSET Uids]
    BY <1>3 DEF SyncReset, SyncTypeOK
  <2>4. QED
    BY <1>3, <2>1, <2>2, <2>3, <1>run, <1>same DEF SyncReset, SyncTypeOK
<1>4. CASE SyncFetch(f)
  <2>1. FetchRange(f, sync[f].last) \in SUBSET Uids
    BY <1>f DEF FetchRange, ServerTypeOK
  <2>2. PICK run \in SyncRun : sync' = [sync EXCEPT ![f] = run]
    BY <1>4, <1>f, <2>1, NoRunTyped DEF SyncFetch, SyncRun, SyncPcs
  <2>3. QED
    BY <1>4, <2>2, <1>run, <1>same, <1>db, <1>rest DEF SyncFetch, SyncTypeOK
<1>5. CASE SyncCollect(f)
  <2>1. NextOf(sync[f]) \in Uids
    BY <1>5, <1>f, NextOfTyped DEF SyncCollect, SyncRun
  <2>2. PICK run \in SyncRun : sync' = [sync EXCEPT ![f] = run]
    BY <1>5, <1>f, <2>1
    DEF SyncCollect, Collected, CollectSkipped, CollectedBare, SyncRun, SyncPcs
  <2>3. faults' \in 0..MaxFaults /\ forgone' \in [Folders -> SUBSET Uids]
    BY <1>5, <1>f, <2>1 DEF SyncCollect, Fault, SyncTypeOK
  <2>4. QED
    BY <1>5, <2>2, <2>3, <1>run, <1>same, <1>db DEF SyncCollect, SyncTypeOK
<1>6. CASE SyncFlush(f)
  <2>1. PICK run \in SyncRun : sync' = [sync EXCEPT ![f] = run]
    BY <1>6, <1>f DEF SyncFlush, Flushed, SyncRun, SyncPcs
  <2>2. DBTypeOK'
    BY <1>6, <1>f, StatementTyped DEF SyncFlush, SyncRun, RunsSelected
  <2>3. QED
    BY <1>6, <2>1, <2>2, <1>run, <1>same, <1>rest DEF SyncFlush, SyncTypeOK
<1>7. CASE SyncStreamEnd(f)
  <2>1. PICK run \in SyncRun : sync' = [sync EXCEPT ![f] = run]
    BY <1>7, <1>f, NoRunTyped DEF SyncStreamEnd, SyncRun, SyncPcs
  <2>2. QED
    BY <1>7, <2>1, <1>run, <1>same, <1>db, <1>rest DEF SyncStreamEnd, SyncTypeOK
<1>8. CASE SyncFinish(f)
  <2>1. sync' = [sync EXCEPT ![f] = NoRun]
    BY <1>8 DEF SyncFinish
  <2>2. DBTypeOK'
    BY <1>8, <1>f, <1>db, StatementTyped DEF SyncFinish, SyncRun
  <2>3. faults' \in 0..MaxFaults
    BY <1>8 DEF SyncFinish, Fault, SyncTypeOK
  <2>4. QED
    BY <1>8, <2>1, <2>2, <2>3, NoRunTyped, <1>run, <1>same DEF SyncFinish, SyncTypeOK
<1>9. CASE SyncBreak(f)
  <2>1. PICK run \in SyncRun : sync' = [sync EXCEPT ![f] = run]
    BY <1>9, <1>f DEF SyncBreak, SyncRun, SyncPcs
  <2>2. faults' \in 0..MaxFaults
    BY <1>9 DEF SyncBreak, Fault, SyncTypeOK
  <2>3. QED
    BY <1>9, <2>1, <2>2, <1>run, <1>same, <1>db DEF SyncBreak, SyncTypeOK
<1>10. CASE SyncAbort(f)
  <2>1. sync' = [sync EXCEPT ![f] = NoRun]
    BY <1>10 DEF SyncAbort
  <2>2. faults' \in 0..MaxFaults
    BY <1>10 DEF SyncAbort, Fault, SyncTypeOK
  <2>3. QED
    BY <1>10, <2>1, <2>2, NoRunTyped, <1>run, <1>same, <1>db DEF SyncAbort, SyncTypeOK
<1>11. QED
  BY <1>1, <1>2, <1>3, <1>4, <1>5, <1>6, <1>7, <1>8, <1>9, <1>10 DEF SyncStep

\* A run keeps its validity until it ends.
LEMMA RunsSelectedKept ==
  ASSUME TypeOK, RunsSelected, NEW f \in Synced,
         SyncStep(f) \/ SyncBreak(f) \/ SyncAbort(f)
  PROVE  RunsSelected'
<1>f. f \in Folders /\ sync \in [Folders -> SyncRun] /\ validity[f] \in Validities
  BY SyncedAssumption DEF TypeOK, SyncTypeOK, ServerTypeOK
<1>1. \A g \in Folders \ {f} : sync'[g] = sync[g]
  BY <1>f
  DEF SyncStep, SyncBegin, SyncPurge, SyncReset, SyncFetch, SyncCollect, SyncFlush,
      SyncStreamEnd, SyncFinish, SyncBreak, SyncAbort
<1>2. sync'[f].pc # "idle" => sync'[f].val \in Validities
  <2>1. CASE SyncBegin(f)
    <3>1. PICK pc, last, empty :
            sync'[f] \in {NoRun, [NoRun EXCEPT !.pc = pc, !.last = last,
                                    !.val = validity[f], !.empty = empty]}
      BY <2>1, <1>f DEF SyncBegin
    <3>2. NoRun.pc = "idle" /\ [NoRun EXCEPT !.pc = pc, !.last = last, !.val = validity[f],
                                             !.empty = empty].val = validity[f]
      BY DEF NoRun
    <3> QED
      BY <1>f, <3>1, <3>2
  <2>2. CASE SyncPurge(f) \/ SyncBreak(f)
    BY <2>2, <1>f DEF SyncPurge, SyncBreak, RunsSelected, SyncRun
  <2>3. CASE SyncReset(f)
    BY <2>3, <1>f DEF SyncReset, RunsSelected, SyncRun, NoRun
  <2>4. CASE SyncFetch(f)
    BY <2>4, <1>f DEF SyncFetch, RunsSelected, SyncRun, NoRun
  <2>5. CASE SyncCollect(f)
    <3>1. \E u : sync'[f] \in {Collected(sync[f], u), CollectSkipped(sync[f], u),
                              CollectedBare(sync[f], u)}
      BY <2>5, <1>f DEF SyncCollect
    <3>2. sync'[f].val = sync[f].val
      BY <3>1, <1>f DEF Collected, CollectSkipped, CollectedBare, SyncRun
    <3>3. sync[f].pc # "idle"
      BY <2>5 DEF SyncCollect
    <3> QED
      BY <3>2, <3>3 DEF RunsSelected
  <2>6. CASE SyncFlush(f)
    BY <2>6, <1>f DEF SyncFlush, Flushed, RunsSelected, SyncRun
  <2>7. CASE SyncStreamEnd(f)
    BY <2>7, <1>f DEF SyncStreamEnd, RunsSelected, SyncRun, NoRun
  <2>8. CASE SyncFinish(f) \/ SyncAbort(f)
    BY <2>8, <1>f DEF SyncFinish, SyncAbort, NoRun
  <2>9. QED
    BY <2>1, <2>2, <2>3, <2>4, <2>5, <2>6, <2>7, <2>8 DEF SyncStep
<1>3. QED
  BY <1>1, <1>2, SyncedAssumption DEF RunsSelected

\* Every step of a delete_mail call keeps the variables well-formed.
LEMMA DeleteStepTyped ==
  ASSUME TypeInv, NEW d \in Deleters, DeleteStep(d)
  PROVE  TypeInv'
<1> USE BoundsAreNumbers DEF TypeInv, TypeOK
<1>d. del \in [Deleters -> DeleteCall] /\ del[d].folder \in Folders /\ del[d].uid \in Uids
  BY DEF DeleteTypeOK, DeleteCall
<1>server. UNCHANGED serverVars => ServerTypeOK'
  BY DEF serverVars, ServerTypeOK
<1>db. UNCHANGED dbVars => DBTypeOK'
  BY DEF dbVars, DBTypeOK
<1>sync. /\ UNCHANGED syncVars => SyncTypeOK' /\ RunsSelected'
         /\ UNCHANGED <<sync, forgone>> /\ faults' \in 0..MaxFaults => SyncTypeOK' /\ RunsSelected'
  BY DEF syncVars, SyncTypeOK, RunsSelected
<1>goto. ASSUME NEW pc \in DeletePcs \ {"move"}, Goto(d, pc)
         PROVE  DeleteTypeOK' /\ MoversHaveTrash'
  BY <1>d, <1>goto DEF Goto, DeleteTypeOK, DeleteCall, MoversHaveTrash
<1>1. ASSUME NEW f \in Synced, NEW u \in Uids, DeleteLookup(d, f, u)
      PROVE  TypeInv'
  <2>1. f \in Folders /\ entries[f][u] \in MsgOrNone
    BY SyncedAssumption DEF DBTypeOK
  <2>2. [NotCalled EXCEPT !.pc = "move", !.folder = f, !.uid = u, !.asked = entries[f][u]]
          \in DeleteCall
    BY <2>1 DEF NotCalled, DeleteCall, DeletePcs, MsgOrNone
  <2>3. DeleteTypeOK'
    BY <1>1, <2>2 DEF DeleteLookup, DeleteTypeOK
  <2>4. MoversHaveTrash'
    BY <1>1, <1>d, TrashAssumption DEF DeleteLookup, MoversHaveTrash
  <2>5. QED
    BY <1>1, <2>3, <2>4, <1>server, <1>db, <1>sync DEF DeleteLookup
<1>2. ASSUME NEW f \in Synced, NEW u \in Uids, DeleteRefused(d, f, u)
      PROVE  TypeInv'
  BY <1>2, <1>goto, <1>server, <1>db, <1>sync DEF DeleteRefused, DeletePcs
<1>3. CASE DeleteMove(d)
  <2>1. Trash \in Folders
    BY <1>3 DEF UidSet, DeleteMove, MoversHaveTrash
  <2>2. ServerTypeOK'
    BY <1>3, <1>d, <2>1, ServerStepTyped DEF UidSet, DeleteMove
  <2>3. MessageAt(del[d].folder, del[d].uid) \in MsgOrNone
    BY <1>d DEF MessageAt, ServerTypeOK
  <2>4. PICK pc \in {"fts", "error"} :
          del' = [del EXCEPT ![d].pc = pc,
                             ![d].moved = MessageAt(del[d].folder, del[d].uid)]
    BY <1>3 DEF UidSet, DeleteMove, AfterDelete
  <2>5. DeleteTypeOK' /\ MoversHaveTrash'
    <3>1. del'[d] \in DeleteCall /\ \A e \in Deleters \ {d} : del'[e] = del[e]
      BY <1>d, <2>3, <2>4 DEF DeleteTypeOK, DeleteCall, DeletePcs
    <3>2. del' \in [Deleters -> DeleteCall]
      BY <1>d, <2>3, <2>4, <3>1 DEF DeleteTypeOK
    <3> QED
      BY <2>1, <3>2 DEF DeleteTypeOK, MoversHaveTrash
  <2>6. faults' \in 0..MaxFaults
    BY <1>3, SyncAssumption DEF UidSet, DeleteMove, Fault, SyncTypeOK
  <2>7. QED
    BY <1>3, <2>2, <2>5, <2>6, <1>db, <1>sync DEF UidSet, DeleteMove
<1>4. CASE DeleteMoveNothing(d)
  BY <1>4, <1>goto, <1>server, <1>db, <1>sync DEF UidSet, DeleteMoveNothing, AfterDelete, DeletePcs
<1>5. CASE DeleteMoveFailed(d)
  <2>1. faults' \in 0..MaxFaults
    BY <1>5, SyncAssumption DEF DeleteMoveFailed, Fault, SyncTypeOK
  <2>2. QED
    BY <1>5, <2>1, <1>goto, <1>server, <1>db, <1>sync
    DEF DeleteMoveFailed, AfterMoveFailed, DeletePcs
<1>past. ASSUME del[d].pc \in {"fts", "content", "entry"}
         PROVE  AfterDelete(del[d].pc) \in DeletePcs \ {"move"}
  BY <1>past DEF AfterDelete, DeletePcs
<1>6. CASE DeleteRows(d)
  <2>1. DBTypeOK'
    BY <1>6, <1>d, StatementTyped DEF DeleteRows, FirstDelete, SecondDelete, LastDelete
  <2>2. forgone' \in [Folders -> SUBSET Uids]
    BY <1>6, <1>d DEF DeleteRows, FirstDelete, SecondDelete, LastDelete, SyncTypeOK
  <2>3. del[d].pc \in {"fts", "content", "entry"}
    BY <1>6 DEF DeleteRows, FirstDelete, SecondDelete, LastDelete
  <2>4. SyncTypeOK' /\ RunsSelected'
    BY <1>6, <2>2 DEF DeleteRows, SyncTypeOK, RunsSelected
  <2>5. QED
    BY <1>6, <2>1, <2>3, <2>4, <1>past, <1>goto, <1>server DEF DeleteRows
<1>7. CASE DeleteRowsFailed(d)
  <2>1. faults' \in 0..MaxFaults
    BY <1>7, SyncAssumption DEF DeleteRowsFailed, Fault, SyncTypeOK
  <2>2. QED
    BY <1>7, <2>1, <1>past, <1>goto, <1>server, <1>db, <1>sync DEF DeleteRowsFailed
<1>8. QED
  BY <1>1, <1>2, <1>3, <1>4, <1>5, <1>6, <1>7 DEF DeleteStep

\* A crash leaves every call idle, finished or lost.
LEMMA CrashTyped ==
  ASSUME TypeInv, Crash
  PROVE  TypeInv'
<1> USE BoundsAreNumbers, SyncAssumption DEF TypeInv, TypeOK
<1>1. ServerTypeOK' /\ DBTypeOK'
  BY DEF Crash, serverVars, dbVars, ServerTypeOK, DBTypeOK
<1>2. SyncTypeOK' /\ RunsSelected'
  BY NoRunTyped, SyncedAssumption DEF Crash, SyncLost, Fault, SyncTypeOK, RunsSelected, NoRun
<1>3. DeleteTypeOK' /\ MoversHaveTrash'
  BY DEF Crash, DeleteTypeOK, DeleteCall, DeletePcs, MoversHaveTrash
<1>4. QED
  BY <1>1, <1>2, <1>3

LEMMA TypeInvInit == Init => TypeInv
<1> USE BoundsAreNumbers, SyncAssumption DEF TypeInv, TypeOK
<1> SUFFICES ASSUME Init PROVE TypeInv
  OBVIOUS
<1>1. ServerTypeOK
  BY DEF Init, ServerInit, ServerTypeOK, Uids, Validities, MsgOrNone
<1>2. DBTypeOK
  BY DEF Init, DBInit, DBTypeOK, MsgOrNone
<1>3. SyncTypeOK /\ RunsSelected
  BY NoRunTyped, SyncedAssumption DEF Init, SyncInit, SyncTypeOK, RunsSelected, NoRun
<1>4. NotCalled \in DeleteCall /\ NotCalled.pc = "idle"
  BY ServerAssumption DEF NotCalled, DeleteCall, DeletePcs, Uids, MsgOrNone
<1>5. DeleteTypeOK /\ MoversHaveTrash
  BY <1>4 DEF Init, DeleteInit, DeleteTypeOK, MoversHaveTrash
<1>6. QED
  BY <1>1, <1>2, <1>3, <1>5

LEMMA TypeInvKept == TypeInv /\ [Next]_vars => TypeInv'
<1> SUFFICES ASSUME TypeInv, [Next]_vars PROVE TypeInv'
  OBVIOUS
<1>1. CASE ServerStep
  <2>1. ServerTypeOK'
    BY <1>1, ServerStepTyped DEF ServerStep, TypeInv, TypeOK
  <2>2. QED
    BY <1>1, <2>1
    DEF ServerStep, TypeInv, TypeOK, dbVars, syncVars, DBTypeOK, SyncTypeOK,
        DeleteTypeOK, RunsSelected, MoversHaveTrash
<1>2. ASSUME NEW f \in Synced, SyncStep(f) \/ SyncBreak(f) \/ SyncAbort(f), UNCHANGED del
      PROVE  TypeInv'
  BY <1>2, SyncStepTyped, RunsSelectedKept
  DEF TypeInv, TypeOK, DeleteTypeOK, MoversHaveTrash
<1>3. CASE \E d \in Deleters : DeleteStep(d)
  BY <1>3, DeleteStepTyped
<1>4. CASE Crash
  BY <1>4, CrashTyped
<1>5. CASE UNCHANGED vars
  BY <1>5
  DEF vars, serverVars, dbVars, syncVars, TypeInv, TypeOK, ServerTypeOK, DBTypeOK,
      SyncTypeOK, DeleteTypeOK, RunsSelected, MoversHaveTrash
<1>6. QED
  BY <1>1, <1>2, <1>3, <1>4, <1>5 DEF Next

\* Every variable keeps values of its sort, for any number of folders, messages
\* and calls and any faults.
THEOREM TypeCorrect == Spec => []TypeOK
<1>1. TypeInv => TypeOK
  BY DEF TypeInv
<1>2. QED
  BY <1>1, TypeInvInit, TypeInvKept, PTL DEF Spec
=============================================================================
