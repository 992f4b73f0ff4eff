-------------------------- MODULE MailShadowSafety --------------------------
(***************************************************************************)
(* The safety properties of MailShadow, by the inductive invariant SyncInv *)
(* of MailShadowInv.  One lemma says what may change around a run that     *)
(* does not move itself (QuietStep); then there is one per step of a run.  *)
(***************************************************************************)
EXTENDS MailShadowTypes

\* What the type invariant says of one synced folder.
LEMMA FolderTyped ==
  ASSUME TypeInv, NEW f \in Synced
  PROVE  /\ f \in Folders
         /\ mbox[f] \in SUBSET Uids
         /\ uidNext[f] \in Nat
         /\ validity[f] \in Nat \ {0}
         /\ entries[f] \in [Uids -> MsgOrNone]
         /\ lastUid[f] \in 0..MaxUid
         /\ storedVal[f] \in Nat
         /\ sync[f] \in SyncRun
         /\ sync[f].val \in Nat
         /\ sync[f].pc # "idle" => sync[f].val # 0
         /\ forgone[f] \in SUBSET Uids
<1> USE SyncedAssumption, BoundsAreNumbers
    DEF TypeInv, TypeOK, ServerTypeOK, DBTypeOK, SyncTypeOK, Validities
<1>1. sync[f] \in SyncRun
  OBVIOUS
<1>2. sync[f].val \in Nat
  BY <1>1 DEF SyncRun
<1>3. QED
  BY <1>1, <1>2 DEF RunsSelected

\* UIDs are numbers.
LEMMA UidsAreNumbers == Uids \subseteq Nat \ {0}
BY BoundsAreNumbers DEF Uids

\* A run that does not move keeps its folder's invariant when messages come and
\* go under the same numbering, and rows go whose message is gone or given up.
LEMMA QuietStep ==
  ASSUME TypeInv, TypeInv', NEW f \in Synced, FolderInv(f),
         sync'[f] = sync[f],
         validity'[f] = validity[f],
         storedVal'[f] = storedVal[f],
         lastUid'[f] = lastUid[f],
         uidNext[f] <= uidNext'[f],
         \A u \in mbox'[f] : u < uidNext'[f] /\ (u \in mbox[f] \/ u = uidNext[f]),
         \A u \in Uids : u < uidNext[f] => MessageAt(f, u)' = MessageAt(f, u),
         \A u \in Uids : entries'[f][u] \in {entries[f][u], Absent},
         \A u \in mbox[f] : Known(f, u) => Known(f, u)',
         forgone[f] \subseteq forgone'[f]
  PROVE  FolderInv(f)'
<1> USE UidsAreNumbers
<1>t. /\ uidNext[f] \in Nat /\ uidNext'[f] \in Nat
      /\ sync[f].stream \in SUBSET Uids
      /\ sync[f].batch \in SUBSET Uids
      /\ mbox[f] \in SUBSET Uids /\ mbox'[f] \in SUBSET Uids
      /\ lastUid[f] \in Nat
  <2>1. sync[f] \in SyncRun /\ lastUid[f] \in 0..MaxUid /\ mbox[f] \in SUBSET Uids
    BY FolderTyped
  <2>2. uidNext[f] \in Nat /\ uidNext'[f] \in Nat /\ mbox'[f] \in SUBSET Uids
    BY SyncedAssumption, BoundsAreNumbers DEF TypeInv, TypeOK, ServerTypeOK
  <2>3. QED
    BY <2>1, <2>2, BoundsAreNumbers DEF SyncRun
<1>2. ValiditiesInOrder(f)' /\ PurgeWhenStale(f)'
  BY DEF FolderInv, ValiditiesInOrder, PurgeWhenStale
<1>3. RowsGiven(f)'
  <2>1. ASSUME Recorded(f)
        PROVE  /\ lastUid'[f] < uidNext'[f]
               /\ \A u \in Uids : entries'[f][u] # Absent =>
                    u < uidNext'[f] /\ entries'[f][u] = MessageAt(f, u)'
    <3>1. /\ lastUid[f] < uidNext[f]
          /\ \A u \in Uids : entries[f][u] # Absent =>
               u < uidNext[f] /\ entries[f][u] = MessageAt(f, u)
      BY <2>1 DEF FolderInv, RowsGiven
    <3>2. QED
      BY <3>1, <1>t
  <2>2. QED
    BY <2>1 DEF RowsGiven, Recorded
<1>4. NoGapIn(f)'
  BY <1>t DEF FolderInv, NoGapIn, RowsGiven, Recorded
<1>5. StreamInOrder(f)'
  <2>1. /\ sync'[f].pc = "fetch" => sync'[f].last = lastUid'[f]
        /\ sync'[f].pc # "collect" => sync'[f].batch = {} /\ sync'[f].bare = {}
    BY DEF FolderInv, StreamInOrder
  <2>2. ASSUME sync'[f].pc = "collect"
        PROVE  /\ sync'[f].bare \subseteq sync'[f].batch
               /\ \A b \in sync'[f].batch, x \in sync'[f].stream : b < x
    BY <2>2 DEF FolderInv, StreamInOrder
  <2>3. ASSUME sync'[f].pc = "collect", sync'[f].val = validity'[f]
        PROVE  /\ sync'[f].bare \subseteq forgone'[f]
               /\ \A x \in Held(f)' : x < uidNext'[f]
               /\ \A x \in Held(f)', u \in mbox'[f] :
                    u < x => Known(f, u)' \/ u \in Held(f)'
               /\ \A x \in Held(f)', u \in mbox'[f] : x < u => lastUid'[f] < u
    <3>1. Held(f)' = Held(f) /\ \A x \in Held(f) : x \in Nat
      BY <1>t DEF Held
    <3>2. \A x \in Held(f) : x < uidNext[f]
      BY <2>3 DEF FolderInv, StreamInOrder
    <3>3. \A x \in Held(f), u \in mbox[f] : u < x => Known(f, u) \/ u \in Held(f)
      BY <2>3 DEF FolderInv, StreamInOrder
    <3>4. sync[f].bare \subseteq forgone[f]
      BY <2>3 DEF FolderInv, StreamInOrder
    <3>5. ASSUME NEW x \in Held(f)', NEW u \in mbox'[f], u < x
          PROVE  Known(f, u)' \/ u \in Held(f)'
      <4>1. u \in mbox[f]
        BY <3>1, <3>2, <3>5, <1>t
      <4>2. QED
        BY <4>1, <3>1, <3>3, <3>5
    <3>6. \A x \in Held(f)' : x < uidNext'[f]
      BY <3>1, <3>2, <1>t
    <3>7. lastUid[f] < uidNext[f]
      BY <2>3 DEF FolderInv, PurgeWhenStale, RowsGiven, Recorded
    <3>8. \A x \in Held(f), u \in mbox[f] : x < u => lastUid[f] < u
      BY <2>3 DEF FolderInv, StreamInOrder
    <3>9. \A x \in Held(f)', u \in mbox'[f] : x < u => lastUid'[f] < u
      BY <3>1, <3>7, <3>8
    <3>10. QED
      BY <3>4, <3>5, <3>6, <3>9
  <2>4. QED
    BY <2>1, <2>2, <2>3 DEF StreamInOrder
<1>6. QED
  BY <1>2, <1>3, <1>4, <1>5 DEF FolderInv

-----------------------------------------------------------------------------
(* The steps of a run.                                                     *)

\* A step of a run moves nothing of another folder.
LEMMA OthersKeep ==
  ASSUME TypeInv, NEW f \in Synced, NEW g \in Synced \ {f},
         SyncStep(f) \/ SyncBreak(f) \/ SyncAbort(f)
  PROVE  /\ sync'[g] = sync[g]
         /\ entries'[g] = entries[g]
         /\ lastUid'[g] = lastUid[g]
         /\ storedVal'[g] = storedVal[g]
         /\ forgone'[g] = forgone[g]
<1> USE SyncedAssumption DEF TypeInv, TypeOK, SyncTypeOK, DBTypeOK
<1>1. CASE SyncBegin(f) \/ SyncFetch(f) \/ SyncStreamEnd(f) \/ SyncBreak(f) \/ SyncAbort(f)
  BY <1>1 DEF SyncBegin, SyncFetch, SyncStreamEnd, SyncBreak, SyncAbort, dbVars
<1>2. CASE SyncPurge(f)
  BY <1>2 DEF SyncPurge, PurgeEntries
<1>3. CASE SyncReset(f)
  BY <1>3 DEF SyncReset, ResetSyncState
<1>4. CASE SyncCollect(f)
  BY <1>4 DEF SyncCollect, dbVars
<1>5. CASE SyncFlush(f)
  BY <1>5 DEF SyncFlush, ImportMessageBatch, InsertRows, UpdateLastUID
<1>6. CASE SyncFinish(f)
  BY <1>6 DEF SyncFinish, PersistUIDValidity, dbVars
<1>7. QED
  BY <1>1, <1>2, <1>3, <1>4, <1>5, <1>6 DEF SyncStep

\* While a run only moves through its own steps, what the server and the tables
\* say of the folder stays as it is.
LEMMA TablesKeep ==
  ASSUME TypeInv, NEW f \in Synced, FolderInv(f),
         UNCHANGED serverVars, UNCHANGED dbVars, forgone[f] \subseteq forgone'[f]
  PROVE  RowsGiven(f)' /\ NoGapIn(f)'
BY DEF serverVars, dbVars, FolderInv, RowsGiven, NoGapIn, Recorded, MessageAt, Known

\* A run that has ended, or has not begun, constrains nothing.
LEMMA RunEnds ==
  ASSUME TypeInv, NEW f \in Synced, FolderInv(f),
         UNCHANGED serverVars, UNCHANGED dbVars, forgone'[f] = forgone[f],
         sync'[f] = NoRun
  PROVE  FolderInv(f)'
<1>1. RowsGiven(f)' /\ NoGapIn(f)'
  BY TablesKeep
<1>2. ValiditiesInOrder(f)' /\ PurgeWhenStale(f)' /\ StreamInOrder(f)'
  BY DEF NoRun, serverVars, dbVars, FolderInv, ValiditiesInOrder, PurgeWhenStale, StreamInOrder
<1>3. QED
  BY <1>1, <1>2 DEF FolderInv

LEMMA BeginKeeps ==
  ASSUME TypeInv, NEW f \in Synced, FolderInv(f), SyncBegin(f)
  PROVE  FolderInv(f)'
<1>t. /\ sync \in [Folders -> SyncRun] /\ f \in Folders
      /\ storedVal[f] \in Nat /\ validity[f] \in Nat \ {0}
  BY FolderTyped DEF TypeInv, TypeOK, SyncTypeOK
<1>1. UNCHANGED <<serverVars, dbVars, faults, forgone>>
  BY DEF SyncBegin
<1>2. CASE sync'[f] = NoRun
  BY <1>1, <1>2, RunEnds
<1>3. CASE sync'[f] # NoRun
  <2>1. /\ sync'[f].pc \in {"purge", "fetch"}
        /\ sync'[f].pc = "purge" <=> ValidityChanged(storedVal[f], validity[f])
        /\ sync'[f].val = validity[f]
        /\ sync'[f].last = lastUid[f]
        /\ sync'[f].batch = {} /\ sync'[f].bare = {}
    BY <1>t, <1>3
    DEF SyncBegin, NoRun, GetLastUID, GetStoredUIDValidity, AfterCheck
  <2>2. ValiditiesInOrder(f)'
    BY <1>t, <1>1, <2>1 DEF FolderInv, ValiditiesInOrder, serverVars, dbVars
  <2>3. PurgeWhenStale(f)'
    BY <1>t, <1>1, <2>1 DEF PurgeWhenStale, ValidityChanged, serverVars, dbVars
  <2>4. StreamInOrder(f)'
    BY <1>1, <2>1 DEF StreamInOrder, dbVars
  <2>5. QED
    BY <1>1, <2>2, <2>3, <2>4, TablesKeep DEF FolderInv
<1>4. QED
  BY <1>2, <1>3

LEMMA PurgeKeeps ==
  ASSUME TypeInv, NEW f \in Synced, FolderInv(f), SyncPurge(f)
  PROVE  FolderInv(f)'
<1>t. /\ sync \in [Folders -> SyncRun] /\ f \in Folders /\ sync[f] \in SyncRun
      /\ entries \in [Folders -> [Uids -> MsgOrNone]]
      /\ storedVal[f] \in Nat /\ validity[f] \in Nat \ {0} /\ sync[f].val \in Nat
  BY FolderTyped DEF TypeInv, TypeOK, SyncTypeOK, DBTypeOK
<1>1. /\ sync[f].pc = "purge"
      /\ sync'[f].pc = "reset" /\ sync'[f].val = sync[f].val
      /\ sync'[f].batch = sync[f].batch /\ sync'[f].bare = sync[f].bare
      /\ \A u \in Uids : entries'[f][u] = Absent
      /\ UNCHANGED <<lastUid, storedVal, mbox, minted, uidNext, validity, forgone>>
  BY <1>t DEF SyncPurge, PurgeEntries, SyncRun, serverVars
<1>2. ValiditiesInOrder(f)' /\ PurgeWhenStale(f)'
  BY <1>t, <1>1 DEF FolderInv, ValiditiesInOrder, PurgeWhenStale
<1>3. ~ Recorded(f)'
  <2>1. storedVal[f] \notin {0, sync[f].val} /\ storedVal[f] <= sync[f].val /\ sync[f].val <= validity[f]
    BY <1>1 DEF FolderInv, ValiditiesInOrder, PurgeWhenStale
  <2>2. storedVal[f] \notin {0, validity[f]}
    BY <2>1, <1>t
  <2>3. QED
    BY <2>2, <1>1 DEF Recorded
<1>4. RowsGiven(f)' /\ NoGapIn(f)' /\ StreamInOrder(f)'
  BY <1>1, <1>3 DEF FolderInv, RowsGiven, NoGapIn, StreamInOrder
<1>5. QED
  BY <1>2, <1>4 DEF FolderInv

LEMMA ResetKeeps ==
  ASSUME TypeInv, NEW f \in Synced, FolderInv(f), SyncReset(f)
  PROVE  FolderInv(f)'
<1>t. /\ sync \in [Folders -> SyncRun] /\ f \in Folders /\ sync[f] \in SyncRun
      /\ lastUid \in [Folders -> 0..MaxUid] /\ storedVal \in [Folders -> 0..MaxValidity]
      /\ mbox[f] \in SUBSET Uids /\ uidNext[f] \in Nat \ {0}
      /\ validity[f] \in Nat \ {0} /\ sync[f].val \in Nat
  BY FolderTyped, BoundsAreNumbers DEF TypeInv, TypeOK, SyncTypeOK, DBTypeOK, ServerTypeOK
<1>1. /\ sync[f].pc = "reset"
      /\ lastUid'[f] = 0 /\ storedVal'[f] = sync[f].val
      /\ UNCHANGED <<entries, mbox, minted, uidNext, validity>>
  BY <1>t DEF SyncReset, ResetSyncState, serverVars
<1>2. /\ sync'[f].pc \in {"idle", "fetch"}
      /\ sync'[f].pc = "fetch" => sync'[f].val = sync[f].val /\ sync'[f].last = 0
      /\ \/ sync'[f].batch = {} /\ sync'[f].bare = {}
         \/ sync'[f].batch = sync[f].batch /\ sync'[f].bare = sync[f].bare
  BY <1>t DEF SyncReset, AfterCheck, NoRun, SyncRun
<1>3. \A u \in Uids : entries[f][u] = Absent
  BY <1>1 DEF FolderInv, PurgeWhenStale
<1>4. sync[f].val # 0 /\ sync[f].val <= validity[f]
  BY <1>1, <1>t DEF TypeInv, RunsSelected, Validities, FolderInv, ValiditiesInOrder
<1>5. ValiditiesInOrder(f)' /\ PurgeWhenStale(f)'
  BY <1>t, <1>1, <1>2, <1>4 DEF ValiditiesInOrder, PurgeWhenStale
<1>6. RowsGiven(f)' /\ NoGapIn(f)'
  <2>2. RowsGiven(f)'
    BY <1>t, <1>1, <1>3 DEF RowsGiven
  <2>3. \A u \in mbox[f] : ~ (u <= 0)
    <3>1. \A u \in mbox[f] : u \in Nat \ {0}
      BY <1>t, UidsAreNumbers, Zenon
    <3>2. QED
      BY <3>1
  <2>4. NoGapIn(f)'
    BY <1>1, <2>3 DEF NoGapIn
  <2>5. QED
    BY <2>2, <2>4
<1>7. StreamInOrder(f)'
  BY <1>1, <1>2 DEF FolderInv, StreamInOrder
<1>8. QED
  BY <1>5, <1>6, <1>7 DEF FolderInv

LEMMA FetchKeeps ==
  ASSUME TypeInv, NEW f \in Synced, UidsGiven(f), FolderInv(f), SyncFetch(f)
  PROVE  FolderInv(f)'
<1>t. /\ sync \in [Folders -> SyncRun] /\ f \in Folders /\ sync[f] \in SyncRun
      /\ mbox[f] \in SUBSET Uids /\ uidNext[f] \in Nat /\ lastUid[f] \in Nat
      /\ validity[f] \in Nat \ {0}
  BY FolderTyped, BoundsAreNumbers DEF TypeInv, TypeOK, SyncTypeOK
<1>1. UNCHANGED <<serverVars, dbVars, faults, forgone>> /\ sync[f].pc = "fetch"
  BY DEF SyncFetch
<1>2. CASE sync'[f] = NoRun
  BY <1>1, <1>2, RunEnds
<1>3. CASE sync'[f] # NoRun
  <2>0. sync'[f] = [sync[f] EXCEPT !.pc = "collect", !.stream = FetchRange(f, sync[f].last)]
    BY <1>t, <1>3 DEF SyncFetch
  <2>1. /\ sync'[f].pc = "collect" /\ sync'[f].val = sync[f].val
        /\ sync'[f].stream = FetchRange(f, sync[f].last)
        /\ sync'[f].batch = sync[f].batch /\ sync'[f].bare = sync[f].bare
        /\ sync[f].val = validity[f]
    BY <1>t, <1>3, <2>0 DEF SyncFetch, SyncRun
  <2>2. ValiditiesInOrder(f)' /\ PurgeWhenStale(f)'
    BY <1>1, <2>1 DEF FolderInv, ValiditiesInOrder, PurgeWhenStale, serverVars, dbVars
  <2>3. sync[f].batch = {} /\ sync[f].bare = {} /\ sync[f].last = lastUid[f]
    BY <1>1 DEF FolderInv, StreamInOrder
  <2>4. Recorded(f)
    BY <1>1, <2>1 DEF FolderInv, PurgeWhenStale, Recorded
  <2>5. Held(f)' = FetchRange(f, lastUid[f]) /\ FetchRange(f, lastUid[f]) \subseteq mbox[f]
    BY <2>1, <2>3 DEF Held, FetchRange
  <2>6. ASSUME NEW x \in Held(f)', NEW u \in mbox[f], u < x
        PROVE  Known(f, u) \/ u \in Held(f)'
    <3>1. CASE u <= lastUid[f]
      BY <3>1, <2>4 DEF FolderInv, NoGapIn
    <3>2. CASE u > lastUid[f]
      BY <3>2, <2>5 DEF FetchRange
    <3>3. u \in Nat /\ lastUid[f] \in Nat
      BY <1>t, UidsAreNumbers
    <3>4. QED
      BY <3>1, <3>2, <3>3
  <2>7. StreamInOrder(f)'
    <3>1. \A x \in Held(f)' : x < uidNext'[f]
      BY <1>1, <2>5 DEF UidsGiven, serverVars
    <3>2. \A x \in Held(f)', u \in mbox'[f] : u < x => Known(f, u)' \/ u \in Held(f)'
      BY <1>1, <2>6 DEF Known, serverVars, dbVars
    <3>3. ASSUME NEW x \in Held(f)', NEW u \in mbox[f], x < u
          PROVE  lastUid[f] < u
      <4>1. u \in Nat /\ x \in Nat /\ lastUid[f] \in Nat
        BY <1>t, <2>5, UidsAreNumbers
      <4>2. x > lastUid[f] \/ u <= x
        BY <2>5 DEF FetchRange
      <4>3. QED
        BY <3>3, <4>1, <4>2
    <3>4. QED
      BY <1>1, <2>1, <2>3, <3>1, <3>2, <3>3 DEF StreamInOrder, serverVars, dbVars
  <2>8. QED
    BY <1>1, <2>2, <2>7, TablesKeep DEF FolderInv
<1>4. QED
  BY <1>2, <1>3

LEMMA CollectKeeps ==
  ASSUME TypeInv, NEW f \in Synced, FolderInv(f), SyncCollect(f)
  PROVE  FolderInv(f)'
<1> DEFINE u == NextOf(sync[f])
<1>t. /\ sync \in [Folders -> SyncRun] /\ f \in Folders /\ sync[f] \in SyncRun
      /\ forgone \in [Folders -> SUBSET Uids]
      /\ sync[f].stream \in SUBSET Uids /\ sync[f].batch \in SUBSET Uids
      /\ mbox[f] \in SUBSET Uids
  BY FolderTyped DEF TypeInv, TypeOK, SyncTypeOK, SyncRun
<1>1. UNCHANGED <<serverVars, dbVars>> /\ sync[f].pc = "collect"
  BY DEF SyncCollect
<1>2. u \in sync[f].stream /\ \A w \in sync[f].stream : u <= w
  BY <1>t, NextOfTyped DEF SyncCollect
<1>3. \/ /\ sync' = [sync EXCEPT ![f] = Collected(sync[f], u)]
         /\ UNCHANGED forgone
      \/ /\ \/ sync' = [sync EXCEPT ![f] = CollectSkipped(sync[f], u)]
            \/ sync' = [sync EXCEPT ![f] = CollectedBare(sync[f], u)]
         /\ forgone' = [forgone EXCEPT ![f] = @ \cup {u}]
  BY DEF SyncCollect
<1>4. /\ sync'[f].pc = "collect" /\ sync'[f].val = sync[f].val
      /\ sync'[f].stream = sync[f].stream \ {u}
      /\ sync'[f].batch \in {sync[f].batch, sync[f].batch \cup {u}}
      /\ sync'[f].bare \in {sync[f].bare, sync[f].bare \cup {u}}
      /\ sync'[f].bare # sync[f].bare => u \in sync'[f].batch /\ u \in forgone'[f]
      /\ u \notin sync'[f].batch => u \in forgone'[f]
      /\ forgone[f] \subseteq forgone'[f]
  <2>1. CASE sync' = [sync EXCEPT ![f] = Collected(sync[f], u)] /\ UNCHANGED forgone
    BY <1>t, <1>1, <2>1 DEF Collected, SyncRun
  <2>2. CASE /\ sync' = [sync EXCEPT ![f] = CollectSkipped(sync[f], u)]
             /\ forgone' = [forgone EXCEPT ![f] = @ \cup {u}]
    BY <1>t, <1>1, <2>2 DEF CollectSkipped, SyncRun
  <2>3. CASE /\ sync' = [sync EXCEPT ![f] = CollectedBare(sync[f], u)]
             /\ forgone' = [forgone EXCEPT ![f] = @ \cup {u}]
    BY <1>t, <1>1, <2>3 DEF CollectedBare, SyncRun
  <2>4. QED
    BY <1>3, <2>1, <2>2, <2>3
<1>5. ValiditiesInOrder(f)' /\ PurgeWhenStale(f)'
  BY <1>1, <1>4 DEF FolderInv, ValiditiesInOrder, PurgeWhenStale, serverVars, dbVars
<1>6. /\ sync[f].bare \subseteq sync[f].batch
      /\ \A b \in sync[f].batch, x \in sync[f].stream : b < x
  BY <1>1 DEF FolderInv, StreamInOrder
<1>7. /\ sync'[f].bare \subseteq sync'[f].batch
      /\ \A b \in sync'[f].batch, x \in sync'[f].stream : b < x
  <2>0. u \in Nat /\ \A x \in sync[f].stream : x \in Nat
    BY <1>t, <1>2, UidsAreNumbers
  <2>1. \A x \in sync[f].stream \ {u} : u < x
    BY <2>0, <1>2
  <2>2. QED
    BY <1>4, <1>6, <2>1
<1>8. ASSUME sync'[f].val = validity'[f]
      PROVE  /\ sync'[f].bare \subseteq forgone'[f]
             /\ \A x \in Held(f)' : x < uidNext'[f]
             /\ \A x \in Held(f)', w \in mbox'[f] : w < x => Known(f, w)' \/ w \in Held(f)'
             /\ \A x \in Held(f)', w \in mbox'[f] : x < w => lastUid'[f] < w
  <2>1. /\ sync[f].bare \subseteq forgone[f]
        /\ \A x \in Held(f) : x < uidNext[f]
        /\ \A x \in Held(f), w \in mbox[f] : w < x => Known(f, w) \/ w \in Held(f)
        /\ \A x \in Held(f), w \in mbox[f] : x < w => lastUid[f] < w
    BY <1>1, <1>4, <1>8 DEF FolderInv, StreamInOrder, serverVars
  <2>2. Held(f)' \subseteq Held(f) /\ \A w \in Held(f) : w \in Held(f)' \/ w \in forgone'[f]
    BY <1>2, <1>4 DEF Held
  <2>3. \A w \in mbox[f] : Known(f, w) => Known(f, w)'
    BY <1>1, <1>4 DEF Known, dbVars
  <2>4. sync'[f].bare \subseteq forgone'[f]
    BY <1>4, <2>1
  <2>5. \A w : w \in forgone'[f] => Known(f, w)'
    BY DEF Known
  <2>6. QED
    BY <1>1, <2>1, <2>2, <2>3, <2>4, <2>5 DEF serverVars, dbVars
<1>9. StreamInOrder(f)'
  BY <1>4, <1>7, <1>8 DEF StreamInOrder
<1>10. QED
  BY <1>1, <1>4, <1>5, <1>9, TablesKeep DEF FolderInv

LEMMA StreamEndKeeps ==
  ASSUME TypeInv, NEW f \in Synced, FolderInv(f), SyncStreamEnd(f)
  PROVE  FolderInv(f)'
<1>t. sync \in [Folders -> SyncRun] /\ f \in Folders /\ sync[f] \in SyncRun
  BY FolderTyped DEF TypeInv, TypeOK, SyncTypeOK
<1>1. UNCHANGED <<serverVars, dbVars, faults, forgone>> /\ sync[f].pc = "collect" /\ sync[f].batch = {}
  BY DEF SyncStreamEnd
<1>2. CASE sync'[f] = NoRun
  BY <1>1, <1>2, RunEnds
<1>3. CASE sync'[f] # NoRun
  <2>1. /\ sync'[f].pc = "finish" /\ sync'[f].val = sync[f].val
        /\ sync'[f].batch = sync[f].batch /\ sync'[f].bare = sync[f].bare
    BY <1>t, <1>3 DEF SyncStreamEnd, SyncRun
  <2>2. ValiditiesInOrder(f)' /\ PurgeWhenStale(f)'
    BY <1>1, <2>1 DEF FolderInv, ValiditiesInOrder, PurgeWhenStale, serverVars, dbVars
  <2>3. StreamInOrder(f)'
    BY <1>1, <2>1 DEF FolderInv, StreamInOrder
  <2>4. QED
    BY <1>1, <2>2, <2>3, TablesKeep DEF FolderInv
<1>4. QED
  BY <1>2, <1>3

LEMMA FinishKeeps ==
  ASSUME TypeInv, NEW f \in Synced, FolderInv(f), SyncFinish(f)
  PROVE  FolderInv(f)'
<1>t. /\ sync \in [Folders -> SyncRun] /\ f \in Folders
      /\ storedVal \in [Folders -> 0..MaxValidity]
      /\ validity[f] \in Nat /\ sync[f].val \in Nat /\ sync[f].pc # "idle" => sync[f].val # 0
  BY FolderTyped DEF TypeInv, TypeOK, SyncTypeOK, DBTypeOK
<1>1. UNCHANGED <<serverVars, forgone>> /\ sync[f].pc = "finish" /\ sync'[f] = NoRun
  BY <1>t DEF SyncFinish
<1>2. CASE UNCHANGED dbVars
  BY <1>1, <1>2, RunEnds
<1>3. CASE PersistUIDValidity(f, sync[f].val)
  <2>1. storedVal'[f] = sync[f].val /\ UNCHANGED <<entries, lastUid>>
    BY <1>3, <1>t DEF PersistUIDValidity
  <2>2. sync[f].val <= validity[f] /\ storedVal[f] \in {0, sync[f].val} /\ sync[f].val # 0
    BY <1>1, <1>t DEF FolderInv, ValiditiesInOrder, PurgeWhenStale
  <2>3. Recorded(f)' => Recorded(f)
    BY <1>1, <2>1, <2>2 DEF Recorded, serverVars
  <2>4. ValiditiesInOrder(f)' /\ PurgeWhenStale(f)' /\ StreamInOrder(f)'
    BY <1>1, <2>1, <2>2 DEF ValiditiesInOrder, PurgeWhenStale, StreamInOrder, NoRun, serverVars
  <2>5. RowsGiven(f)' /\ NoGapIn(f)'
    BY <1>1, <2>1, <2>3 DEF FolderInv, RowsGiven, NoGapIn, Known, MessageAt, serverVars
  <2>6. QED
    BY <2>4, <2>5 DEF FolderInv
<1>4. QED
  BY <1>2, <1>3 DEF SyncFinish

LEMMA BreakKeeps ==
  ASSUME TypeInv, NEW f \in Synced, FolderInv(f), SyncBreak(f)
  PROVE  FolderInv(f)'
<1>t. /\ sync \in [Folders -> SyncRun] /\ f \in Folders /\ sync[f] \in SyncRun
      /\ \A x \in Held(f) : x \in Nat
  BY FolderTyped, UidsAreNumbers DEF TypeInv, TypeOK, SyncTypeOK, SyncRun, Held
<1>1. UNCHANGED <<serverVars, dbVars, forgone>> /\ sync[f].pc = "collect"
  BY DEF SyncBreak
<1>2. /\ sync'[f].pc = "collect" /\ sync'[f].val = sync[f].val /\ sync'[f].stream = {}
      /\ sync'[f].batch = sync[f].batch /\ sync'[f].bare = sync[f].bare
  BY <1>t, <1>1 DEF SyncBreak, SyncRun
<1>3. ValiditiesInOrder(f)' /\ PurgeWhenStale(f)'
  BY <1>1, <1>2 DEF FolderInv, ValiditiesInOrder, PurgeWhenStale, serverVars, dbVars
<1>4. ASSUME NEW x \in sync[f].batch, NEW w \in Held(f), w < x
      PROVE  w \in sync[f].batch
  <2>1. x \in Nat /\ w \in Nat
    BY <1>t DEF Held
  <2>2. w \in sync[f].stream => x < w
    BY <1>1 DEF FolderInv, StreamInOrder
  <2>3. QED
    BY <1>4, <2>1, <2>2 DEF Held
<1>5. Held(f)' = sync[f].batch /\ sync[f].batch \subseteq Held(f)
  BY <1>2 DEF Held
<1>6. StreamInOrder(f)'
  BY <1>1, <1>2, <1>4, <1>5 DEF FolderInv, StreamInOrder, Known, serverVars, dbVars
<1>7. QED
  BY <1>1, <1>3, <1>6, TablesKeep DEF FolderInv

\* A run whose folder was renumbered under it can trust nothing it recorded.
LEMMA StaleRun ==
  ASSUME TypeInv, NEW f \in Synced, FolderInv(f),
         sync[f].pc \in {"fetch", "collect", "finish"}, sync[f].val # validity[f]
  PROVE  ~ Recorded(f)
<1>1. /\ storedVal[f] \in Nat /\ validity[f] \in Nat
      /\ sync[f].val \in Nat /\ sync[f].val # 0
  BY FolderTyped
<1>2. /\ storedVal[f] = 0 => validity[f] = 1
      /\ sync[f].val <= validity[f]
      /\ storedVal[f] \in {0, sync[f].val}
  BY DEF FolderInv, ValiditiesInOrder, PurgeWhenStale
<1>3. QED
  BY <1>1, <1>2 DEF Recorded

\* The import: the rows are the stream's messages, last_uid the highest of them,
\* and what the batch held is known afterwards.
LEMMA FlushKeeps ==
  ASSUME TypeInv, NEW f \in Synced, UidsGiven(f), FolderInv(f), SyncFlush(f)
  PROVE  FolderInv(f)'
<1> DEFINE us == sync[f].batch \ sync[f].bare
           val == sync[f].val
<1>t. /\ sync \in [Folders -> SyncRun] /\ f \in Folders /\ sync[f] \in SyncRun
      /\ entries \in [Folders -> [Uids -> MsgOrNone]]
      /\ lastUid \in [Folders -> 0..MaxUid]
      /\ us \in SUBSET Uids /\ mbox[f] \in SUBSET Uids /\ uidNext[f] \in Nat
      /\ \A x \in Held(f) : x \in Uids
      /\ \A x \in Uids : x \in Nat
  BY FolderTyped, UidsAreNumbers
  DEF TypeInv, TypeOK, SyncTypeOK, DBTypeOK, SyncRun, Held
<1>1. /\ UNCHANGED <<serverVars, storedVal, forgone>>
      /\ sync[f].pc = "collect"
      /\ InsertRows(f, us, minted[f][val])
      /\ UpdateLastUID(f, us)
  BY DEF SyncFlush, ImportMessageBatch
<1>2. /\ sync'[f].pc = "collect" /\ sync'[f].val = val
      /\ sync'[f].stream = sync[f].stream
      /\ sync'[f].batch = {} /\ sync'[f].bare = {}
  BY <1>t, <1>1 DEF SyncFlush, Flushed, SyncRun
<1>3. \A w \in Uids : entries'[f][w] = IF w \in us /\ entries[f][w] = Absent
                                         THEN minted[f][val][w] ELSE entries[f][w]
  BY <1>t, <1>1 DEF InsertRows, NewRows
<1>4. /\ us = {} => lastUid'[f] = lastUid[f]
      /\ us # {} => lastUid'[f] \in us /\ \A y \in us : y <= lastUid'[f]
  <2>1. CASE us = {}
    BY <1>1, <2>1 DEF UpdateLastUID
  <2>2. CASE us # {}
    <3>1. PICK top \in us : \A y \in us : y <= top
      BY <1>t, <2>2, HighestExists
    <3>2. lastUid'[f] = CHOOSE x \in us : \A y \in us : y <= x
      BY <1>t, <1>1, <2>2 DEF UpdateLastUID
    <3>3. QED
      BY <2>2, <3>1, <3>2
  <2>3. QED
    BY <2>1, <2>2
<1>5. ValiditiesInOrder(f)' /\ PurgeWhenStale(f)'
  BY <1>1, <1>2 DEF FolderInv, ValiditiesInOrder, PurgeWhenStale, serverVars
<1>6. CASE val # validity[f]
  <2>1. ~ Recorded(f)'
    BY <1>1, <1>6, StaleRun DEF Recorded, serverVars
  <2>2. RowsGiven(f)' /\ NoGapIn(f)'
    BY <2>1 DEF RowsGiven, NoGapIn
  <2>3. StreamInOrder(f)'
    BY <1>1, <1>2, <1>6 DEF StreamInOrder, serverVars
  <2>4. QED
    BY <1>5, <2>2, <2>3 DEF FolderInv
<1>7. CASE val = validity[f]
  <2>1. Recorded(f)
    BY <1>1, <1>7 DEF FolderInv, PurgeWhenStale, Recorded
  <2>2. /\ \A b \in sync[f].batch, x \in sync[f].stream : b < x
        /\ sync[f].bare \subseteq forgone[f]
        /\ \A x \in Held(f) : x < uidNext[f]
        /\ \A x \in Held(f), u \in mbox[f] : u < x => Known(f, u) \/ u \in Held(f)
    BY <1>1, <1>7 DEF FolderInv, StreamInOrder
  <2>3. \A w \in us : minted[f][val][w] = MessageAt(f, w) /\ MessageAt(f, w) # Absent
    BY <1>t, <1>7, <2>2 DEF Held, MessageAt, UidsGiven
  <2>4. \A w \in Uids : Known(f, w) => Known(f, w)'
    BY <1>1, <1>3, <2>3 DEF Known
  <2>5. \A w \in sync[f].batch : Known(f, w)'
    <3>1. \A w \in us : Known(f, w)'
      BY <1>t, <1>3, <2>3 DEF Known
    <3>2. \A w \in sync[f].bare : Known(f, w)'
      BY <1>1, <2>2 DEF Known
    <3>3. QED
      BY <3>1, <3>2
  <2>6. RowsGiven(f)'
    <3>1. /\ lastUid[f] < uidNext[f]
          /\ \A u \in Uids : entries[f][u] # Absent =>
               u < uidNext[f] /\ entries[f][u] = MessageAt(f, u)
      BY <2>1 DEF FolderInv, RowsGiven
    <3>2. lastUid'[f] < uidNext[f]
      BY <1>4, <2>2, <3>1 DEF Held
    <3>3. ASSUME NEW u \in Uids, entries'[f][u] # Absent
          PROVE  u < uidNext[f] /\ entries'[f][u] = MessageAt(f, u)
      <4>1. CASE u \in us /\ entries[f][u] = Absent
        BY <1>3, <2>2, <2>3, <4>1 DEF Held
      <4>2. CASE ~ (u \in us /\ entries[f][u] = Absent)
        BY <1>3, <3>1, <3>3, <4>2
      <4>3. QED
        BY <4>1, <4>2
    <3>4. QED
      BY <1>1, <3>2, <3>3 DEF RowsGiven, MessageAt, serverVars
  <2>7. ASSUME NEW u \in mbox[f], u <= lastUid'[f]
        PROVE  Known(f, u)'
    <3>1. CASE us = {}
      BY <1>t, <1>4, <2>1, <2>4, <2>7, <3>1 DEF FolderInv, NoGapIn
    <3>2. CASE us # {}
      <4>1. lastUid'[f] \in us /\ lastUid'[f] \in Held(f)
        BY <1>4, <3>2 DEF Held
      <4>2. u \in Nat /\ lastUid'[f] \in Nat /\ u \in Uids
        BY <1>t, <4>1
      <4>3. CASE u = lastUid'[f]
        BY <2>5, <4>1, <4>3
      <4>4. CASE u < lastUid'[f]
        <5>1. Known(f, u) \/ u \in Held(f)
          BY <2>2, <4>1, <4>4
        <5>2. u \notin sync[f].stream
          BY <2>2, <4>1, <4>2, <4>4
        <5>3. QED
          BY <2>4, <2>5, <4>2, <5>1, <5>2 DEF Held
      <4>5. QED
        BY <2>7, <4>2, <4>3, <4>4
    <3>3. QED
      BY <3>1, <3>2
  <2>8. NoGapIn(f)'
    BY <1>1, <2>7 DEF NoGapIn, serverVars
  <2>9. Held(f)' = sync[f].stream /\ sync[f].stream \subseteq Held(f)
    BY <1>2 DEF Held
  <2>10. ASSUME NEW x \in Held(f)', NEW u \in mbox[f]
         PROVE  /\ u < x => Known(f, u)' \/ u \in Held(f)'
                /\ x < u => lastUid'[f] < u
    <3>1. u < x => Known(f, u)' \/ u \in Held(f)'
      BY <1>t, <2>2, <2>4, <2>5, <2>9 DEF Held
    <3>2. CASE us = {}
      BY <1>1, <1>4, <1>7, <2>9, <3>1, <3>2 DEF FolderInv, StreamInOrder
    <3>3. CASE us # {}
      <4>1. lastUid'[f] \in Nat /\ x \in Nat /\ u \in Nat
        BY <1>t, <1>4, <2>9, <3>3
      <4>2. lastUid'[f] < x
        BY <1>4, <2>2, <2>9, <3>3
      <4>3. QED
        BY <3>1, <4>1, <4>2
    <3>4. QED
      BY <3>2, <3>3
  <2>11. StreamInOrder(f)'
    BY <1>1, <1>2, <2>2, <2>9, <2>10 DEF StreamInOrder, serverVars
  <2>12. QED
    BY <1>5, <2>6, <2>8, <2>11 DEF FolderInv
<1>8. QED
  BY <1>6, <1>7

\* Every step a run on f can take, and every fault of it.
LEMMA RunStepKeeps ==
  ASSUME TypeInv, NEW f \in Synced, UidsGiven(f), FolderInv(f),
         SyncStep(f) \/ SyncBreak(f) \/ SyncAbort(f)
  PROVE  FolderInv(f)'
<1>1. CASE SyncAbort(f)
  <2>1. UNCHANGED <<serverVars, dbVars, forgone>> /\ sync'[f] = NoRun
    BY <1>1, SyncedAssumption DEF SyncAbort, TypeInv, TypeOK, SyncTypeOK
  <2>2. QED
    BY <2>1, RunEnds
<1>2. QED
  BY <1>1, BeginKeeps, PurgeKeeps, ResetKeeps, FetchKeeps, CollectKeeps, FlushKeeps,
     StreamEndKeeps, FinishKeeps, BreakKeeps DEF SyncStep

-----------------------------------------------------------------------------
(* The steps of the others.                                                *)

\* A folder that gives its next UID to a message, or does nothing, knows every
\* UID it gave.
LEMMA GivingKeeps ==
  ASSUME TypeInv, NEW g \in Folders, UidsGiven(g), NEW m \in Msgs, NEW gives \in BOOLEAN,
         \A w \in mbox'[g] : w \in mbox[g] \/ (gives /\ w = uidNext[g]),
         uidNext'[g] = IF gives THEN uidNext[g] + 1 ELSE uidNext[g],
         \A w \in Uids : MessageAt(g, w)' = IF gives /\ w = uidNext[g] THEN m
                                                                  ELSE MessageAt(g, w)
  PROVE  UidsGiven(g)'
<1>t. uidNext[g] \in Nat /\ mbox[g] \in SUBSET Uids /\ \A w \in Uids : w \in Nat
  <2>1. uidNext \in [Folders -> 1..(MaxUid + 1)] /\ mbox \in [Folders -> SUBSET Uids]
    BY DEF TypeInv, TypeOK, ServerTypeOK
  <2>2. 1..(MaxUid + 1) \subseteq Nat
    BY BoundsAreNumbers
  <2>3. \A w \in Uids : w \in Nat
    BY UidsAreNumbers
  <2>4. QED
    BY <2>1, <2>2, <2>3
<1>1. m # Absent
  BY BoundsAreNumbers
<1>2. CASE gives
  <2>1. \A w \in mbox'[g] : w < uidNext'[g]
    BY <1>t, <1>2 DEF UidsGiven
  <2>2. ASSUME NEW w \in Uids, w < uidNext'[g]
        PROVE  MessageAt(g, w)' # Absent
    <3>1. w \in Nat /\ (w < uidNext[g] \/ w = uidNext[g])
      BY <1>t, <1>2, <2>2
    <3>2. QED
      BY <1>1, <1>2, <3>1 DEF UidsGiven
  <2>3. QED
    BY <2>1, <2>2 DEF UidsGiven
<1>3. CASE ~ gives
  BY <1>3 DEF UidsGiven
<1>4. QED
  BY <1>2, <1>3

\* Every UID given out stands for a message, in every folder.
LEMMA ServerInvKept ==
  ASSUME TypeInv, ServerInv, [Next]_vars
  PROVE  ServerInv'
<1>t. /\ mbox \in [Folders -> SUBSET Uids] /\ uidNext \in [Folders -> Nat]
      /\ validity \in [Folders -> Validities]
      /\ minted \in [Folders -> [Validities -> [Uids -> MsgOrNone]]]
      /\ Uids \subseteq Nat
  BY BoundsAreNumbers, UidsAreNumbers DEF TypeInv, TypeOK, ServerTypeOK
<1>1. ASSUME UNCHANGED serverVars
      PROVE  ServerInv'
  BY <1>1 DEF ServerInv, UidsGiven, MessageAt, serverVars
<1>2. ASSUME NEW f \in Folders, NEW m \in Msgs, Deliver(f, m)
      PROVE  ServerInv'
  <2>2. ASSUME NEW g \in Folders PROVE UidsGiven(g)'
    <3>1. \A w \in mbox'[g] : w \in mbox[g] \/ ((g = f) /\ w = uidNext[g])
      BY <1>t, <1>2 DEF Deliver
    <3>2. uidNext'[g] = IF g = f THEN uidNext[g] + 1 ELSE uidNext[g]
      BY <1>t, <1>2 DEF Deliver
    <3>3. \A w \in Uids : MessageAt(g, w)' = IF (g = f) /\ w = uidNext[g] THEN m
                                                                       ELSE MessageAt(g, w)
      BY <1>t, <1>2 DEF Deliver, MessageAt
    <3>4. QED
      BY <3>1, <3>2, <3>3, GivingKeeps DEF ServerInv
  <2>3. QED
    BY <2>2 DEF ServerInv
<1>3. ASSUME NEW f \in Folders, NEW u \in Uids, Expunge(f, u)
      PROVE  ServerInv'
  BY <1>t, <1>3 DEF ServerInv, UidsGiven, Expunge, MessageAt
<1>4. ASSUME NEW f \in Folders, Renumber(f)
      PROVE  ServerInv'
  <2>0. PICK n \in 0..MaxUid : \E kept \in [1..n -> mbox[f]] :
          /\ mbox' = [mbox EXCEPT ![f] = 1..n]
          /\ minted' = [minted EXCEPT ![f][validity[f] + 1] =
                          [u \in Uids |-> IF u <= n THEN MessageAt(f, kept[u])
                                                    ELSE Absent]]
          /\ uidNext' = [uidNext EXCEPT ![f] = n + 1]
    BY <1>4 DEF Renumber
  <2>1. PICK kept \in [1..n -> mbox[f]] :
          /\ mbox' = [mbox EXCEPT ![f] = 1..n]
          /\ minted' = [minted EXCEPT ![f][validity[f] + 1] =
                          [u \in Uids |-> IF u <= n THEN MessageAt(f, kept[u])
                                                    ELSE Absent]]
          /\ uidNext' = [uidNext EXCEPT ![f] = n + 1]
    BY <2>0
  <2>2. validity' = [validity EXCEPT ![f] = @ + 1] /\ validity[f] + 1 \in Validities
    BY <1>t, <1>4, BoundsAreNumbers DEF Renumber, Validities
  <2>3. \A u \in 1..n : MessageAt(f, kept[u]) # Absent
    BY <1>t, <2>1 DEF ServerInv, UidsGiven
  <2>4. mbox'[f] = 1..n /\ uidNext'[f] = n + 1
    BY <1>t, <2>1
  <2>5. \A u \in Uids : u <= n => MessageAt(f, u)' = MessageAt(f, kept[u])
    BY <1>t, <2>1, <2>2 DEF MessageAt
  <2>6. UidsGiven(f)'
    <3>1. \A u \in Uids : u < n + 1 => u \in 1..n
      BY DEF Uids
    <3>2. QED
      BY <1>t, <2>3, <2>4, <2>5, <3>1 DEF UidsGiven
  <2>7. ASSUME NEW g \in Folders \ {f} PROVE UidsGiven(g)'
    BY <1>t, <2>1, <2>2 DEF ServerInv, UidsGiven, MessageAt
  <2>8. QED
    BY <2>6, <2>7 DEF ServerInv
<1>5. ASSUME NEW f \in Folders, NEW u \in Uids, NEW t \in Folders, MoveMessage(f, u, t)
      PROVE  ServerInv'
  <2>1. MessageAt(f, u) \in Msgs
    BY <1>t, <1>5 DEF MoveMessage, ServerInv, UidsGiven, MessageAt, MsgOrNone
  <2>2. ASSUME NEW g \in Folders PROVE UidsGiven(g)'
    <3>1. \A w \in mbox'[g] : w \in mbox[g] \/ ((g = t) /\ w = uidNext[g])
      BY <1>t, <1>5 DEF MoveMessage
    <3>2. uidNext'[g] = IF g = t THEN uidNext[g] + 1 ELSE uidNext[g]
      BY <1>t, <1>5 DEF MoveMessage
    <3>3. \A w \in Uids : MessageAt(g, w)' = IF (g = t) /\ w = uidNext[g] THEN MessageAt(f, u)
                                                                       ELSE MessageAt(g, w)
      BY <1>t, <1>5 DEF MoveMessage, MessageAt
    <3>4. QED
      BY <2>1, <3>1, <3>2, <3>3, GivingKeeps DEF ServerInv
  <2>3. QED
    BY <2>2 DEF ServerInv
<1>6. CASE ServerStep
  BY <1>2, <1>3, <1>4, <1>6 DEF ServerStep
<1>7. ASSUME NEW f \in Synced, SyncStep(f) \/ SyncBreak(f) \/ SyncAbort(f)
      PROVE  ServerInv'
  BY <1>1, <1>7
  DEF SyncStep, SyncBegin, SyncPurge, SyncReset, SyncFetch, SyncCollect, SyncFlush,
      SyncStreamEnd, SyncFinish, SyncBreak, SyncAbort
<1>8. ASSUME NEW d \in Deleters, DeleteStep(d)
      PROVE  ServerInv'
  <2>1. CASE DeleteMove(d)
    <3>1. del[d].folder \in Folders /\ del[d].uid \in Uids /\ Trash \in Folders
      BY <2>1 DEF UidSet, DeleteMove, TypeInv, TypeOK, DeleteTypeOK, DeleteCall, MoversHaveTrash
    <3>2. QED
      BY <1>5, <2>1, <3>1 DEF UidSet, DeleteMove
  <2>2. CASE ~ DeleteMove(d)
    BY <1>1, <1>8, <2>2
    DEF DeleteStep, DeleteLookup, DeleteRefused, UidSet, DeleteMoveNothing, DeleteMoveFailed,
        DeleteRows, DeleteRowsFailed
  <2>3. QED
    BY <2>1, <2>2
<1>9. CASE Crash \/ UNCHANGED vars
  BY <1>1, <1>9 DEF Crash, vars
<1>10. QED
  BY <1>6, <1>7, <1>8, <1>9 DEF Next

\* What the server does to a folder that keeps its numbering is quiet.
LEMMA ServerStepKeeps ==
  ASSUME TypeInv, TypeInv', NEW f \in Synced, UidsGiven(f), UidsGiven(f)', FolderInv(f),
         UNCHANGED <<dbVars, sync, forgone>>, validity'[f] = validity[f],
         \/ uidNext'[f] = uidNext[f] /\ mbox'[f] \subseteq mbox[f]
         \/ uidNext'[f] = uidNext[f] + 1 /\ mbox'[f] \subseteq mbox[f] \cup {uidNext[f]},
         \A w \in Uids : w # uidNext[f] => MessageAt(f, w)' = MessageAt(f, w)
  PROVE  FolderInv(f)'
<1>1. uidNext[f] \in Nat /\ uidNext'[f] \in Nat /\ \A w \in Uids : w \in Nat
  BY SyncedAssumption, BoundsAreNumbers, UidsAreNumbers DEF TypeInv, TypeOK, ServerTypeOK
<1>2. uidNext[f] <= uidNext'[f]
  BY <1>1
<1>3. \A u \in mbox'[f] : u < uidNext'[f] /\ (u \in mbox[f] \/ u = uidNext[f])
  BY DEF UidsGiven
<1>4. \A u \in Uids : u < uidNext[f] => MessageAt(f, u)' = MessageAt(f, u)
  BY <1>1
<1>5. /\ sync'[f] = sync[f] /\ storedVal'[f] = storedVal[f] /\ lastUid'[f] = lastUid[f]
      /\ \A u \in Uids : entries'[f][u] \in {entries[f][u], Absent}
      /\ \A u \in mbox[f] : Known(f, u) => Known(f, u)'
      /\ forgone[f] \subseteq forgone'[f]
  BY DEF dbVars, Known
<1>6. QED
  BY <1>2, <1>3, <1>4, <1>5, QuietStep

\* A renumbering puts everything recorded out of date at once.
LEMMA RenumberKeeps ==
  ASSUME TypeInv, NEW f \in Synced, FolderInv(f), Renumber(f), storedVal[f] # 0,
         UNCHANGED <<dbVars, sync, forgone>>
  PROVE  FolderInv(f)'
<1>1. /\ validity[f] \in Nat /\ storedVal[f] \in Nat /\ sync[f].val \in Nat
  BY FolderTyped
<1>2. validity'[f] = validity[f] + 1
  BY SyncedAssumption DEF Renumber, TypeInv, TypeOK, ServerTypeOK
<1>3. ~ Recorded(f)'
  BY <1>1, <1>2 DEF FolderInv, ValiditiesInOrder, Recorded, dbVars
<1>4. ValiditiesInOrder(f)' /\ PurgeWhenStale(f)'
  BY <1>1, <1>2 DEF FolderInv, ValiditiesInOrder, PurgeWhenStale, dbVars
<1>5. sync[f].pc = "collect" => sync[f].val # validity'[f]
  BY <1>1, <1>2 DEF FolderInv, ValiditiesInOrder
<1>6. StreamInOrder(f)'
  BY <1>5 DEF FolderInv, StreamInOrder, dbVars
<1>7. QED
  BY <1>3, <1>4, <1>6 DEF FolderInv, RowsGiven, NoGapIn

\* A delete_mail call moves a message, or takes away a row whose message left
\* the folder or is given up.
LEMMA DeleteStepKeeps ==
  ASSUME TypeInv, TypeInv', NEW f \in Synced, UidsGiven(f), UidsGiven(f)', FolderInv(f),
         NEW d \in Deleters, DeleteStep(d)
  PROVE  FolderInv(f)'
<1>t. /\ mbox \in [Folders -> SUBSET Uids] /\ uidNext \in [Folders -> Nat]
      /\ validity \in [Folders -> Validities]
      /\ minted \in [Folders -> [Validities -> [Uids -> MsgOrNone]]]
      /\ entries \in [Folders -> [Uids -> MsgOrNone]]
      /\ forgone \in [Folders -> SUBSET Uids]
      /\ f \in Folders /\ del[d].folder \in Folders /\ del[d].uid \in Uids
  BY BoundsAreNumbers, SyncedAssumption
  DEF TypeInv, TypeOK, ServerTypeOK, DBTypeOK, SyncTypeOK, DeleteTypeOK, DeleteCall
<1>1. CASE DeleteMove(d)
  <2>1. UNCHANGED <<dbVars, sync, forgone>> /\ MoveMessage(del[d].folder, del[d].uid, Trash)
    BY <1>1 DEF UidSet, DeleteMove
  <2>2. Trash \in Folders
    BY <1>1 DEF UidSet, DeleteMove, TypeInv, MoversHaveTrash
  <2>3. /\ validity'[f] = validity[f]
        /\ \/ uidNext'[f] = uidNext[f] /\ mbox'[f] \subseteq mbox[f]
           \/ uidNext'[f] = uidNext[f] + 1 /\ mbox'[f] \subseteq mbox[f] \cup {uidNext[f]}
    BY <1>t, <2>1, <2>2 DEF MoveMessage
  <2>4. \A w \in Uids : w # uidNext[f] => MessageAt(f, w)' = MessageAt(f, w)
    BY <1>t, <2>1, <2>2 DEF MoveMessage, MessageAt
  <2>5. QED
    BY <2>1, <2>3, <2>4, ServerStepKeeps
<1>2. CASE DeleteRows(d)
  <2>1. UNCHANGED serverVars /\ UNCHANGED sync
    BY <1>2 DEF DeleteRows
  <2>2. /\ storedVal' = storedVal /\ lastUid' = lastUid
        /\ \A u \in Uids : entries'[f][u] \in {entries[f][u], Absent}
        /\ \A u \in mbox[f] : Known(f, u) => Known(f, u)'
        /\ forgone[f] \subseteq forgone'[f]
    <3>1. CASE FirstDelete(d) \/ SecondDelete(d)
      BY <3>1 DEF FirstDelete, SecondDelete, DeleteFts, DeleteContent, Known
    <3>2. CASE LastDelete(d)
      BY <1>t, <3>2 DEF LastDelete, DeleteEntry, Known
    <3>3. QED
      BY <1>2, <3>1, <3>2 DEF DeleteRows
  <2>3. /\ sync'[f] = sync[f] /\ validity'[f] = validity[f]
        /\ uidNext[f] <= uidNext'[f]
        /\ \A u \in mbox'[f] : u < uidNext'[f] /\ (u \in mbox[f] \/ u = uidNext[f])
        /\ \A u \in Uids : MessageAt(f, u)' = MessageAt(f, u)
    BY <1>t, <2>1 DEF serverVars, MessageAt, UidsGiven
  <2>4. QED
    BY <2>2, <2>3, QuietStep
<1>3. CASE ~ DeleteMove(d) /\ ~ DeleteRows(d)
  <2>1. UNCHANGED <<serverVars, dbVars, sync, forgone>>
    BY <1>3
    DEF DeleteStep, DeleteLookup, DeleteRefused, UidSet, DeleteMoveNothing, DeleteMoveFailed,
        DeleteRowsFailed, syncVars
  <2>2. QED
    BY <1>t, <2>1, ServerStepKeeps DEF serverVars, MessageAt
<1>4. QED
  BY <1>1, <1>2, <1>3

-----------------------------------------------------------------------------
(* The invariant, and what follows from it.                                *)

LEMMA SyncInvInit == Init => SyncInv
<1> SUFFICES ASSUME Init PROVE SyncInv
  OBVIOUS
<1>1. ServerInv
  BY UidsAreNumbers DEF Init, ServerInit, ServerInv, UidsGiven
<1>2. ASSUME NEW f \in Synced PROVE FolderInv(f)
  <2>1. /\ f \in Folders /\ mbox[f] = {} /\ uidNext[f] = 1 /\ validity[f] = 1
        /\ lastUid[f] = 0 /\ storedVal[f] = 0 /\ sync[f] = NoRun
        /\ \A u \in Uids : entries[f][u] = Absent
    BY SyncedAssumption DEF Init, ServerInit, DBInit, SyncInit
  <2>2. ValiditiesInOrder(f) /\ PurgeWhenStale(f) /\ StreamInOrder(f)
    BY <2>1 DEF ValiditiesInOrder, PurgeWhenStale, StreamInOrder, NoRun
  <2>3. RowsGiven(f) /\ NoGapIn(f)
    BY <2>1 DEF RowsGiven, NoGapIn
  <2>4. QED
    BY <2>2, <2>3 DEF FolderInv
<1>3. QED
  BY <1>1, <1>2 DEF SyncInv

\* A run on another folder is quiet for this one.
LEMMA OtherRunKeeps ==
  ASSUME TypeInv, TypeInv', NEW f \in Synced, UidsGiven(f), UidsGiven(f)', FolderInv(f),
         NEW g \in Synced \ {f}, SyncStep(g) \/ SyncBreak(g) \/ SyncAbort(g)
  PROVE  FolderInv(f)'
<1>1. UNCHANGED serverVars
  BY DEF SyncStep, SyncBegin, SyncPurge, SyncReset, SyncFetch, SyncCollect, SyncFlush,
         SyncStreamEnd, SyncFinish, SyncBreak, SyncAbort
<1>2. /\ sync'[f] = sync[f] /\ entries'[f] = entries[f] /\ lastUid'[f] = lastUid[f]
      /\ storedVal'[f] = storedVal[f] /\ forgone'[f] = forgone[f]
  BY OthersKeep
<1>3. uidNext[f] \in Nat
  BY FolderTyped
<1>4. QED
  BY <1>1, <1>2, <1>3, QuietStep DEF serverVars, MessageAt, UidsGiven, Known

LEMMA SyncInvKept ==
  ~ RenumberUnrecorded /\ TypeInv /\ SyncInv /\ [Next]_vars => SyncInv'
<1> SUFFICES ASSUME ~ RenumberUnrecorded, TypeInv, SyncInv, [Next]_vars PROVE SyncInv'
  OBVIOUS
<1>1. TypeInv' /\ ServerInv'
  BY TypeInvKept, ServerInvKept DEF SyncInv
<1>2. ASSUME NEW f \in Synced PROVE FolderInv(f)'
  <2>1. f \in Folders /\ UidsGiven(f) /\ UidsGiven(f)' /\ FolderInv(f)
    BY <1>1, SyncedAssumption DEF SyncInv, ServerInv
  <2>t. /\ mbox \in [Folders -> SUBSET Uids] /\ uidNext \in [Folders -> Nat]
        /\ validity \in [Folders -> Validities]
        /\ minted \in [Folders -> [Validities -> [Uids -> MsgOrNone]]]
    BY BoundsAreNumbers DEF TypeInv, TypeOK, ServerTypeOK
  <2>2. ASSUME NEW g \in Folders, NEW m \in Msgs, Deliver(g, m), UNCHANGED <<dbVars, syncVars>>
        PROVE  FolderInv(f)'
    <3>1. /\ validity'[f] = validity[f]
          /\ \/ uidNext'[f] = uidNext[f] /\ mbox'[f] \subseteq mbox[f]
             \/ uidNext'[f] = uidNext[f] + 1 /\ mbox'[f] \subseteq mbox[f] \cup {uidNext[f]}
      BY <2>t, <2>1, <2>2 DEF Deliver
    <3>2. \A w \in Uids : w # uidNext[f] => MessageAt(f, w)' = MessageAt(f, w)
      BY <2>t, <2>1, <2>2 DEF Deliver, MessageAt
    <3>3. QED
      BY <1>1, <2>1, <2>2, <3>1, <3>2, ServerStepKeeps DEF syncVars
  <2>3. ASSUME NEW g \in Folders, NEW u \in Uids, Expunge(g, u), UNCHANGED <<dbVars, syncVars>>
        PROVE  FolderInv(f)'
    <3>1. /\ validity'[f] = validity[f] /\ uidNext'[f] = uidNext[f]
          /\ mbox'[f] \subseteq mbox[f]
          /\ \A w \in Uids : MessageAt(f, w)' = MessageAt(f, w)
      BY <2>t, <2>1, <2>3 DEF Expunge, MessageAt
    <3>2. QED
      BY <1>1, <2>1, <2>3, <3>1, ServerStepKeeps DEF syncVars
  <2>4. ASSUME NEW g \in Folders, Renumber(g), storedVal[g] # 0, UNCHANGED <<dbVars, syncVars>>
        PROVE  FolderInv(f)'
    <3>1. CASE g = f
      BY <2>1, <2>4, <3>1, RenumberKeeps DEF syncVars
    <3>2. CASE g # f
      <4>1. validity'[f] = validity[f]
        BY <2>t, <2>1, <2>4, <3>2 DEF Renumber
      <4>2. \E n \in Nat : \E h :
              /\ mbox' = [mbox EXCEPT ![g] = 1..n]
              /\ minted' = [minted EXCEPT ![g][validity[g] + 1] = h]
              /\ uidNext' = [uidNext EXCEPT ![g] = n + 1]
        <5>1. \A n \in 0..MaxUid : n \in Nat
          BY BoundsAreNumbers
        <5>2. QED
          BY <2>4, <5>1 DEF Renumber
      <4>3. uidNext'[f] = uidNext[f] /\ mbox'[f] = mbox[f] /\ minted'[f] = minted[f]
        BY <2>t, <2>1, <3>2, <4>2
      <4>4. QED
        BY <1>1, <2>1, <2>4, <4>1, <4>3, ServerStepKeeps DEF syncVars, MessageAt
    <3>3. QED
      BY <3>1, <3>2
  <2>5. CASE ServerStep
    BY <2>2, <2>3, <2>4, <2>5 DEF ServerStep
  <2>6. ASSUME NEW g \in Synced, SyncStep(g) \/ SyncBreak(g) \/ SyncAbort(g)
        PROVE  FolderInv(f)'
    <3>1. CASE g = f
      BY <2>1, <2>6, <3>1, RunStepKeeps
    <3>2. CASE g # f
      BY <1>1, <2>1, <2>6, <3>2, OtherRunKeeps
    <3>3. QED
      BY <3>1, <3>2
  <2>7. CASE \E d \in Deleters : DeleteStep(d)
    BY <1>1, <2>1, <2>7, DeleteStepKeeps
  <2>8. CASE Crash
    BY <2>1, <2>8, RunEnds DEF Crash, SyncLost
  <2>9. CASE UNCHANGED vars
    BY <2>t, <1>1, <2>1, <2>9, ServerStepKeeps DEF vars, serverVars, syncVars, MessageAt
  <2>10. QED
    BY <2>5, <2>6, <2>7, <2>8, <2>9 DEF Next
<1>3. QED
  BY <1>1, <1>2 DEF SyncInv

LEMMA SyncInvHolds ==
  ASSUME ~ RenumberUnrecorded
  PROVE  Spec => [](TypeInv /\ SyncInv)
BY TypeInvInit, TypeInvKept, SyncInvInit, SyncInvKept, PTL DEF Spec

\* No run, crash, broken stream, abort, expunge or delete_mail call leaves a
\* message at or below last_uid that the program neither has nor gave up
\* (SyncFolder, importMessageBatch, handleDeleteMail).
THEOREM NoMessageIsLost ==
  ASSUME ~ RenumberUnrecorded
  PROVE  Spec => []NoGap
<1>1. SyncInv => NoGap
  BY DEF SyncInv, FolderInv, NoGapIn, NoGap, Known
<1>2. QED
  BY <1>1, SyncInvHolds, PTL

\* While the recorded validity is the server's, every row shows the message that
\* has its UID (checkAndResetUIDValidity).
THEOREM RowsStayCurrent ==
  ASSUME ~ RenumberUnrecorded
  PROVE  Spec => []RowsAreCurrent
<1>1. SyncInv => RowsAreCurrent
  BY DEF SyncInv, FolderInv, RowsGiven, RowsAreCurrent
<1>2. QED
  BY <1>1, SyncInvHolds, PTL

\* last_uid may fall, but never below a message the folder has and a later run
\* would fetch a second time (updateLastUID).
THEOREM LastUidFallsSafely ==
  ASSUME ~ RenumberUnrecorded
  PROVE  Spec => LastUidFallsOverNothing
<1>1. ASSUME TypeInv, SyncInv, [Next]_vars, NEW f \in Synced, Recorded(f),
             sync[f].pc = "collect", NEW u \in mbox[f]
      PROVE  ~ (lastUid'[f] < u /\ u <= lastUid[f])
  <2>t. /\ lastUid[f] \in Nat /\ u \in Nat /\ f \in Folders
        /\ sync[f] \in SyncRun /\ FolderInv(f)
    <3>1. /\ f \in Folders /\ lastUid[f] \in 0..MaxUid /\ mbox[f] \in SUBSET Uids
          /\ sync[f] \in SyncRun
      BY <1>1, FolderTyped
    <3>2. FolderInv(f)
      BY <1>1 DEF SyncInv
    <3>3. lastUid[f] \in Nat /\ u \in Nat
      <4>1. u \in mbox[f]
        BY <1>1
      <4>2. QED
        BY <3>1, <4>1, BoundsAreNumbers DEF Uids
    <3>4. QED
      BY <3>1, <3>2, <3>3
  <2>1. CASE lastUid'[f] = lastUid[f]
    BY <2>t, <2>1
  <2>2. CASE SyncFlush(f)
    <3>1. /\ \A x \in Held(f) : x < u => lastUid[f] < u
          /\ sync[f].batch \in SUBSET Uids
      <4>1. sync[f].val = validity[f]
        BY <1>1, <2>t, StaleRun
      <4>2. QED
        BY <1>1, <2>t, <4>1 DEF FolderInv, StreamInOrder, SyncRun
    <3> DEFINE us == sync[f].batch \ sync[f].bare
    <3>2. lastUid'[f] = lastUid[f] \/ lastUid'[f] \in us
      <4>1. lastUid \in [Folders -> 0..MaxUid]
        BY <1>1 DEF TypeInv, TypeOK, DBTypeOK
      <4>2. CASE us # {}
        <5>1. PICK top \in us : \A y \in us : y <= top
          BY <3>1, <4>2, HighestExists
        <5>2. lastUid'[f] = CHOOSE x \in us : \A y \in us : y <= x
          BY <2>t, <2>2, <4>1, <4>2 DEF SyncFlush, ImportMessageBatch, UpdateLastUID
        <5>3. QED
          BY <5>1, <5>2
      <4>3. CASE us = {}
        BY <2>2, <4>3 DEF SyncFlush, ImportMessageBatch, UpdateLastUID
      <4>4. QED
        BY <4>2, <4>3
    <3>3. CASE lastUid'[f] \in us
      <4>1. lastUid'[f] \in Nat /\ lastUid'[f] \in Held(f)
        BY <3>1, <3>3, UidsAreNumbers DEF Held
      <4>2. QED
        BY <2>t, <3>1, <4>1
    <3>4. QED
      BY <2>1, <3>2, <3>3
  <2>3. CASE lastUid'[f] # lastUid[f] /\ ~ SyncFlush(f)
    <3>1. ~ UNCHANGED lastUid
      BY <2>3
    <3>2. PICK g \in Synced : SyncReset(g) \/ SyncFlush(g)
      BY <1>1, <3>1
      DEF Next, vars, dbVars, ServerStep, Crash, SyncStep, SyncBegin, SyncPurge,
          SyncFetch, SyncCollect, SyncStreamEnd, SyncFinish, SyncBreak, SyncAbort,
          PurgeEntries, PersistUIDValidity, DeleteStep, DeleteLookup, DeleteRefused,
          UidSet, DeleteMove, DeleteMoveNothing, DeleteMoveFailed, DeleteRows,
          DeleteRowsFailed, FirstDelete, SecondDelete, LastDelete, DeleteFts,
          DeleteContent, DeleteEntry
    <3>3. g = f
      BY <1>1, <2>3, <3>2, OthersKeep DEF SyncStep
    <3>4. QED
      BY <1>1, <2>3, <3>2, <3>3 DEF SyncReset
  <2>4. QED
    BY <2>1, <2>2, <2>3
<1>2. TypeInv /\ SyncInv /\ [Next]_vars =>
        [\A f \in Synced : Recorded(f) /\ sync[f].pc = "collect" =>
           \A u \in mbox[f] : ~(lastUid'[f] < u /\ u <= lastUid[f])]_vars
  BY <1>1
<1>3. QED
  BY <1>2, SyncInvHolds, PTL DEF Spec, LastUidFallsOverNothing
=============================================================================
