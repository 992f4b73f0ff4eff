-------------------------- MODULE ProcessesProofs --------------------------
(***************************************************************************)
(* Two processes on one database: the schema each of them works on, and    *)
(* the runs of both on one folder, for any folders, messages, batch size,  *)
(* faults and any older build's file.                                      *)
(***************************************************************************)
EXTENDS Processes, WellFoundedInduction, TLAPS

-----------------------------------------------------------------------------
(* The migration.                                                          *)

LEMMA StatementCounts ==
  /\ Len(Tables) = 9 /\ Len(ColumnMigrations) = 5 /\ Len(ColumnIndexes) = 2
  /\ Len(Statements) = 17 /\ Up = 18 /\ Failed = 19 /\ Down = 0
<1>1. Len(Tables) = 9 /\ Len(ColumnMigrations) = 5 /\ Len(ColumnIndexes) = 2
  BY DEF Tables, ColumnMigrations, ColumnIndexes
<1>2. Len(Statements) = 17
  BY DEF Statements, Tables, ColumnMigrations, ColumnIndexes
<1> QED
  BY <1>1, <1>2 DEF Up, Failed, Down

\* The statements, one by one.
LEMMA StatementList ==
  /\ Statements[1]  = Create("mail_entries")
  /\ Statements[2]  = Create("mail_attachments")
  /\ Statements[3]  = Create("sync_state")
  /\ Statements[4]  = Create("mail_content_fts")
  /\ Statements[5]  = Create("mail_content")
  /\ Statements[6]  = Index("idx_mail_date", "mail_entries")
  /\ Statements[7]  = Index("idx_mail_account_folder", "mail_entries")
  /\ Statements[8]  = Index("idx_mail_sender", "mail_entries")
  /\ Statements[9]  = Index("idx_mail_account_uid_folder", "mail_entries")
  /\ Statements[10] = Column("uid_validity", "sync_state")
  /\ Statements[11] = Column("is_read", "mail_entries")
  /\ Statements[12] = Column("is_replied", "mail_entries")
  /\ Statements[13] = Column("message_id", "mail_entries")
  /\ Statements[14] = Column("in_reply_to", "mail_entries")
  /\ Statements[15] = Index("idx_mail_message_id", "message_id")
  /\ Statements[16] = Index("idx_mail_in_reply_to", "in_reply_to")
  /\ Statements[17] = DateUpdate
BY DEF Statements, Tables, ColumnMigrations, ColumnIndexes

LEMMA StatementFields ==
  /\ \A n : Create(n).name = n /\ Create(n).on = Nothing /\ Create(n).kind = "create"
  /\ \A n, t : Index(n, t).name = n /\ Index(n, t).on = t /\ Index(n, t).kind = "create"
  /\ \A n, t : Column(n, t).name = n /\ Column(n, t).on = t /\ Column(n, t).kind = "column"
  /\ DateUpdate.name = Nothing /\ DateUpdate.on = "mail_entries" /\ DateUpdate.kind = "dates"
BY DEF Create, Index, Column, DateUpdate

\* Each statement needs only what an earlier one has made, and only the last is
\* about the dates.
LEMMA StatementOrder ==
  ASSUME NEW i \in 1..17
  PROVE  /\ Statements[i].on = Nothing \/ \E j \in 1..(i - 1) : Statements[j].name = Statements[i].on
         /\ Statements[i].name = Nothing <=> i = 17
         /\ Statements[i].kind = "dates" <=> i = 17
<1> USE StatementList, StatementFields DEF Nothing
<1>1. /\ Statements[1].name = "mail_entries" /\ Statements[3].name = "sync_state"
      /\ Statements[13].name = "message_id" /\ Statements[14].name = "in_reply_to"
  OBVIOUS
<1>2. i \in 1..5 => /\ Statements[i].on = Nothing /\ Statements[i].name # Nothing
                    /\ Statements[i].kind # "dates"
  OBVIOUS
<1>3. i \in 6..9 => /\ Statements[i].on = "mail_entries" /\ Statements[i].name # Nothing
                    /\ Statements[i].kind # "dates"
  OBVIOUS
<1>4. i \in 10..14 => /\ Statements[i].on \in {"sync_state", "mail_entries"}
                      /\ Statements[i].name # Nothing /\ Statements[i].kind # "dates"
  OBVIOUS
<1>5. i \in 15..16 => /\ Statements[i].on = IF i = 15 THEN "message_id" ELSE "in_reply_to"
                      /\ Statements[i].name # Nothing /\ Statements[i].kind # "dates"
  OBVIOUS
<1>6. i = 17 => /\ Statements[i].on = "mail_entries" /\ Statements[i].name = Nothing
                /\ Statements[i].kind = "dates"
  OBVIOUS
<1>7. i \in 1..5 \/ i \in 6..9 \/ i \in 10..14 \/ i \in 15..16 \/ i = 17
  OBVIOUS
<1>8. i \in 6..17 => \E j \in {1, 3, 13, 14} : j < i /\ Statements[j].name = Statements[i].on
  BY <1>1, <1>3, <1>4, <1>5, <1>6
<1> QED
  BY <1>2, <1>3, <1>4, <1>5, <1>6, <1>7, <1>8

\* The complete schema is what the statements name.
LEMMA CompleteIsNamed ==
  /\ Complete = NamesOf(Statements)
  /\ NamesOf(Tables) \subseteq Complete
  /\ Nothing \notin Complete
<1> DEFINE all == Tables \o ColumnMigrations \o ColumnIndexes
<1>1. /\ Len(all) = 16
      /\ \A i \in 1..16 : all[i] = Statements[i]
      /\ \A i \in 1..9 : all[i] = Tables[i]
  BY DEF Statements, Tables, ColumnMigrations, ColumnIndexes
<1>2. Statements[17].name = Nothing
  BY StatementOrder
<1> HIDE DEF all
<1>3. NamesOf(all) = NamesOf(Statements)
  BY <1>1, <1>2, StatementCounts DEF NamesOf
<1>4. NamesOf(Tables) \subseteq NamesOf(all)
  BY <1>1, StatementCounts DEF NamesOf
<1> QED
  BY <1>3, <1>4 DEF Complete, all, NamesOf

\* What a process has executed is in the file, whatever others do to it.
ExecutedIsThere ==
  \A p \in Procs, i \in 1..17 : i < stage[p] =>
    /\ Statements[i].name \in schema \cup {Nothing}
    /\ i = 17 => ~ legacy

MigrateInv == MigrateTypeOK /\ ExecutedIsThere /\ StartsAgain

LEMMA MigrateInvInit == MigrateInit => MigrateInv
<1> SUFFICES ASSUME MigrateInit PROVE MigrateInv
  OBVIOUS
<1>1. schema \subseteq Complete
  BY SchemaAssumption DEF MigrateInit
<1>2. legacy \in BOOLEAN
  BY ZenonT(40) DEF MigrateInit
<1>3. \A p \in Procs : stage[p] = 0
  BY StatementCounts DEF MigrateInit
<1>4. stage \in [Procs -> Down..Failed]
  BY StatementCounts DEF MigrateInit
<1>5. ExecutedIsThere /\ StartsAgain
  BY <1>3, StatementCounts DEF ExecutedIsThere, StartsAgain
<1> QED
  BY <1>1, <1>2, <1>4, <1>5 DEF MigrateInv, MigrateTypeOK

\* The schema only grows, and dates stay as they were put right.
LEMMA SchemaGrows ==
  ASSUME MigrateInv, NEW p \in Procs,
         Start(p) \/ MigrateStep(p) \/ MigrateRefused(p) \/ Stop(p)
  PROVE  schema \subseteq schema' /\ (legacy' => legacy) /\ schema' \subseteq Complete /\ legacy' \in BOOLEAN
<1>1. CASE MigrateStep(p)
  <2> DEFINE i == stage[p]
             s == Statements[i]
  <2>1. i \in 1..17 /\ schema' = schema \cup ({s.name} \ {Nothing}) /\ legacy' = (legacy /\ s.kind # "dates")
    BY <1>1, StatementCounts DEF MigrateStep, Migrating
  <2>2. s.name \in NamesOf(Statements) \cup {Nothing}
    BY <2>1, StatementCounts DEF NamesOf
  <2> QED
    BY <2>1, <2>2, CompleteIsNamed DEF MigrateInv, MigrateTypeOK
<1> QED
  BY <1>1 DEF MigrateInv, MigrateTypeOK, Start, MigrateRefused, Stop

\* The statement a process has come to finds what it needs.
LEMMA NothingRefused ==
  ASSUME MigrateInv, NEW p \in Procs, Migrating(p)
  PROVE  ~ Refused(Statements[stage[p]])
<1> DEFINE i == stage[p]
<1>1. i \in 1..17
  BY StatementCounts DEF Migrating
<1>2. CASE Statements[i].on = Nothing
  BY <1>2 DEF Refused
<1>3. CASE \E j \in 1..(i - 1) : Statements[j].name = Statements[i].on
  <2>1. PICK j \in 1..(i - 1) : Statements[j].name = Statements[i].on
    BY <1>3
  <2>2. j \in 1..17 /\ j < i
    BY <1>1
  <2>3. Statements[j].name \in schema \cup {Nothing}
    BY <2>2 DEF MigrateInv, ExecutedIsThere
  <2> QED
    BY <2>1, <2>3 DEF Refused
<1> QED
  BY <1>1, <1>2, <1>3, StatementOrder

LEMMA MigrateInvKept ==
  ASSUME MigrateInv, NEW p \in Procs,
         Start(p) \/ MigrateStep(p) \/ MigrateRefused(p) \/ Stop(p)
  PROVE  MigrateInv'
<1> USE StatementCounts
<1>1. schema \subseteq schema' /\ (legacy' => legacy) /\ schema' \subseteq Complete /\ legacy' \in BOOLEAN
  BY SchemaGrows
<1>2. stage \in [Procs -> 0..19] /\ \A q \in Procs : stage[q] # 19
  BY DEF MigrateInv, MigrateTypeOK, StartsAgain
<1>3. PICK n \in 0..18 : stage' = [stage EXCEPT ![p] = n] /\ (n > 1 => MigrateStep(p) /\ n = stage[p] + 1)
  <2>1. CASE MigrateStep(p)
    <3>1. stage[p] \in 1..17 /\ stage' = [stage EXCEPT ![p] = stage[p] + 1]
      BY <2>1 DEF MigrateStep, Migrating, NextStage
    <3>2. stage[p] + 1 \in 0..18
      BY <3>1
    <3> QED
      BY <2>1, <3>1, <3>2
  <2>2. ~ MigrateRefused(p)
    BY NothingRefused DEF MigrateRefused
  <2> QED
    BY <2>1, <2>2 DEF Start, Stop
<1>4. MigrateTypeOK' /\ StartsAgain'
  BY <1>1, <1>2, <1>3 DEF MigrateTypeOK, StartsAgain
<1>5. ASSUME NEW q \in Procs, NEW i \in 1..17, i < stage'[q]
      PROVE  Statements[i].name \in schema' \cup {Nothing} /\ (i = 17 => ~ legacy')
  <2>1. CASE i < stage[q]
    BY <1>1, <2>1 DEF MigrateInv, ExecutedIsThere
  <2>2. CASE ~ (i < stage[q])
    <3>1. q = p /\ MigrateStep(p) /\ i = stage[p]
      BY <1>2, <1>3, <1>5, <2>2
    <3>2. schema' = schema \cup ({Statements[i].name} \ {Nothing})
          /\ legacy' = (legacy /\ Statements[i].kind # "dates")
      BY <3>1 DEF MigrateStep
    <3> QED
      BY <3>2, StatementOrder
  <2> QED
    BY <2>1, <2>2
<1> QED
  BY <1>4, <1>5 DEF MigrateInv, ExecutedIsThere

LEMMA MigratedIsComplete == MigrateInv => UpMeansMigrated
<1> SUFFICES ASSUME MigrateInv, NEW p \in Procs, stage[p] = 18
             PROVE  schema = Complete /\ ~ legacy
  BY StatementCounts DEF UpMeansMigrated
<1>1. \A i \in 1..17 : Statements[i].name \in schema \cup {Nothing} /\ (i = 17 => ~ legacy)
  BY DEF MigrateInv, ExecutedIsThere
<1>2. Complete \subseteq schema
  BY <1>1, CompleteIsNamed, StatementCounts DEF NamesOf
<1> QED
  BY <1>1, <1>2 DEF MigrateInv, MigrateTypeOK

-----------------------------------------------------------------------------
(* The runs of two processes on one folder.                                *)

\* A run of either process: the two instances of SyncFolder have the same.
Runs == S!SyncRun
Over == S!NoRun

\* The message is in the database, or was left out.
Known(f, u) == entries[f][u] # Absent \/ u \in forgone[f]

Covered(f, x) == \A u \in mbox[f] : u <= x => Known(f, u)

\* What the server gives comes above everything it gave.
UidsInOrder(f) ==
  /\ validity[f] = 1
  /\ \A u \in mbox[f] : u < uidNext[f]
  /\ \A u \in Uids : u < uidNext[f] => minted[f][1][u] # Absent

\* A last_uid, in the database or read from it, has nothing unknown below it.
Safe(f, x) == x < uidNext[f] /\ Covered(f, x)

\* A run that streams has its batch below what is to come, and in the two of
\* them everything unknown below any of it.
Streaming(f, run) ==
  /\ run.bare \subseteq forgone[f]
  /\ \A x \in run.batch, y \in run.stream : x < y
  /\ \A y \in run.batch \cup run.stream :
       /\ y < uidNext[f]
       /\ \A u \in mbox[f] : u < y => Known(f, u) \/ u \in run.batch \cup run.stream

RunOK(f, run) ==
  /\ run.pc \in {"idle", "fetch", "collect", "finish"}
  /\ run.pc # "idle" => run.val = 1
  /\ run.pc = "fetch" => run.batch = {} /\ run.bare = {} /\ Safe(f, run.last)
  /\ run.pc = "collect" => Streaming(f, run)

FolderOK(f) ==
  /\ UidsInOrder(f)
  /\ Safe(f, lastUid[f])
  /\ \A p \in Procs : asked[p][f] # Unread => Safe(f, asked[p][f])

TwoRunsInv ==
  \A f \in Folders : FolderOK(f) /\ RunOK(f, syncServe[f]) /\ RunOK(f, syncCommand[f])

ProcInv == ProcTypeOK /\ MigrateInv /\ TwoRunsInv

LEMMA ProcConstants ==
  /\ MaxUid \in Nat \ {0} /\ MaxValidity = 1 /\ MaxFaults \in Nat
  /\ Absent \notin Msgs /\ Synced \subseteq Folders
  /\ Serve # Command /\ Procs = {Serve, Command}
  /\ Uids = 1..MaxUid /\ Validities = {1} /\ Uids \subseteq Nat
BY ServerAssumption, SyncedAssumption, ProcessAssumption DEF Uids, Validities

\* The two instances have the same runs.
LEMMA RunsAreRuns ==
  /\ S!SyncRun = Runs /\ C!SyncRun = Runs
  /\ S!NoRun = Over /\ C!NoRun = Over
  /\ Over \in Runs /\ Over.pc = "idle"
  /\ Runs = [pc : {"idle", "purge", "reset", "fetch", "collect", "finish"},
             last : 0..MaxUid, val : 0..1, empty : BOOLEAN, stream : SUBSET Uids,
             batch : SUBSET Uids, bare : SUBSET Uids, some : BOOLEAN]
BY ProcConstants
DEF Runs, Over, S!SyncRun, C!SyncRun, S!NoRun, C!NoRun, S!SyncPcs, C!SyncPcs, Uids, S!Uids, C!Uids

Lowest(us)  == CHOOSE u \in us : \A w \in us : u <= w
Highest(us) == CHOOSE u \in us : \A w \in us : w <= u

\* A set of UIDs that is not empty has a lowest and a highest member: the order
\* is well-founded on the naturals, and its mirror image up to a bound.
LEMMA LowestIsThere ==
  ASSUME NEW us \in SUBSET Uids, us # {}
  PROVE  Lowest(us) \in us /\ \A w \in us : Lowest(us) <= w
<1> DEFINE Less == {ss \in Nat \X Nat : ss[1] < ss[2]}
<1>1. IsWellFoundedOn(Less, Nat)
  BY NatLessThanWellFounded, Zenon DEF OpToRel
<1>2. us \subseteq Nat
  BY ProcConstants
<1>3. PICK x \in us : \A y \in us : ~ (<<y, x>> \in Less)
  <2> HIDE DEF Less
  <2> QED BY <1>1, <1>2, WFMin
<1>4. ASSUME NEW y \in us, y < x
      PROVE  FALSE
  <2>1. <<y, x>> \in Nat \X Nat /\ <<y, x>>[1] < <<y, x>>[2]
    BY <1>2, <1>4
  <2>2. <<y, x>> \in Less
    BY <2>1
  <2>3. QED
    BY <1>3, <2>2
<1>5. \A y \in us : x <= y
  BY <1>2, <1>4
<1> QED
  BY <1>5 DEF Lowest

LEMMA HighestIsThere ==
  ASSUME NEW us \in SUBSET Uids, us # {}
  PROVE  Highest(us) \in us /\ \A w \in us : w <= Highest(us)
<1> USE ProcConstants
<1> DEFINE mirror == {MaxUid + 1 - x : x \in us}
<1>1. mirror \in SUBSET Uids /\ mirror # {}
  <2>1. PICK x \in us : TRUE
    OBVIOUS
  <2>2. MaxUid + 1 - x \in mirror
    OBVIOUS
  <2>3. \A y \in us : MaxUid + 1 - y \in Uids
    OBVIOUS
  <2>4. QED
    BY <2>2, <2>3
<1>2. PICK k \in mirror : \A j \in mirror : k <= j
  <2> HIDE DEF mirror
  <2> QED BY <1>1, LowestIsThere
<1>3. PICK top \in us : k = MaxUid + 1 - top
  OBVIOUS
<1>4. ASSUME NEW y \in us PROVE y <= top
  <2>1. MaxUid + 1 - top <= MaxUid + 1 - y
    BY <1>2, <1>3
  <2>2. top \in Nat /\ y \in Nat
    OBVIOUS
  <2> QED
    BY <2>1, <2>2
<1> QED
  BY <1>4 DEF Highest

-----------------------------------------------------------------------------
\* A step of a run, for either process: FETCH ...
Fetches(f, run, next) ==
  /\ run.pc = "fetch"
  /\ \/ next = Over
     \/ next = [run EXCEPT !.pc = "collect", !.stream = FetchRange(f, run.last)]
  /\ UNCHANGED <<dbVars, forgone>>

\* ... the next response, which may be left out ...
Collects(f, run, next) ==
  LET u == Lowest(run.stream)
  IN  /\ run.pc = "collect"
      /\ run.stream # {}
      /\ \/ /\ next = [run EXCEPT !.stream = @ \ {u}, !.batch = @ \cup {u}]
            /\ UNCHANGED forgone
         \/ /\ \/ next = [run EXCEPT !.stream = @ \ {u}]
               \/ next = [run EXCEPT !.stream = @ \ {u}, !.batch = @ \cup {u},
                                     !.bare = @ \cup {u}]
            /\ forgone' = [forgone EXCEPT ![f] = @ \cup {u}]
      /\ UNCHANGED dbVars

\* ... the import of the batch ...
Flushes(f, run, next) ==
  LET us == run.batch \ run.bare
  IN  /\ run.pc = "collect"
      /\ next = [run EXCEPT !.batch = {}, !.bare = {}, !.some = TRUE]
      /\ InsertRows(f, us, minted[f][run.val])
      /\ lastUid' = IF us = {} THEN lastUid ELSE [lastUid EXCEPT ![f] = Highest(us)]
      /\ UNCHANGED <<storedVal, forgone>>

\* ... and the end, of the stream or of the run.
Ends(f, run, next) ==
  /\ \/ next = Over
     \/ run.pc = "collect" /\ next \in {[run EXCEPT !.stream = {}], [run EXCEPT !.pc = "finish"]}
  /\ UNCHANGED <<entries, content, fts, lastUid, forgone>>
  /\ storedVal' \in {storedVal, [storedVal EXCEPT ![f] = run.val]}

RunStep(f, run, next) ==
  /\ UNCHANGED serverVars
  /\ faults' \in 0..MaxFaults
  /\ Fetches(f, run, next) \/ Collects(f, run, next) \/ Flushes(f, run, next) \/ Ends(f, run, next)

\* Every action of a run in serve is such a step ...
LEMMA ServeRunSteps ==
  ASSUME ProcTypeOK, NEW f \in Synced, RunOK(f, syncServe[f]),
         ServeRun(f) \/ ((S!SyncBreak(f) \/ S!SyncAbort(f)) /\ UNCHANGED <<migrateVars, syncCommand, asked, ran>>)
  PROVE  \E next : /\ syncServe' = [syncServe EXCEPT ![f] = next]
                   /\ RunStep(f, syncServe[f], next)
<1> DEFINE run == syncServe[f]
<1> USE ProcConstants, RunsAreRuns
<1>t. /\ f \in Folders /\ syncServe \in [Folders -> Runs] /\ faults \in 0..MaxFaults
      /\ run \in Runs
  BY DEF ProcTypeOK, S!SyncTypeOK
<1>f. \A kind : S!Fault(kind) => faults' \in 0..MaxFaults
  BY <1>t DEF S!Fault
<1>s. /\ UNCHANGED S!serverVars => UNCHANGED serverVars
      /\ UNCHANGED S!dbVars => UNCHANGED dbVars
  BY DEF S!serverVars, serverVars, S!dbVars, dbVars
<1>1. CASE S!SyncFetch(f)
  <2>1. PICK next \in {Over, [run EXCEPT !.pc = "collect", !.stream = FetchRange(f, run.last)]} :
          syncServe' = [syncServe EXCEPT ![f] = next]
    BY <1>1 DEF S!SyncFetch, S!FetchRange, FetchRange
  <2>2. Fetches(f, run, next) /\ UNCHANGED <<serverVars, faults>>
    BY <1>1, <1>s, <2>1 DEF S!SyncFetch, Fetches
  <2> QED
    BY <1>t, <2>1, <2>2 DEF RunStep
<1>2. CASE S!SyncCollect(f)
  <2>1. S!NextOf(run) = Lowest(run.stream)
    BY DEF S!NextOf, Lowest
  <2>2. PICK next : syncServe' = [syncServe EXCEPT ![f] = next] /\ Collects(f, run, next)
    BY <1>2, <1>s, <2>1
    DEF S!SyncCollect, S!Collected, S!CollectSkipped, S!CollectedBare, Collects
  <2>3. UNCHANGED serverVars /\ faults' \in 0..MaxFaults
    BY <1>2, <1>s, <1>t, <1>f DEF S!SyncCollect
  <2> QED
    BY <2>2, <2>3 DEF RunStep
<1>3. CASE S!SyncFlush(f)
  <2>1. S!InsertRows(f, run.batch \ run.bare, minted[f][run.val])
          <=> InsertRows(f, run.batch \ run.bare, minted[f][run.val])
    BY DEF S!InsertRows, InsertRows, S!NewRows, NewRows, S!Uids, Uids
  <2>2. Flushes(f, run, S!Flushed(run)) /\ syncServe' = [syncServe EXCEPT ![f] = S!Flushed(run)]
    BY <1>3, <2>1
    DEF S!SyncFlush, S!ImportMessageBatch, S!UpdateLastUID, S!Flushed, Flushes, Highest
  <2>3. UNCHANGED <<serverVars, faults>>
    BY <1>3, <1>s DEF S!SyncFlush
  <2> QED
    BY <1>t, <2>2, <2>3 DEF RunStep
<1>4. CASE S!SyncStreamEnd(f)
  <2>1. PICK next \in {Over, [run EXCEPT !.pc = "finish"]} :
          syncServe' = [syncServe EXCEPT ![f] = next]
    BY <1>4 DEF S!SyncStreamEnd
  <2>2. Ends(f, run, next) /\ UNCHANGED <<serverVars, faults>>
    BY <1>4, <1>s, <2>1 DEF S!SyncStreamEnd, Ends, dbVars
  <2> QED
    BY <1>t, <2>1, <2>2 DEF RunStep
<1>5. CASE S!SyncFinish(f)
  <2>1. Ends(f, run, Over) /\ syncServe' = [syncServe EXCEPT ![f] = Over] /\ UNCHANGED serverVars
    BY <1>5, <1>s DEF S!SyncFinish, S!PersistUIDValidity, Ends, dbVars
  <2>2. faults' \in 0..MaxFaults
    BY <1>5, <1>f, <1>t DEF S!SyncFinish
  <2> QED
    BY <2>1, <2>2 DEF RunStep
<1>6. CASE S!SyncBreak(f)
  <2>1. syncServe' = [syncServe EXCEPT ![f] = [run EXCEPT !.stream = {}]]
    BY <1>6, <1>t DEF S!SyncBreak
  <2>2. Ends(f, run, [run EXCEPT !.stream = {}]) /\ UNCHANGED serverVars
    BY <1>6, <1>s DEF S!SyncBreak, Ends, dbVars
  <2> QED
    BY <1>6, <1>f, <2>1, <2>2 DEF RunStep, S!SyncBreak
<1>7. CASE S!SyncAbort(f)
  <2>1. Ends(f, run, Over) /\ syncServe' = [syncServe EXCEPT ![f] = Over] /\ UNCHANGED serverVars
    BY <1>7, <1>s DEF S!SyncAbort, Ends, dbVars
  <2> QED
    BY <1>7, <1>f, <2>1 DEF RunStep, S!SyncAbort
<1> QED
  BY <1>1, <1>2, <1>3, <1>4, <1>5, <1>6, <1>7 DEF ServeRun

\* ... and every action of a run of the command.
LEMMA CommandRunSteps ==
  ASSUME ProcTypeOK, NEW f \in Synced, RunOK(f, syncCommand[f]),
         CommandRun(f) \/ ((C!SyncBreak(f) \/ C!SyncAbort(f)) /\ UNCHANGED <<migrateVars, syncServe, asked, ran>>)
  PROVE  \E next : /\ syncCommand' = [syncCommand EXCEPT ![f] = next]
                   /\ RunStep(f, syncCommand[f], next)
<1> DEFINE run == syncCommand[f]
<1> USE ProcConstants, RunsAreRuns
<1>t. /\ f \in Folders /\ syncCommand \in [Folders -> Runs] /\ faults \in 0..MaxFaults
      /\ run \in Runs
  BY DEF ProcTypeOK, C!SyncTypeOK
<1>f. \A kind : C!Fault(kind) => faults' \in 0..MaxFaults
  BY <1>t DEF C!Fault
<1>s. /\ UNCHANGED C!serverVars => UNCHANGED serverVars
      /\ UNCHANGED C!dbVars => UNCHANGED dbVars
  BY DEF C!serverVars, serverVars, C!dbVars, dbVars
<1>1. CASE C!SyncFetch(f)
  <2>1. PICK next \in {Over, [run EXCEPT !.pc = "collect", !.stream = FetchRange(f, run.last)]} :
          syncCommand' = [syncCommand EXCEPT ![f] = next]
    BY <1>1 DEF C!SyncFetch, C!FetchRange, FetchRange
  <2>2. Fetches(f, run, next) /\ UNCHANGED <<serverVars, faults>>
    BY <1>1, <1>s, <2>1 DEF C!SyncFetch, Fetches
  <2> QED
    BY <1>t, <2>1, <2>2 DEF RunStep
<1>2. CASE C!SyncCollect(f)
  <2>1. C!NextOf(run) = Lowest(run.stream)
    BY DEF C!NextOf, Lowest
  <2>2. PICK next : syncCommand' = [syncCommand EXCEPT ![f] = next] /\ Collects(f, run, next)
    BY <1>2, <1>s, <2>1
    DEF C!SyncCollect, C!Collected, C!CollectSkipped, C!CollectedBare, Collects
  <2>3. UNCHANGED serverVars /\ faults' \in 0..MaxFaults
    BY <1>2, <1>s, <1>t, <1>f DEF C!SyncCollect
  <2> QED
    BY <2>2, <2>3 DEF RunStep
<1>3. CASE C!SyncFlush(f)
  <2>1. C!InsertRows(f, run.batch \ run.bare, minted[f][run.val])
          <=> InsertRows(f, run.batch \ run.bare, minted[f][run.val])
    BY DEF C!InsertRows, InsertRows, C!NewRows, NewRows, C!Uids, Uids
  <2>2. Flushes(f, run, C!Flushed(run)) /\ syncCommand' = [syncCommand EXCEPT ![f] = C!Flushed(run)]
    BY <1>3, <2>1
    DEF C!SyncFlush, C!ImportMessageBatch, C!UpdateLastUID, C!Flushed, Flushes, Highest
  <2>3. UNCHANGED <<serverVars, faults>>
    BY <1>3, <1>s DEF C!SyncFlush
  <2> QED
    BY <1>t, <2>2, <2>3 DEF RunStep
<1>4. CASE C!SyncStreamEnd(f)
  <2>1. PICK next \in {Over, [run EXCEPT !.pc = "finish"]} :
          syncCommand' = [syncCommand EXCEPT ![f] = next]
    BY <1>4 DEF C!SyncStreamEnd
  <2>2. Ends(f, run, next) /\ UNCHANGED <<serverVars, faults>>
    BY <1>4, <1>s, <2>1 DEF C!SyncStreamEnd, Ends, dbVars
  <2> QED
    BY <1>t, <2>1, <2>2 DEF RunStep
<1>5. CASE C!SyncFinish(f)
  <2>1. Ends(f, run, Over) /\ syncCommand' = [syncCommand EXCEPT ![f] = Over] /\ UNCHANGED serverVars
    BY <1>5, <1>s DEF C!SyncFinish, C!PersistUIDValidity, Ends, dbVars
  <2>2. faults' \in 0..MaxFaults
    BY <1>5, <1>f, <1>t DEF C!SyncFinish
  <2> QED
    BY <2>1, <2>2 DEF RunStep
<1>6. CASE C!SyncBreak(f)
  <2>1. syncCommand' = [syncCommand EXCEPT ![f] = [run EXCEPT !.stream = {}]]
    BY <1>6, <1>t DEF C!SyncBreak
  <2>2. Ends(f, run, [run EXCEPT !.stream = {}]) /\ UNCHANGED serverVars
    BY <1>6, <1>s DEF C!SyncBreak, Ends, dbVars
  <2> QED
    BY <1>6, <1>f, <2>1, <2>2 DEF RunStep, C!SyncBreak
<1>7. CASE C!SyncAbort(f)
  <2>1. Ends(f, run, Over) /\ syncCommand' = [syncCommand EXCEPT ![f] = Over] /\ UNCHANGED serverVars
    BY <1>7, <1>s DEF C!SyncAbort, Ends, dbVars
  <2> QED
    BY <1>7, <1>f, <2>1 DEF RunStep, C!SyncAbort
<1> QED
  BY <1>1, <1>2, <1>3, <1>4, <1>5, <1>6, <1>7 DEF CommandRun

-----------------------------------------------------------------------------
\* What the step of a run does for everybody else: nothing known is forgotten,
\* and last_uid stays safe.
OthersKeep(f) ==
  /\ UNCHANGED serverVars
  /\ \A g \in Folders \ {f} : UNCHANGED <<lastUid[g]>>
  /\ \A g \in Folders : forgone[g] \subseteq forgone'[g]
  /\ \A g \in Folders, u \in Uids : Known(g, u) => Known(g, u)'
  /\ \E x : lastUid'[f] = x /\ (x = lastUid[f] \/ Safe(f, x)')

LEMMA SafeStays ==
  ASSUME ProcTypeOK, NEW f \in Folders, OthersKeep(f), NEW g \in Folders, NEW x, Safe(g, x)
  PROVE  Safe(g, x)'
<1>1. mbox[g] \subseteq Uids /\ mbox'[g] = mbox[g] /\ uidNext'[g] = uidNext[g]
  BY DEF OthersKeep, serverVars, ProcTypeOK, ServerTypeOK
<1> QED
  BY <1>1 DEF OthersKeep, Safe, Covered

LEMMA RunStays ==
  ASSUME ProcTypeOK, NEW f \in Folders, OthersKeep(f), NEW g \in Folders, NEW run \in Runs, RunOK(g, run)
  PROVE  RunOK(g, run)'
<1>1. mbox[g] \subseteq Uids /\ mbox'[g] = mbox[g] /\ uidNext'[g] = uidNext[g]
  BY DEF OthersKeep, serverVars, ProcTypeOK, ServerTypeOK
<1>2. \A x : Safe(g, x) => Safe(g, x)'
  BY SafeStays
<1>3. Streaming(g, run) => Streaming(g, run)'
  BY <1>1 DEF OthersKeep, Streaming
<1> QED
  BY <1>2, <1>3 DEF RunOK

\* The folders stay in order whoever runs.
LEMMA FolderStays ==
  ASSUME ProcTypeOK, NEW f \in Folders, OthersKeep(f), \A g \in Folders : FolderOK(g),
         UNCHANGED asked, NEW g \in Folders
  PROVE  FolderOK(g)'
<1>1. mbox'[g] = mbox[g] /\ uidNext'[g] = uidNext[g] /\ validity'[g] = validity[g] /\ minted'[g] = minted[g]
  BY DEF OthersKeep, serverVars
<1>2. UidsInOrder(g)'
  BY <1>1 DEF FolderOK, UidsInOrder
<1>3. PICK x : lastUid'[g] = x /\ (x = lastUid[g] \/ Safe(g, x)')
  BY DEF OthersKeep
<1>4. Safe(g, x)'
  BY <1>3, SafeStays DEF FolderOK
<1>5. Safe(g, lastUid[g])'
  BY <1>3, <1>4 DEF Safe, Covered, Known
<1>6. ASSUME NEW p \in Procs, (asked[p][g] # Unread)'
      PROVE  Safe(g, asked[p][g])'
  <2>1. PICK y : y = asked[p][g] /\ y = asked'[p][g]
    OBVIOUS
  <2>2. Safe(g, y)
    BY <1>6, <2>1 DEF FolderOK, Unread
  <2>3. Safe(g, y)'
    BY <2>2, SafeStays
  <2> QED
    BY <2>1, <2>3 DEF Safe, Covered, Known
<1> QED
  BY <1>2, <1>5, <1>6 DEF FolderOK

\* A step of a run keeps what the others rely on, and makes a run again.
LEMMA FetchesKeeps ==
  ASSUME ProcTypeOK, NEW f \in Folders, NEW run \in Runs, NEW next,
         RunOK(f, run), FolderOK(f), UNCHANGED serverVars, Fetches(f, run, next)
  PROVE  OthersKeep(f) /\ next \in Runs /\ RunOK(f, next)'
<1> USE ProcConstants, RunsAreRuns
<1>1. mbox[f] \in SUBSET Uids /\ mbox'[f] = mbox[f] /\ uidNext'[f] = uidNext[f]
  BY DEF serverVars, ProcTypeOK, ServerTypeOK
<1>2. UNCHANGED <<entries, forgone, lastUid>>
  BY DEF Fetches, dbVars
<1>3. OthersKeep(f)
  BY <1>2 DEF OthersKeep, Known
<1>4. CASE next = Over
  BY <1>3, <1>4 DEF RunOK
<1>5. CASE next = [run EXCEPT !.pc = "collect", !.stream = FetchRange(f, run.last)]
  <2> DEFINE range == FetchRange(f, run.last)
  <2>1. range \in SUBSET Uids /\ \A y \in range : y \in mbox[f]
    BY <1>1 DEF FetchRange
  <2>2. run.pc = "fetch" /\ run.batch = {} /\ run.bare = {} /\ Safe(f, run.last) /\ run.val = 1
    BY DEF Fetches, RunOK
  <2>3. ASSUME NEW y \in range, NEW u \in mbox[f], u < y
        PROVE  Known(f, u) \/ u \in range
    <3>1. u \in Nat /\ run.last \in Nat
      BY <1>1
    <3>2. CASE u <= run.last
      BY <2>2, <3>2 DEF Safe, Covered
    <3>3. CASE u > run.last
      BY <3>3 DEF FetchRange
    <3> QED
      BY <3>1, <3>2, <3>3
  <2>4. \A y \in range : y < uidNext[f]
    BY <2>1 DEF FolderOK, UidsInOrder
  <2>5. /\ next \in Runs /\ next.pc = "collect" /\ next.val = 1
        /\ next.stream = range /\ next.batch = {} /\ next.bare = {}
    <3> HIDE DEF range
    <3> QED BY <1>5, <2>1, <2>2 DEF range
  <2>6. Streaming(f, next)'
    <3> HIDE DEF range
    <3> QED BY <1>1, <1>2, <2>1, <2>3, <2>4, <2>5 DEF Streaming, Known
  <2> QED
    BY <1>3, <2>5, <2>6 DEF RunOK
<1> QED
  BY <1>3, <1>4, <1>5 DEF Fetches

LEMMA CollectsKeeps ==
  ASSUME ProcTypeOK, NEW f \in Folders, NEW run \in Runs, NEW next,
         RunOK(f, run), FolderOK(f), UNCHANGED serverVars, Collects(f, run, next)
  PROVE  OthersKeep(f) /\ next \in Runs /\ RunOK(f, next)'
<1> USE ProcConstants, RunsAreRuns
<1>0. PICK u : u = Lowest(run.stream)
  OBVIOUS
<1>1. mbox[f] \in SUBSET Uids /\ mbox'[f] = mbox[f] /\ uidNext'[f] = uidNext[f]
  BY DEF serverVars, ProcTypeOK, ServerTypeOK
<1>2. /\ run.pc = "collect" /\ run.val = 1 /\ Streaming(f, run)
      /\ run.stream \in SUBSET Uids /\ run.batch \in SUBSET Uids /\ run.bare \in SUBSET Uids
  BY DEF Collects, RunOK
<1>3. u \in run.stream /\ \A w \in run.stream : u <= w
  BY <1>0, <1>2, LowestIsThere DEF Collects
<1>4. UNCHANGED <<entries, lastUid>> /\ \A g \in Folders : forgone[g] \subseteq forgone'[g]
  <2>1. forgone \in [Folders -> SUBSET S!Uids]
    BY DEF ProcTypeOK, S!SyncTypeOK
  <2>2. \/ forgone' = forgone
        \/ forgone' = [forgone EXCEPT ![f] = @ \cup {u}]
    BY <1>0 DEF Collects
  <2> QED
    BY <2>1, <2>2 DEF Collects, dbVars
<1>5. OthersKeep(f)
  BY <1>4 DEF OthersKeep, Known
<1>6. /\ \A x \in run.batch, y \in run.stream : x < y
      /\ \A y \in run.stream \ {u} : u < y
  BY <1>2, <1>3 DEF Streaming
<1>7. /\ next \in Runs /\ next.pc = "collect" /\ next.val = 1
      /\ next.stream = run.stream \ {u}
      /\ \/ next.batch = run.batch \cup {u} /\ next.bare = run.bare
         \/ next.batch = run.batch /\ next.bare = run.bare /\ u \in forgone'[f]
         \/ next.batch = run.batch \cup {u} /\ next.bare = run.bare \cup {u} /\ u \in forgone'[f]
  <2>1. \/ next = [run EXCEPT !.stream = @ \ {u}, !.batch = @ \cup {u}]
        \/ next = [run EXCEPT !.stream = @ \ {u}] /\ u \in forgone'[f]
        \/ next = [run EXCEPT !.stream = @ \ {u}, !.batch = @ \cup {u}, !.bare = @ \cup {u}]
             /\ u \in forgone'[f]
    BY <1>0 DEF Collects, ProcTypeOK, S!SyncTypeOK
  <2>2. u \in Uids /\ run.pc = "collect" /\ run.val = 1
    BY <1>2, <1>3
  <2>3. CASE next = [run EXCEPT !.stream = @ \ {u}, !.batch = @ \cup {u}]
    BY <2>2, <2>3
  <2>4. CASE next = [run EXCEPT !.stream = @ \ {u}] /\ u \in forgone'[f]
    BY <2>2, <2>4
  <2>5. CASE next = [run EXCEPT !.stream = @ \ {u}, !.batch = @ \cup {u}, !.bare = @ \cup {u}]
               /\ u \in forgone'[f]
    BY <2>2, <2>5
  <2> QED
    BY <2>1, <2>3, <2>4, <2>5
<1>8. Streaming(f, next)'
  <2>1. next.bare \subseteq forgone'[f]
    BY <1>2, <1>4, <1>7 DEF Streaming
  <2>2. \A x \in next.batch, y \in next.stream : x < y
    <3>1. next.batch \subseteq run.batch \cup {u}
      BY <1>7
    <3> QED
      BY <1>6, <1>7, <3>1
  <2>3. ASSUME NEW y \in next.batch \cup next.stream
        PROVE  /\ y < uidNext'[f]
               /\ \A w \in mbox'[f] : w < y => Known(f, w)' \/ w \in next.batch \cup next.stream
    <3>1. y \in run.batch \cup run.stream
      BY <1>3, <1>7
    <3>2. /\ y < uidNext[f]
          /\ \A w \in mbox[f] : w < y => Known(f, w) \/ w \in run.batch \cup run.stream
      BY <1>2, <3>1 DEF Streaming
    <3>3. \A w \in run.batch \cup run.stream : w \in next.batch \cup next.stream \/ w \in forgone'[f]
      BY <1>7
    <3> QED
      BY <1>1, <1>4, <3>2, <3>3 DEF Known
  <2> QED
    BY <2>1, <2>2, <2>3 DEF Streaming
<1> QED
  BY <1>5, <1>7, <1>8 DEF RunOK

LEMMA FlushesKeeps ==
  ASSUME ProcTypeOK, NEW f \in Folders, NEW run \in Runs, NEW next,
         RunOK(f, run), FolderOK(f), UNCHANGED serverVars, Flushes(f, run, next)
  PROVE  OthersKeep(f) /\ next \in Runs /\ RunOK(f, next)'
<1> USE ProcConstants, RunsAreRuns
<1> DEFINE us == run.batch \ run.bare
<1>1. mbox[f] \in SUBSET Uids /\ mbox'[f] = mbox[f] /\ uidNext'[f] = uidNext[f]
  BY DEF serverVars, ProcTypeOK, ServerTypeOK
<1>2. /\ run.pc = "collect" /\ run.val = 1 /\ Streaming(f, run)
      /\ run.stream \in SUBSET Uids /\ run.batch \in SUBSET Uids /\ us \in SUBSET Uids
  BY DEF Flushes, RunOK
<1>3. UNCHANGED forgone
  BY DEF Flushes
<1>4. /\ entries' = [entries EXCEPT ![f] =
                      [u \in Uids |-> IF u \in us /\ entries[f][u] = Absent
                                        THEN minted[f][1][u] ELSE @[u]]]
      /\ entries \in [Folders -> [Uids -> MsgOrNone]]
  BY <1>2 DEF Flushes, InsertRows, NewRows, ProcTypeOK, DBTypeOK
<1>5. \A g \in Folders, u \in Uids : Known(g, u) => Known(g, u)'
  <2>1. \A g \in Folders, u \in Uids : entries[g][u] # Absent => entries'[g][u] # Absent
    BY <1>4
  <2> QED
    BY <1>3, <2>1 DEF Known
<1>6. \A u \in us : Known(f, u)'
  <2>1. \A u \in us : minted[f][1][u] # Absent
    BY <1>2 DEF Streaming, FolderOK, UidsInOrder
  <2>2. \A u \in us : entries'[f][u] # Absent
    BY <1>2, <1>4, <2>1
  <2> QED
    BY <2>2 DEF Known
<1>7. \A u \in run.batch : Known(f, u)'
  BY <1>2, <1>3, <1>6 DEF Streaming, Known
<1>8. ASSUME us # {} PROVE Safe(f, Highest(us))'
  <2>1. Highest(us) \in us /\ \A w \in us : w <= Highest(us)
    BY <1>2, <1>8, HighestIsThere
  <2> DEFINE top == Highest(us)
  <2>2. top \in run.batch
    BY <2>1
  <2> HIDE DEF us, top
  <2>3. /\ top < uidNext[f] /\ \A y \in run.stream : top < y
        /\ \A u \in mbox[f] : u < top => Known(f, u) \/ u \in run.batch \cup run.stream
    BY <1>2, <2>2 DEF Streaming
  <2>4. \A u \in mbox[f] : u <= top => Known(f, u)'
    <3> SUFFICES ASSUME NEW u \in mbox[f], u <= top PROVE Known(f, u)'
      OBVIOUS
    <3>1. u \in Uids /\ u \in Nat /\ top \in Nat
      BY <1>1, <1>2, <2>2
    <3>2. CASE u = top
      BY <1>7, <2>2, <3>2
    <3>3. CASE u < top
      <4>1. u \notin run.stream
        BY <2>3, <3>1, <3>3
      <4> QED
        BY <1>5, <1>7, <2>3, <3>1, <3>3, <4>1
    <3> QED
      BY <3>1, <3>2, <3>3
  <2> QED
    BY <1>1, <2>3, <2>4 DEF top, Safe, Covered
<1>9. OthersKeep(f)
  <2>1. \E x : lastUid'[f] = x /\ (x = lastUid[f] \/ Safe(f, x)')
    <3>1. CASE us = {}
      BY <3>1 DEF Flushes
    <3>2. CASE us # {}
      <4>1. lastUid'[f] = Highest(us)
        BY <3>2 DEF Flushes, ProcTypeOK, DBTypeOK
      <4> QED
        BY <1>8, <3>2, <4>1
    <3> QED
      BY <3>1, <3>2
  <2>2. \A g \in Folders \ {f} : lastUid'[g] = lastUid[g]
    BY DEF Flushes, ProcTypeOK, DBTypeOK
  <2> QED
    BY <1>3, <1>5, <2>1, <2>2 DEF OthersKeep
<1>10. /\ next \in Runs /\ next.pc = "collect" /\ next.val = 1
       /\ next.stream = run.stream /\ next.batch = {} /\ next.bare = {}
  BY <1>2 DEF Flushes
<1>11. Streaming(f, next)'
  <2>1. ASSUME NEW y \in next.stream
        PROVE  /\ y < uidNext'[f]
               /\ \A w \in mbox'[f] : w < y => Known(f, w)' \/ w \in next.stream
    <3>1. /\ y < uidNext[f]
          /\ \A w \in mbox[f] : w < y => Known(f, w) \/ w \in run.batch \cup run.stream
      BY <1>2, <1>10, <2>1 DEF Streaming
    <3> QED
      BY <1>1, <1>5, <1>7, <1>10, <3>1
  <2> QED
    BY <1>10, <2>1 DEF Streaming
<1> QED
  BY <1>9, <1>10, <1>11 DEF RunOK

LEMMA EndsKeeps ==
  ASSUME ProcTypeOK, NEW f \in Folders, NEW run \in Runs, NEW next,
         RunOK(f, run), FolderOK(f), UNCHANGED serverVars, Ends(f, run, next)
  PROVE  OthersKeep(f) /\ next \in Runs /\ RunOK(f, next)'
<1> USE ProcConstants, RunsAreRuns
<1>1. mbox[f] \in SUBSET Uids /\ mbox'[f] = mbox[f] /\ uidNext'[f] = uidNext[f]
  BY DEF serverVars, ProcTypeOK, ServerTypeOK
<1>2. UNCHANGED <<entries, lastUid, forgone>>
  BY DEF Ends
<1>3. OthersKeep(f)
  BY <1>2 DEF OthersKeep, Known
<1>4. CASE next = Over
  BY <1>3, <1>4 DEF RunOK
<1>5. CASE run.pc = "collect" /\ next = [run EXCEPT !.pc = "finish"]
  BY <1>3, <1>5 DEF RunOK
<1>6. CASE run.pc = "collect" /\ next = [run EXCEPT !.stream = {}]
  <2>1. /\ next \in Runs /\ next.pc = "collect" /\ next.val = 1
        /\ next.stream = {} /\ next.batch = run.batch /\ next.bare = run.bare
        /\ Streaming(f, run) /\ run.batch \in SUBSET Uids /\ run.stream \in SUBSET Uids
    BY <1>6 DEF RunOK
  <2>2. ASSUME NEW y \in run.batch
        PROVE  y < uidNext[f] /\ \A w \in mbox[f] : w < y => Known(f, w) \/ w \in run.batch
    <3>1. \A w \in run.stream : ~ (w < y)
      BY <2>1 DEF Streaming
    <3> QED
      BY <2>1, <3>1 DEF Streaming
  <2>3. Streaming(f, next)'
    BY <1>1, <1>2, <2>1, <2>2 DEF Streaming, Known
  <2> QED
    BY <1>3, <2>1, <2>3 DEF RunOK
<1> QED
  BY <1>4, <1>5, <1>6 DEF Ends

\* The tables keep their types.
LEMMA RunStepTyped ==
  ASSUME ProcTypeOK, NEW f \in Folders, NEW run \in Runs, NEW next,
         RunOK(f, run), RunStep(f, run, next)
  PROVE  ServerTypeOK' /\ DBTypeOK' /\ forgone' \in [Folders -> SUBSET Uids]
<1> USE ProcConstants, RunsAreRuns
<1>t. /\ ServerTypeOK /\ DBTypeOK /\ forgone \in [Folders -> SUBSET Uids]
      /\ storedVal \in [Folders -> 0..1] /\ lastUid \in [Folders -> 0..MaxUid]
  BY DEF ProcTypeOK, S!SyncTypeOK, S!Uids, Uids, DBTypeOK
<1>s. ServerTypeOK'
  BY <1>t DEF RunStep, serverVars, ServerTypeOK
<1>r. run.stream \in SUBSET Uids /\ run.batch \in SUBSET Uids /\ run.val \in 0..1
  OBVIOUS
<1>1. CASE Fetches(f, run, next)
  BY <1>t, <1>s, <1>1 DEF Fetches, dbVars, DBTypeOK
<1>2. CASE Collects(f, run, next)
  <2>1. Lowest(run.stream) \in Uids
    BY <1>2, <1>r, LowestIsThere DEF Collects
  <2>2. DBTypeOK'
    BY <1>t, <1>2 DEF Collects, dbVars, DBTypeOK
  <2>3. forgone' \in [Folders -> SUBSET Uids]
    BY <1>t, <1>2, <2>1 DEF Collects
  <2> QED
    BY <1>s, <2>2, <2>3
<1>3. CASE Flushes(f, run, next)
  <2> DEFINE us == run.batch \ run.bare
  <2>1. run.val = 1 /\ us \in SUBSET Uids
    BY <1>3, <1>r DEF Flushes, RunOK
  <2>2. PICK msg : msg = minted[f][1] /\ msg \in [Uids -> MsgOrNone]
    BY <1>t DEF ServerTypeOK
  <2>3. InsertRows(f, us, msg)
    BY <1>3, <2>1, <2>2 DEF Flushes
  <2>4. lastUid' \in [Folders -> 0..MaxUid]
    <3>1. us # {} => Highest(us) \in 0..MaxUid
      BY <2>1, HighestIsThere
    <3> QED
      BY <1>t, <1>3, <3>1 DEF Flushes
  <2> HIDE DEF us
  <2>5. entries' \in [Folders -> [Uids -> MsgOrNone]]
    BY <1>t, <2>2, <2>3 DEF InsertRows, DBTypeOK
  <2>6. content' \in [Folders -> [Uids -> MsgOrNone]]
    BY <1>t, <2>2, <2>3 DEF InsertRows, DBTypeOK
  <2>7. fts' \in [Folders -> [Uids -> SUBSET MsgOrNone]]
    BY <1>t, <2>2, <2>3 DEF InsertRows, DBTypeOK
  <2> QED
    BY <1>s, <1>t, <1>3, <2>4, <2>5, <2>6, <2>7 DEF Flushes, DBTypeOK
<1>4. CASE Ends(f, run, next)
  <2>1. storedVal' \in [Folders -> 0..1]
    BY <1>t, <1>r, <1>4 DEF Ends
  <2> QED
    BY <1>s, <1>t, <1>4, <2>1 DEF Ends, DBTypeOK
<1> QED
  BY <1>1, <1>2, <1>3, <1>4 DEF RunStep

LEMMA RunStepKeeps ==
  ASSUME ProcTypeOK, NEW f \in Folders, NEW run \in Runs, NEW next,
         RunOK(f, run), FolderOK(f), RunStep(f, run, next)
  PROVE  OthersKeep(f) /\ next \in Runs /\ RunOK(f, next)'
BY FetchesKeeps, CollectsKeeps, FlushesKeeps, EndsKeeps DEF RunStep

\* A step of a run of serve keeps the invariant ...
LEMMA ServeKeeps ==
  ASSUME ProcInv, NEW f \in Synced,
         ServeRun(f) \/ ((S!SyncBreak(f) \/ S!SyncAbort(f)) /\ UNCHANGED <<migrateVars, syncCommand, asked, ran>>)
  PROVE  ProcInv'
<1> USE ProcConstants, RunsAreRuns
<1>1. /\ f \in Folders /\ ProcTypeOK /\ TwoRunsInv
      /\ syncServe \in [Folders -> Runs] /\ syncCommand \in [Folders -> Runs]
  BY DEF ProcInv, ProcTypeOK, S!SyncTypeOK, C!SyncTypeOK
<1>2. PICK next : syncServe' = [syncServe EXCEPT ![f] = next] /\ RunStep(f, syncServe[f], next)
  BY <1>1, ServeRunSteps DEF TwoRunsInv
<1>3. UNCHANGED <<migrateVars, syncCommand, asked, ran>>
  BY DEF ServeRun
<1>4. OthersKeep(f) /\ next \in Runs /\ RunOK(f, next)'
  BY <1>1, <1>2, RunStepKeeps DEF TwoRunsInv
<1>5. ServerTypeOK' /\ DBTypeOK' /\ forgone' \in [Folders -> SUBSET Uids] /\ faults' \in 0..MaxFaults
  BY <1>1, <1>2, RunStepTyped DEF TwoRunsInv, RunStep
<1>6. syncServe' \in [Folders -> Runs] /\ syncCommand' \in [Folders -> Runs]
  BY <1>1, <1>2, <1>3, <1>4
<1>7. MigrateInv'
  BY <1>3 DEF ProcInv, MigrateInv, MigrateTypeOK, ExecutedIsThere, StartsAgain, migrateVars
<1>8. ProcTypeOK'
  BY <1>3, <1>5, <1>6, <1>7
  DEF ProcInv, ProcTypeOK, MigrateInv, S!SyncTypeOK, C!SyncTypeOK, S!Uids, C!Uids, Uids
<1>9. ASSUME NEW g \in Folders
      PROVE  FolderOK(g)' /\ RunOK(g, syncServe[g])' /\ RunOK(g, syncCommand[g])'
  <2>1. FolderOK(g)'
    BY <1>1, <1>3, <1>4, FolderStays DEF TwoRunsInv
  <2>2. PICK run, other : run = syncServe'[g] /\ other = syncCommand'[g]
    OBVIOUS
  <2>3. RunOK(g, other)'
    BY <1>1, <1>3, <1>4, <2>2, RunStays DEF TwoRunsInv
  <2>4. RunOK(g, run)'
    <3>1. CASE g = f
      BY <1>1, <1>2, <1>4, <2>2, <3>1
    <3>2. CASE g # f
      <4>1. run = syncServe[g]
        BY <1>1, <1>2, <2>2, <3>2
      <4> QED
        BY <1>1, <1>4, <4>1, RunStays DEF TwoRunsInv
    <3> QED
      BY <3>1, <3>2
  <2> QED
    BY <2>1, <2>2, <2>3, <2>4 DEF RunOK, Streaming, Safe, Covered, Known
<1> QED
  BY <1>7, <1>8, <1>9 DEF ProcInv, TwoRunsInv

\* ... and so does one of a run of the command.
LEMMA CommandKeeps ==
  ASSUME ProcInv, NEW f \in Synced,
         CommandRun(f) \/ ((C!SyncBreak(f) \/ C!SyncAbort(f)) /\ UNCHANGED <<migrateVars, syncServe, asked, ran>>)
  PROVE  ProcInv'
<1> USE ProcConstants, RunsAreRuns
<1>1. /\ f \in Folders /\ ProcTypeOK /\ TwoRunsInv
      /\ syncCommand \in [Folders -> Runs] /\ syncServe \in [Folders -> Runs]
  BY DEF ProcInv, ProcTypeOK, C!SyncTypeOK, S!SyncTypeOK
<1>2. PICK next : syncCommand' = [syncCommand EXCEPT ![f] = next] /\ RunStep(f, syncCommand[f], next)
  BY <1>1, CommandRunSteps DEF TwoRunsInv
<1>3. UNCHANGED <<migrateVars, syncServe, asked, ran>>
  BY DEF CommandRun
<1>4. OthersKeep(f) /\ next \in Runs /\ RunOK(f, next)'
  BY <1>1, <1>2, RunStepKeeps DEF TwoRunsInv
<1>5. ServerTypeOK' /\ DBTypeOK' /\ forgone' \in [Folders -> SUBSET Uids] /\ faults' \in 0..MaxFaults
  BY <1>1, <1>2, RunStepTyped DEF TwoRunsInv, RunStep
<1>6. syncCommand' \in [Folders -> Runs] /\ syncServe' \in [Folders -> Runs]
  BY <1>1, <1>2, <1>3, <1>4
<1>7. MigrateInv'
  BY <1>3 DEF ProcInv, MigrateInv, MigrateTypeOK, ExecutedIsThere, StartsAgain, migrateVars
<1>8. ProcTypeOK'
  BY <1>3, <1>5, <1>6, <1>7
  DEF ProcInv, ProcTypeOK, MigrateInv, C!SyncTypeOK, S!SyncTypeOK, C!Uids, S!Uids, Uids
<1>9. ASSUME NEW g \in Folders
      PROVE  FolderOK(g)' /\ RunOK(g, syncCommand[g])' /\ RunOK(g, syncServe[g])'
  <2>1. FolderOK(g)'
    BY <1>1, <1>3, <1>4, FolderStays DEF TwoRunsInv
  <2>2. PICK run, other : run = syncCommand'[g] /\ other = syncServe'[g]
    OBVIOUS
  <2>3. RunOK(g, other)'
    BY <1>1, <1>3, <1>4, <2>2, RunStays DEF TwoRunsInv
  <2>4. RunOK(g, run)'
    <3>1. CASE g = f
      BY <1>1, <1>2, <1>4, <2>2, <3>1
    <3>2. CASE g # f
      <4>1. run = syncCommand[g]
        BY <1>1, <1>2, <2>2, <3>2
      <4> QED
        BY <1>1, <1>4, <4>1, RunStays DEF TwoRunsInv
    <3> QED
      BY <3>1, <3>2
  <2> QED
    BY <2>1, <2>2, <2>3, <2>4 DEF RunOK, Streaming, Safe, Covered, Known
<1> QED
  BY <1>7, <1>8, <1>9 DEF ProcInv, TwoRunsInv

\* Mail that comes has a new UID, above everything that was given.
NewAreAbove(g) ==
  /\ uidNext[g] <= uidNext'[g]
  /\ \A u \in mbox'[g] : u \in mbox[g] \/ u = uidNext[g]

LEMMA MailIsAbove ==
  ASSUME ProcTypeOK, TwoRunsInv, Mailbox, NEW g \in Folders
  PROVE  ServerTypeOK' /\ NewAreAbove(g) /\ UidsInOrder(g)'
<1> USE ProcConstants
<1>t. /\ mbox \in [Folders -> SUBSET Uids] /\ uidNext \in [Folders -> 1..(MaxUid + 1)]
      /\ validity \in [Folders -> {1}]
      /\ minted \in [Folders -> [{1} -> [Uids -> MsgOrNone]]]
      /\ UidsInOrder(g)
  BY DEF ProcTypeOK, ServerTypeOK, TwoRunsInv, FolderOK
<1>1. CASE \E f \in Folders, u \in Uids : Expunge(f, u)
  <2>1. PICK f \in Folders, u \in Uids : Expunge(f, u)
    BY <1>1
  <2>2. mbox' = [mbox EXCEPT ![f] = @ \ {u}] /\ UNCHANGED <<minted, uidNext, validity>>
    BY <2>1 DEF Expunge
  <2>3. NewAreAbove(g) /\ UidsInOrder(g)'
    BY <1>t, <2>2 DEF NewAreAbove, UidsInOrder
  <2> QED
    BY <1>t, <2>2, <2>3 DEF ServerTypeOK
<1>2. CASE \E f \in Folders, m \in Msgs : Deliver(f, m)
  <2>1. PICK f \in Folders, m \in Msgs : Deliver(f, m)
    BY <1>2
  <2>2. PICK new : new = uidNext[f] /\ new \in Uids
    BY <1>t, <2>1 DEF Deliver
  <2>3. /\ mbox' = [mbox EXCEPT ![f] = @ \cup {new}]
        /\ uidNext' = [uidNext EXCEPT ![f] = new + 1]
        /\ validity' = validity
    BY <1>t, <2>1, <2>2 DEF Deliver
  <2>4. minted' = [minted EXCEPT ![f][1][new] = m]
    BY <1>t, <2>1, <2>2 DEF Deliver
  <2>5. minted' \in [Folders -> [{1} -> [Uids -> MsgOrNone]]] /\ m \in MsgOrNone /\ m # Absent
    BY <1>t, <2>2, <2>4 DEF MsgOrNone
  <2>6. NewAreAbove(g)
    BY <1>t, <2>2, <2>3 DEF NewAreAbove
  <2>7. \A u \in Uids : u < uidNext'[g] => minted'[g][1][u] # Absent
    <3>1. CASE g = f
      <4>1. \A u \in Uids : u < new + 1 => u = new \/ u < new
        BY <2>2
      <4> QED
        BY <1>t, <2>2, <2>3, <2>4, <2>5, <3>1, <4>1 DEF UidsInOrder
    <3>2. CASE g # f
      BY <1>t, <2>3, <2>4, <3>2 DEF UidsInOrder
    <3> QED
      BY <3>1, <3>2
  <2>8. UidsInOrder(g)'
    <3>1. \A u \in mbox'[g] : u < uidNext'[g]
      BY <1>t, <2>2, <2>3 DEF UidsInOrder
    <3> QED
      BY <1>t, <2>3, <2>7, <3>1 DEF UidsInOrder
  <2>9. ServerTypeOK'
    <3>1. mbox' \in [Folders -> SUBSET Uids]
      BY <1>t, <2>2, <2>3
    <3>2. uidNext' \in [Folders -> 1..(MaxUid + 1)]
      BY <1>t, <2>2, <2>3
    <3> QED
      BY <1>t, <2>3, <2>5, <3>1, <3>2 DEF ServerTypeOK
  <2> QED
    BY <2>6, <2>8, <2>9
<1> QED
  BY <1>1, <1>2 DEF Mailbox

LEMMA MailboxKeeps ==
  ASSUME ProcInv, Mailbox
  PROVE  ProcInv'
<1> USE ProcConstants, RunsAreRuns
<1>t. /\ ProcTypeOK /\ TwoRunsInv
      /\ mbox \in [Folders -> SUBSET Uids] /\ uidNext \in [Folders -> 1..(MaxUid + 1)]
      /\ lastUid \in [Folders -> 0..MaxUid] /\ asked \in [Procs -> [Folders -> 0..(MaxUid + 1)]]
      /\ syncServe \in [Folders -> Runs] /\ syncCommand \in [Folders -> Runs]
  BY DEF ProcInv, ProcTypeOK, S!SyncTypeOK, C!SyncTypeOK, ServerTypeOK, DBTypeOK, Unread
<1>u. /\ UNCHANGED <<schema, legacy, stage, entries, content, fts, lastUid, storedVal>>
      /\ UNCHANGED <<syncServe, syncCommand, asked, ran, faults, forgone>>
  BY DEF Mailbox, migrateVars, dbVars
<1>1. ServerTypeOK'
  BY <1>t, MailIsAbove, ServerAssumption
<1>2. \A g \in Folders : UidsInOrder(g)' /\ NewAreAbove(g)
  BY <1>t, MailIsAbove
<1>3. ProcTypeOK' /\ MigrateInv'
  BY <1>t, <1>u, <1>1
  DEF ProcInv, MigrateInv, ProcTypeOK, MigrateTypeOK, DBTypeOK, S!SyncTypeOK, C!SyncTypeOK,
      ExecutedIsThere, StartsAgain
<1>4. ASSUME NEW g \in Folders, NEW x \in Nat, Safe(g, x)
      PROVE  Safe(g, x)'
  <2>1. x < uidNext[g] /\ \A u \in mbox[g] : u <= x => Known(g, u)
    BY <1>4 DEF Safe, Covered
  <2>2. x < uidNext'[g] /\ \A u \in mbox'[g] : u <= x => u \in mbox[g]
    BY <1>t, <1>1, <1>2, <2>1 DEF NewAreAbove, ServerTypeOK
  <2> QED
    BY <1>u, <2>1, <2>2 DEF Safe, Covered, Known
<1>5. ASSUME NEW g \in Folders PROVE FolderOK(g)'
  <2>1. Safe(g, lastUid[g])'
    <3>1. PICK x \in Nat : x = lastUid[g] /\ x = lastUid'[g] /\ Safe(g, x)
      BY <1>t, <1>u DEF TwoRunsInv, FolderOK
    <3> QED
      BY <1>4, <3>1 DEF Safe, Covered, Known
  <2>2. ASSUME NEW p \in Procs, (asked[p][g] # Unread)'
        PROVE  Safe(g, asked[p][g])'
    <3>1. PICK y \in Nat : y = asked[p][g] /\ y = asked'[p][g] /\ Safe(g, y)
      BY <1>t, <1>u, <2>2 DEF TwoRunsInv, FolderOK, Unread
    <3> QED
      BY <1>4, <3>1 DEF Safe, Covered, Known
  <2> QED
    BY <1>2, <2>1, <2>2 DEF FolderOK
<1>6. ASSUME NEW g \in Folders, NEW run \in Runs, RunOK(g, run)
      PROVE  RunOK(g, run)'
  <2>1. run.pc = "fetch" => Safe(g, run.last)'
    BY <1>4, <1>6 DEF RunOK
  <2>2. Streaming(g, run) => Streaming(g, run)'
    <3> SUFFICES ASSUME Streaming(g, run), NEW y \in run.batch \cup run.stream
                 PROVE  /\ y < uidNext'[g]
                        /\ \A u \in mbox'[g] : u < y =>
                             Known(g, u)' \/ u \in run.batch \cup run.stream
      BY <1>u DEF Streaming
    <3>1. y \in Nat /\ y < uidNext[g]
      BY DEF Streaming
    <3>2. y < uidNext'[g] /\ \A u \in mbox'[g] : u < y => u \in mbox[g]
      BY <1>t, <1>1, <1>2, <3>1 DEF NewAreAbove, ServerTypeOK
    <3> QED
      BY <1>u, <3>2 DEF Streaming, Known
  <2> QED
    BY <1>6, <2>1, <2>2 DEF RunOK
<1>7. ASSUME NEW g \in Folders PROVE RunOK(g, syncServe[g])' /\ RunOK(g, syncCommand[g])'
  <2>1. PICK run, other : /\ run = syncServe[g] /\ run = syncServe'[g]
                          /\ other = syncCommand[g] /\ other = syncCommand'[g]
    BY <1>u
  <2>2. RunOK(g, run)' /\ RunOK(g, other)'
    BY <1>t, <1>6, <2>1 DEF TwoRunsInv
  <2> QED
    BY <2>1, <2>2 DEF RunOK, Streaming, Safe, Covered, Known
<1> QED
  BY <1>3, <1>5, <1>7 DEF ProcInv, TwoRunsInv

\* A step that changes no table and no folder leaves folders and runs in order
\* that it does not touch.
LEMMA Untouched ==
  ASSUME ProcTypeOK, UNCHANGED <<serverVars, dbVars, forgone>>, NEW g \in Folders
  PROVE  /\ ServerTypeOK' /\ DBTypeOK'
         /\ UidsInOrder(g) => UidsInOrder(g)'
         /\ \A x : Safe(g, x) => Safe(g, x)'
         /\ \A run : RunOK(g, run) => RunOK(g, run)'
         /\ lastUid' = lastUid
<1>1. /\ UNCHANGED <<mbox, minted, uidNext, validity, forgone>>
      /\ UNCHANGED <<entries, content, fts, lastUid, storedVal>>
  BY DEF serverVars, dbVars
<1>2. ServerTypeOK' /\ DBTypeOK'
  BY <1>1 DEF ProcTypeOK, ServerTypeOK, DBTypeOK
<1>3. UidsInOrder(g) => UidsInOrder(g)'
  BY <1>1 DEF UidsInOrder
<1>4. \A x : Safe(g, x) => Safe(g, x)'
  BY <1>1 DEF Safe, Covered, Known
<1>5. ASSUME NEW run, RunOK(g, run) PROVE RunOK(g, run)'
  <2>1. Streaming(g, run) => Streaming(g, run)'
    BY <1>1 DEF Streaming, Known
  <2> QED
    BY <1>4, <1>5, <2>1 DEF RunOK
<1> QED
  BY <1>1, <1>2, <1>3, <1>4, <1>5

\* The two processes change their runs: what they have read stays safe.
LEMMA RunsChange ==
  ASSUME ProcInv, UNCHANGED <<serverVars, dbVars, forgone>>, MigrateInv',
         ran' \subseteq Synced, faults' \in 0..MaxFaults,
         asked' \in [Procs -> [Folders -> 0..Unread]],
         syncServe' \in [Folders -> Runs], syncCommand' \in [Folders -> Runs],
         \A g \in Folders, p \in Procs :
           asked'[p][g] \in {Unread, asked[p][g], lastUid[g]},
         \A g \in Folders : RunOK(g, syncServe'[g]) /\ RunOK(g, syncCommand'[g])
  PROVE  ProcInv'
<1> USE ProcConstants, RunsAreRuns
<1>1. ProcTypeOK /\ TwoRunsInv /\ forgone \in [Folders -> SUBSET Uids]
  BY DEF ProcInv, ProcTypeOK, S!SyncTypeOK, S!Uids, Uids
<1>2. ServerTypeOK' /\ DBTypeOK'
  BY <1>1, Untouched, ServerAssumption
<1>3. ProcTypeOK'
  BY <1>1, <1>2
  DEF MigrateInv, ProcTypeOK, S!SyncTypeOK, C!SyncTypeOK, S!Uids, C!Uids, Uids, Unread
<1>4. ASSUME NEW g \in Folders PROVE FolderOK(g)'
  <2>1. UidsInOrder(g)'
    BY <1>1, Untouched DEF TwoRunsInv, FolderOK
  <2>2. PICK x : x = lastUid[g] /\ x = lastUid'[g] /\ Safe(g, x)'
    BY <1>1, Untouched DEF TwoRunsInv, FolderOK
  <2>3. ASSUME NEW p \in Procs, (asked[p][g] # Unread)'
        PROVE  Safe(g, asked[p][g])'
    <3>1. PICK y : y = asked'[p][g] /\ y # Unread
      BY <2>3 DEF Unread
    <3>2. Safe(g, y)
      BY <1>1, <3>1 DEF TwoRunsInv, FolderOK
    <3>3. Safe(g, y)'
      BY <1>1, <3>2, Untouched
    <3> QED
      BY <3>1, <3>3 DEF Safe, Covered, Known
  <2> QED
    BY <2>1, <2>2, <2>3 DEF FolderOK, Safe, Covered, Known
<1>5. ASSUME NEW g \in Folders PROVE RunOK(g, syncServe[g])' /\ RunOK(g, syncCommand[g])'
  <2>1. PICK run, other : run = syncServe'[g] /\ other = syncCommand'[g]
    OBVIOUS
  <2>2. RunOK(g, run)' /\ RunOK(g, other)'
    BY <1>1, <2>1, Untouched
  <2> QED
    BY <2>1, <2>2 DEF RunOK, Streaming, Safe, Covered, Known
<1> QED
  BY <1>3, <1>4, <1>5 DEF ProcInv, TwoRunsInv

\* What the invariant gives the steps below.
LEMMA ProcFacts ==
  ASSUME ProcInv
  PROVE  /\ ProcTypeOK /\ MigrateInv
         /\ lastUid \in [Folders -> 0..MaxUid] /\ validity \in [Folders -> {1}]
         /\ asked \in [Procs -> [Folders -> 0..Unread]] /\ ran \subseteq Synced
         /\ syncServe \in [Folders -> Runs] /\ syncCommand \in [Folders -> Runs]
         /\ faults \in 0..MaxFaults
         /\ \A g \in Folders : /\ RunOK(g, syncServe[g]) /\ RunOK(g, syncCommand[g])
                               /\ Safe(g, lastUid[g])
         /\ \A g \in Folders, p \in Procs : asked[p][g] # Unread => Safe(g, asked[p][g])
BY ProcConstants, RunsAreRuns
DEF ProcInv, TwoRunsInv, FolderOK, ProcTypeOK, S!SyncTypeOK, C!SyncTypeOK, ServerTypeOK, DBTypeOK

LEMMA OverIsOK == \A g : RunOK(g, Over)
BY RunsAreRuns DEF RunOK

LEMMA MigrateUnchanged ==
  ASSUME MigrateInv, UNCHANGED migrateVars
  PROVE  MigrateInv'
BY DEF MigrateInv, MigrateTypeOK, ExecutedIsThere, StartsAgain, migrateVars

LEMMA ReadLastKeeps ==
  ASSUME ProcInv, NEW p \in Procs, NEW f \in Synced, ReadLast(p, f)
  PROVE  ProcInv'
<1> USE ProcFacts, ProcConstants
<1>1. f \in Folders /\ ran' \subseteq Synced
  BY DEF ReadLast
<1>2. asked' = [asked EXCEPT ![p][f] = lastUid[f]] /\ lastUid[f] \in 0..Unread
  BY <1>1 DEF ReadLast, GetLastUID, Unread
<1>3. /\ asked' \in [Procs -> [Folders -> 0..Unread]]
      /\ \A g \in Folders, q \in Procs : asked'[q][g] \in {asked[q][g], lastUid[g]}
  BY <1>1, <1>2
<1>4. UNCHANGED <<migrateVars, serverVars, dbVars, syncServe, syncCommand, faults, forgone>>
  BY DEF ReadLast
<1> QED
  BY <1>1, <1>3, <1>4, MigrateUnchanged, RunsChange

\* One run of a process changes, or all of them end.
LEMMA OneRunChanges ==
  ASSUME NEW runs \in [Folders -> Runs], \A g \in Folders : RunOK(g, runs[g]),
         NEW f \in Folders, NEW next \in Runs, RunOK(f, next), NEW after,
         after = [runs EXCEPT ![f] = next] \/ after = [g \in Folders |-> Over]
  PROVE  after \in [Folders -> Runs] /\ \A g \in Folders : RunOK(g, after[g])
<1>1. CASE after = [runs EXCEPT ![f] = next]
  BY <1>1
<1>2. CASE after = [g \in Folders |-> Over]
  BY <1>2, RunsAreRuns, OverIsOK
<1> QED
  BY <1>1, <1>2

\* The run that SELECT begins.
LEMMA BegunRun ==
  ASSUME NEW last \in 0..MaxUid, NEW val \in 0..1,
         NEW over \in Runs, over.batch = {}, over.bare = {}, NEW run,
         run = [over EXCEPT !.pc = "fetch", !.last = last, !.val = val]
  PROVE  /\ run \in Runs /\ run.pc = "fetch" /\ run.last = last /\ run.val = val
         /\ run.batch = {} /\ run.bare = {}
BY RunsAreRuns

LEMMA OverIsEmpty == Over \in Runs /\ Over.batch = {} /\ Over.bare = {}
<1>1. Over.batch = {} /\ Over.bare = {}
  BY DEF Over, S!NoRun
<1> QED
  BY <1>1, RunsAreRuns

LEMMA SelectFolderKeeps ==
  ASSUME ProcInv, NEW p \in Procs, NEW f \in Synced, SelectFolder(p, f)
  PROVE  ProcInv'
<1> DEFINE next == Selected(p, f)
<1>1. /\ f \in Folders /\ asked[p][f] \in 0..MaxUid /\ Safe(f, asked[p][f])
      /\ validity[f] = 1
  BY ProcFacts, ProcConstants DEF SelectFolder, Unread
<1>2. next \in Runs /\ RunOK(f, next)
  <2>1. CASE mbox[f] = {}
    BY <2>1, OverIsOK, RunsAreRuns DEF Selected
  <2>2. CASE mbox[f] # {}
    <3>1. PICK last \in 0..MaxUid, val \in 0..1 :
            last = asked[p][f] /\ Safe(f, last) /\ val = validity[f]
      BY <1>1
    <3>2. next = [Over EXCEPT !.pc = "fetch", !.last = last, !.val = val]
      BY <1>1, <2>2, <3>1, RunsAreRuns DEF Selected
    <3> HIDE DEF next
    <3>3. PICK over \in Runs : over = Over /\ over.batch = {} /\ over.bare = {}
      BY OverIsEmpty
    <3>4. next = [over EXCEPT !.pc = "fetch", !.last = last, !.val = val]
      BY <3>2, <3>3
    <3>5. /\ next \in Runs /\ next.pc = "fetch" /\ next.last = last /\ next.val = val
          /\ next.batch = {} /\ next.bare = {}
      BY <3>1, <3>3, <3>4, RunsAreRuns
    <3> QED
      BY <1>1, <3>1, <3>5 DEF RunOK
  <2> QED
    BY <2>1, <2>2
<1> HIDE DEF next
<1>3. /\ asked' \in [Procs -> [Folders -> 0..Unread]]
      /\ \A g \in Folders, q \in Procs : asked'[q][g] \in {asked[q][g], Unread}
  BY <1>1, ProcFacts, ProcConstants DEF SelectFolder, Unread
<1>4. \/ syncServe' = [syncServe EXCEPT ![f] = next] /\ UNCHANGED syncCommand
      \/ syncCommand' = [syncCommand EXCEPT ![f] = next] /\ UNCHANGED syncServe
  BY DEF SelectFolder, next
<1>5. /\ syncServe' \in [Folders -> Runs] /\ syncCommand' \in [Folders -> Runs]
      /\ \A g \in Folders : RunOK(g, syncServe'[g]) /\ RunOK(g, syncCommand'[g])
  BY <1>1, <1>2, <1>4, ProcFacts, OneRunChanges
<1>6. UNCHANGED <<migrateVars, serverVars, dbVars, ran, faults, forgone>>
  BY DEF SelectFolder
<1> QED
  BY <1>3, <1>5, <1>6, ProcFacts, MigrateUnchanged, RunsChange

LEMMA GoneKeeps ==
  ASSUME ProcInv, NEW p \in Procs, Gone(p), UNCHANGED <<serverVars, dbVars, forgone>>,
         faults' \in 0..MaxFaults
  PROVE  ProcInv'
<1>1. MigrateInv'
  BY ProcFacts, MigrateInvKept DEF Gone
<1>2. /\ asked' \in [Procs -> [Folders -> 0..Unread]]
      /\ \A g \in Folders, q \in Procs : asked'[q][g] \in {asked[q][g], Unread}
  <2>1. asked' = [asked EXCEPT ![p] = NothingAsked]
    BY DEF Gone
  <2>2. NothingAsked \in [Folders -> 0..Unread] /\ \A g \in Folders : NothingAsked[g] = Unread
    BY ProcConstants DEF NothingAsked, Unread
  <2> QED
    BY <2>1, <2>2, ProcFacts
<1>3. \/ syncServe' = [f \in Folders |-> Over] /\ UNCHANGED <<syncCommand, ran>>
      \/ syncCommand' = [f \in Folders |-> Over] /\ ran' = {} /\ UNCHANGED syncServe
  BY RunsAreRuns DEF Gone, S!SyncLost, C!SyncLost
<1>4. /\ syncServe' \in [Folders -> Runs] /\ syncCommand' \in [Folders -> Runs]
      /\ \A g \in Folders : RunOK(g, syncServe'[g]) /\ RunOK(g, syncCommand'[g])
  <2>1. PICK f \in Folders : TRUE
    BY ServerAssumption
  <2> QED
    BY <1>3, <2>1, ProcFacts, RunsAreRuns, OverIsOK, OneRunChanges
<1>5. ran' \subseteq Synced
  BY <1>3, ProcFacts
<1> QED
  BY <1>1, <1>2, <1>4, <1>5, RunsChange

LEMMA StartingKeeps ==
  ASSUME ProcInv, NEW p \in Procs, Starting(p)
  PROVE  ProcInv'
<1>1. MigrateInv'
  BY ProcFacts, MigrateInvKept DEF Starting
<1>2. UNCHANGED <<serverVars, dbVars, syncServe, syncCommand, asked, ran, faults, forgone>>
  BY DEF Starting
<1> QED
  BY <1>1, <1>2, ProcFacts, RunsChange

LEMMA ProcInvInit == ProcInit => ProcInv
<1> USE ProcConstants, RunsAreRuns
<1> SUFFICES ASSUME ProcInit PROVE ProcInv
  OBVIOUS
<1>1. MigrateInv
  BY MigrateInvInit DEF ProcInit
<1>2. ServerTypeOK /\ DBTypeOK
  BY DEF ProcInit, ServerInit, DBInit, ServerTypeOK, DBTypeOK, MsgOrNone
<1>3. /\ syncServe = [f \in Folders |-> Over] /\ syncCommand = [f \in Folders |-> Over]
      /\ faults = 0 /\ forgone = [f \in Folders |-> {}]
  BY DEF ProcInit, S!SyncInit, C!SyncInit
<1>4. asked \in [Procs -> [Folders -> 0..Unread]] /\ \A p \in Procs, f \in Folders : asked[p][f] = Unread
  BY DEF ProcInit, NothingAsked, Unread
<1>5. ProcTypeOK
  <2>1. S!SyncTypeOK /\ C!SyncTypeOK
    BY <1>3 DEF S!SyncTypeOK, C!SyncTypeOK
  <2> QED
    BY <1>1, <1>2, <1>4, <2>1 DEF ProcTypeOK, MigrateInv, ProcInit
<1>6. ASSUME NEW f \in Folders
      PROVE  FolderOK(f) /\ RunOK(f, syncServe[f]) /\ RunOK(f, syncCommand[f])
  <2>1. mbox[f] = {} /\ uidNext[f] = 1 /\ validity[f] = 1 /\ lastUid[f] = 0
    BY DEF ProcInit, ServerInit, DBInit
  <2>2. FolderOK(f)
    BY <1>4, <2>1 DEF FolderOK, UidsInOrder, Safe, Covered
  <2> QED
    BY <1>3, <2>2, OverIsOK
<1> QED
  BY <1>1, <1>5, <1>6 DEF ProcInv, TwoRunsInv

LEMMA ProcInvKept == ProcInv /\ [ProcNext]_procVars => ProcInv'
<1> SUFFICES ASSUME ProcInv, [ProcNext]_procVars PROVE ProcInv'
  OBVIOUS
<1>1. ASSUME NEW f \in Synced, ServeRun(f) \/ CommandRun(f) \/ RunFails(f) PROVE ProcInv'
  BY <1>1, ServeKeeps, CommandKeeps DEF RunFails
<1>2. ASSUME NEW p \in Procs, Killed(p) PROVE ProcInv'
  <2>1. faults' \in 0..MaxFaults
    BY <1>2, ProcFacts, ProcConstants DEF Killed, S!Fault
  <2> QED
    BY <1>2, <2>1, GoneKeeps DEF Killed
<1>3. CASE CommandEnds
  BY <1>3, ProcFacts, ProcConstants, GoneKeeps DEF CommandEnds
<1>4. CASE UNCHANGED procVars
  BY <1>4, ProcFacts, MigrateUnchanged, RunsChange DEF procVars
<1> QED
  BY <1>1, <1>2, <1>3, <1>4, MailboxKeeps, StartingKeeps, ReadLastKeeps, SelectFolderKeeps
  DEF ProcNext

LEMMA ProcInvariant == ProcSpec => []ProcInv
BY ProcInvInit, ProcInvKept, PTL DEF ProcSpec

-----------------------------------------------------------------------------
\* Every variable of the two processes keeps values of its sort.
THEOREM TwoProcessesTyped == ProcSpec => []ProcTypeOK
<1>1. ProcInv => ProcTypeOK
  BY DEF ProcInv
<1> QED
  BY <1>1, ProcInvariant, PTL

\* Whatever an older build left in the file, and however often a start is cut off
\* or runs beside another, a process syncs only on the complete schema with all
\* dates converted (db.Migrate).
THEOREM MigratedWhenUp == ProcSpec => []UpMeansMigrated
<1>1. ProcInv => UpMeansMigrated
  BY MigratedIsComplete DEF ProcInv
<1> QED
  BY <1>1, ProcInvariant, PTL

\* No statement of Migrate is ever refused by what the file holds: the order of the
\* list is right for every file (db.Migrate).
THEOREM EveryFileStarts == ProcSpec => []StartsAgain
<1>1. ProcInv => StartsAgain
  BY DEF ProcInv, MigrateInv
<1> QED
  BY <1>1, ProcInvariant, PTL

\* Two processes that import the same folder, each from the last_uid it has read and
\* each setting it to its own batch's maximum, leave no message out, for any number of
\* folders and messages and any batch size (SyncFolder, updateLastUID).
THEOREM TwoImportsLeaveNoGap == ProcSpec => []NoGapOfTwo
<1>1. ProcInv => NoGapOfTwo
  BY ProcFacts, ProcConstants DEF NoGapOfTwo, Safe, Covered, Known
<1> QED
  BY <1>1, ProcInvariant, PTL

=============================================================================
