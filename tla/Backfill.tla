------------------------------ MODULE Backfill ------------------------------
(***************************************************************************)
(* The nullable columns of mail_entries in one folder: is_read (is_replied *)
(* is written by the same statements) and message_id (in_reply_to          *)
(* likewise).  A run of SyncFolder imports what is new, then fetches the   *)
(* flags of the rows without flags and the envelopes of the rows without   *)
(* message_id, in batches; rows of an old build have neither.              *)
(*                                                                         *)
(* Beside the run, messages arrive, are read and expunged, delete_mail     *)
(* removes rows, and the process stops.  The folder lock keeps out other   *)
(* runs.  The import is one step here; SyncFolder.tla has its steps.       *)
(***************************************************************************)
EXTENDS Naturals, FiniteSets

CONSTANTS
  Null,        \* SQL's NULL
  MaxUid,      \* UIDs are 1..MaxUid
  Headed,      \* the messages that have a Message-ID header
  OldMax,      \* an old build left the rows 1..OldMax
  BatchSize,   \* 1000 for flags, 500 for envelopes in the code
  MaxFlips,    \* bound on how often messages are marked read or unread
  Faults,      \* which faults may happen: "collect", "imap", "db", "crash"
  MaxFaults    \* bound on how many kinds do, each once

Uids    == 1..MaxUid
OldRows == 1..OldMax

ASSUME NullAssumption == Null \notin {0, 1, "", "id"}

ASSUME BackfillAssumption ==
  /\ MaxUid \in Nat
  /\ Headed \subseteq Uids
  /\ OldMax \in 0..MaxUid
  /\ BatchSize \in Nat \ {0}
  /\ MaxFlips \in Nat
  /\ MaxFaults \in Nat

VARIABLES
  mbox,       \* the messages on the server
  seen,       \* those that have (or had, when they left) the \Seen flag
  shown,      \* history: shown[u]: the values is_read has had on the server
  uidNext,
  rows,       \* the rows
  isRead,     \* isRead[u]
  msgId,      \* msgId[u]: NULL, the empty string, or the header
  run,        \* the run: where it is, its connection, its lists
  flips,
  faults      \* the faults so far

serverVars   == <<mbox, seen, shown, uidNext, flips>>
columnVars   == <<rows, isRead, msgId>>
backfillVars == <<serverVars, columnVars, run, faults>>

Bit(u) == IF u \in seen THEN 1 ELSE 0

\* todo: UIDs still to be fetched; batch: those of the current UPDATEs;
\* got: the messages the server returned for the batch; read: those with \Seen.
Idle == [pc |-> "idle", conn |-> FALSE, todo |-> {}, batch |-> {}, got |-> {},
         read |-> {}]

BackfillTypeOK ==
  /\ mbox \subseteq Uids
  /\ seen \subseteq Uids
  /\ shown \in [Uids -> SUBSET {0, 1}]
  /\ uidNext \in 1..(MaxUid + 1)
  /\ rows \subseteq Uids
  /\ isRead \in [Uids -> {Null, 0, 1}]
  /\ msgId \in [Uids -> {Null, "", "id"}]
  /\ run \in [pc : {"idle", "flags", "flagsTx", "select", "env", "envTx"},
              conn : BOOLEAN, todo : SUBSET Uids, batch : SUBSET Uids,
              got : SUBSET Uids, read : SUBSET Uids]
  /\ flips \in 0..MaxFlips
  /\ faults \subseteq Faults

BackfillInit ==
  /\ rows = OldRows
  /\ mbox = OldRows
  /\ seen \in SUBSET OldRows
  /\ shown = [u \in Uids |-> IF u \in OldRows THEN {Bit(u)} ELSE {}]
  /\ uidNext = OldMax + 1
  /\ isRead = [u \in Uids |-> Null]
  /\ msgId = [u \in Uids |-> Null]
  /\ run = Idle
  /\ flips = 0
  /\ faults = {}

Fault(kind) ==
  /\ kind \in Faults \ faults
  /\ Cardinality(faults) < MaxFaults
  /\ faults' = faults \cup {kind}

-----------------------------------------------------------------------------
(* Beside the run.                                                         *)

Deliver(isSeen) ==
  /\ uidNext <= MaxUid
  /\ uidNext' = uidNext + 1
  /\ mbox' = mbox \cup {uidNext}
  /\ seen' = IF isSeen THEN seen \cup {uidNext} ELSE seen
  /\ shown' = [shown EXCEPT ![uidNext] = {IF isSeen THEN 1 ELSE 0}]
  /\ UNCHANGED <<flips, columnVars, run, faults>>

\* Some mail client marks a message as read or unread.
Flip(u) ==
  /\ u \in mbox
  /\ flips < MaxFlips
  /\ flips' = flips + 1
  /\ seen' = IF u \in seen THEN seen \ {u} ELSE seen \cup {u}
  /\ shown' = [shown EXCEPT ![u] = @ \cup {1 - Bit(u)}]
  /\ UNCHANGED <<mbox, uidNext, columnVars, run, faults>>

\* Another client, or the MOVE of delete_mail, takes the message away.
Expunge(u) ==
  /\ u \in mbox
  /\ mbox' = mbox \ {u}
  /\ UNCHANGED <<seen, shown, uidNext, flips, columnVars, run, faults>>

\* delete_mail removes the row of a message it moved.
DeleteRow(u) ==
  /\ u \in rows \ mbox
  /\ rows' = rows \ {u}
  /\ isRead' = [isRead EXCEPT ![u] = Null]
  /\ msgId' = [msgId EXCEPT ![u] = Null]
  /\ UNCHANGED <<serverVars, run, faults>>

-----------------------------------------------------------------------------
(* The run.                                                                *)

\* flagInts: without any flag the list may come back nil, which is NULL.
NewIsRead(u) == IF u \in seen THEN {1} ELSE {0, Null}

\* nullableString: without the header the column is NULL.
NewMsgId(u) == IF u \in Headed THEN "id" ELSE Null

\* SELECT imap_uid ... WHERE is_read IS NULL, WHERE message_id IS NULL
Lacking(there, cols) == {u \in there : cols[u] = Null}

\* Mutant: the envelope of every row is fetched again.
EveryRow(there, cols) == there

LackEnvelope(there, cols) == Lacking(there, cols)

\* The rows of the import: those there are keep their columns.
Import(new) ==
  /\ rows' = rows \cup new
  /\ isRead' \in {f \in [Uids -> {Null, 0, 1}] :
                     \A u \in Uids : IF u \in new THEN f[u] \in NewIsRead(u)
                                                  ELSE f[u] = isRead[u]}
  /\ msgId' = [u \in Uids |-> IF u \in new THEN NewMsgId(u) ELSE msgId[u]]

NewUpTo(last) == {u \in mbox \ rows : u <= last}

\* The backfill begins with the flags.
Begun(up) == [Idle EXCEPT !.pc = "flags", !.conn = up, !.todo = Lacking(rows', isRead')]

\* SyncFolder of a folder that is not empty imports what is new.  When the
\* connection breaks, the backfill goes on without one; when a transaction
\* fails, the run ends.
RunImport ==
  /\ run.pc = "idle"
  /\ mbox # {}
  /\ \/ Import(mbox \ rows) /\ run' = Begun(TRUE) /\ UNCHANGED faults
     \/ /\ Fault("imap")
        /\ \E last \in 0..MaxUid : Import(NewUpTo(last)) /\ run' = Begun(FALSE)
     \/ /\ Fault("db")
        /\ \E last \in 0..MaxUid : Import(NewUpTo(last)) /\ run' = Idle
  /\ UNCHANGED serverVars

\* A run on an empty folder ends at once.
RunEmpty ==
  /\ run.pc = "idle"
  /\ mbox = {}
  /\ UNCHANGED backfillVars

\* The first BatchSize UIDs of todo.
BatchOf(todo) == {u \in todo : Cardinality({v \in todo : v < u}) < BatchSize}

\* Mutant: one batch for each run.
OneBatch(todo) == {}

Rest(todo) == todo \ BatchOf(todo)

\* A FETCH of the batch: the messages that are there and whose Collect
\* succeeds; none once the connection is lost, a few when that happens now.
Fetch(then) ==
  LET batch == BatchOf(run.todo)
      Answer(got, up) ==
        run' = [run EXCEPT !.pc = then, !.conn = up, !.todo = Rest(@),
                           !.batch = batch, !.got = got, !.read = got \cap seen]
  IN  /\ run.todo # {}
      /\ \/ /\ Answer(IF run.conn THEN batch \cap mbox ELSE {}, run.conn)
            /\ UNCHANGED faults
         \/ /\ run.conn
            /\ Fault("collect")
            /\ \E u \in batch \cap mbox : Answer((batch \cap mbox) \ {u}, TRUE)
         \/ /\ run.conn
            /\ Fault("imap")
            /\ \E u \in batch : Answer({v \in batch \cap mbox : v < u}, FALSE)
      /\ UNCHANGED <<serverVars, columnVars>>

FlagsFetch == run.pc = "flags" /\ Fetch("flagsTx")

\* Mutant: every row of the batch gets a value, as with the envelopes.
AllOfBatch(r) == r.batch

\* The rows the UPDATEs of backfillFlags are about.
FlagResults(r) == r.got

FlagsWrite ==
  /\ run.pc = "flagsTx"
  /\ isRead' = [u \in Uids |->
                  IF u \in FlagResults(run) \cap rows
                    THEN IF u \in run.read THEN 1 ELSE 0
                    ELSE isRead[u]]
  /\ run' = [run EXCEPT !.pc = "flags", !.batch = {}, !.got = {}, !.read = {}]
  /\ UNCHANGED <<serverVars, rows, msgId, faults>>

\* The last batch is done, or a statement failed: the envelopes are next.
FlagsEnd ==
  /\ \/ run.pc = "flags" /\ run.todo = {} /\ UNCHANGED faults
     \/ run.pc \in {"flags", "flagsTx"} /\ Fault("db")
  /\ run' = [Idle EXCEPT !.pc = "select", !.conn = run.conn]
  /\ UNCHANGED <<serverVars, columnVars>>

EnvSelect ==
  /\ run.pc = "select"
  /\ run' = [run EXCEPT !.pc = "env", !.todo = LackEnvelope(rows, msgId)]
  /\ UNCHANGED <<serverVars, columnVars, faults>>

EnvFetch == run.pc = "env" /\ Fetch("envTx")

\* Mutant: the rows of the messages that came, as with the flags.
AnsweredOnly(r) == r.got

\* Mutant: the blanks are for every row that lacks an envelope.
AllLacking(r) == r.batch \cup r.todo

\* The rows the UPDATEs of backfillEnvelope are about: every one of the batch.
EnvResults(r) == r.batch

\* With the header if the server returned the message and it has one, with the
\* empty string if not.
EnvWrite ==
  /\ run.pc = "envTx"
  /\ msgId' = [u \in Uids |->
                 IF u \in EnvResults(run) \cap rows
                   THEN IF u \in run.got \cap Headed THEN "id" ELSE ""
                   ELSE msgId[u]]
  /\ run' = [run EXCEPT !.pc = "env", !.batch = {}, !.got = {}, !.read = {}]
  /\ UNCHANGED <<serverVars, rows, isRead, faults>>

EnvEnd ==
  /\ \/ run.pc = "env" /\ run.todo = {} /\ UNCHANGED faults
     \/ run.pc \in {"select", "env", "envTx"} /\ Fault("db")
  /\ run' = Idle
  /\ UNCHANGED <<serverVars, columnVars>>

\* The process stops; what was committed stays.
Crash ==
  /\ run.pc # "idle"
  /\ Fault("crash")
  /\ run' = Idle
  /\ UNCHANGED <<serverVars, columnVars>>

RunStep ==
  \/ RunEmpty
  \/ RunImport
  \/ FlagsFetch
  \/ FlagsWrite
  \/ FlagsEnd
  \/ EnvSelect
  \/ EnvFetch
  \/ EnvWrite
  \/ EnvEnd

-----------------------------------------------------------------------------
BackfillNext ==
  \/ \E isSeen \in BOOLEAN : Deliver(isSeen)
  \/ \E u \in Uids : Flip(u) \/ Expunge(u) \/ DeleteRow(u)
  \/ RunStep
  \/ Crash

BackfillSpec == BackfillInit /\ [][BackfillNext]_backfillVars

\* The ticker starts a run again and again, and runs go on.
BackfillFairSpec == BackfillSpec /\ WF_backfillVars(RunStep)

-----------------------------------------------------------------------------
\* is_read never has a value the server did not show for that message: one that
\* is not returned, for whatever reason, keeps NULL (backfillFlags).
FlagsNotInvented ==
  \A u \in rows : isRead[u] # Null => isRead[u] \in shown[u]

\* A message_id once known is not lost to a later backfill, whose FETCH may
\* return nothing (backfillEnvelope reads the rows without one only).
IdsAreKept ==
  [][\A u \in rows \cap rows' : msgId[u] = "id" => msgId'[u] = "id"]_backfillVars

\* A row whose message stays on the server gets its flags, whatever rows before
\* it never will because their messages are gone.
FlagsArrive ==
  \A u \in Uids : u \in rows ~> (isRead[u] # Null \/ u \notin mbox)

\* Every row is settled, and no run fetches its envelope once more, unless the
\* folder has become empty (SyncFolder returns before the backfill then).
EnvelopesSettle ==
  \A u \in Uids : u \in rows ~> (u \notin rows \/ msgId[u] # Null \/ mbox = {})

\* The empty string says that the message has no Message-ID header, as long as
\* no FETCH failed (the UPDATEs do not look whether it did): batches, failing
\* transactions and restarts leave no such mark behind (backfillEnvelope).
BlankMeansNoHeader ==
  faults \cap {"collect", "imap"} = {} =>
    \A u \in rows \cap mbox : msgId[u] = "" => u \notin Headed
=============================================================================
