--------------------------- MODULE BackfillProofs ---------------------------
(***************************************************************************)
(* The backfill neither invents flags nor loses a message_id, for any      *)
(* folder, batch size, old rows and faults.                                *)
(***************************************************************************)
EXTENDS Backfill, TLAPS

\* What the server shows now it has shown; so has what a FETCH returned.
Witnessed ==
  /\ \A u \in mbox : Bit(u) \in shown[u]
  /\ \A u \in run.got : (IF u \in run.read THEN 1 ELSE 0) \in shown[u]

\* The rows whose envelopes are fetched have no message_id.
WithoutId ==
  run.pc \in {"env", "envTx"} =>
    \A u \in (run.todo \cup run.batch) \cap rows : msgId[u] # "id"

\* A batch is taken off the list.
Apart == run.todo \cap run.batch = {} /\ (run.pc = "select" => run.batch = {})

\* Everything known of is a message that has arrived.
Arrived == \A u \in mbox \cup seen \cup rows \cup run.got : u < uidNext

BackfillInv ==
  BackfillTypeOK /\ Arrived /\ FlagsNotInvented /\ Witnessed /\ WithoutId /\ Apart

LEMMA BatchIsPart == ASSUME NEW todo PROVE BatchOf(todo) \subseteq todo
  BY DEF BatchOf

LEMMA BackfillInitInv == BackfillInit => BackfillInv
<1> SUFFICES ASSUME BackfillInit PROVE BackfillInv
  OBVIOUS
<1> USE BackfillAssumption
<1>0. OldRows \subseteq Uids
  BY DEF OldRows, Uids
<1>1. BackfillTypeOK
  <2>2. shown \in [Uids -> SUBSET {0, 1}]
    BY DEF BackfillInit, Bit
  <2> QED
    BY <1>0, <2>2 DEF BackfillInit, BackfillTypeOK, Idle
<1>2. FlagsNotInvented
  BY <1>0 DEF BackfillInit, FlagsNotInvented
<1>3. Witnessed
  BY <1>0 DEF BackfillInit, Witnessed, Idle, Bit
<1>4. WithoutId
  BY DEF BackfillInit, WithoutId, Idle
<1>5. Arrived
  BY DEF BackfillInit, Arrived, Idle, OldRows
<1>6. Apart
  BY DEF BackfillInit, Apart, Idle
<1> QED
  BY <1>1, <1>2, <1>3, <1>4, <1>5, <1>6 DEF BackfillInv

-----------------------------------------------------------------------------
\* What a FETCH does to the run, whichever fault happens.
LEMMA FetchResult ==
  ASSUME BackfillTypeOK, NEW then, Fetch(then)
  PROVE  \E got \in SUBSET (BatchOf(run.todo) \cap mbox), up \in BOOLEAN :
           /\ run' = [run EXCEPT !.pc = then, !.conn = up, !.todo = Rest(run.todo),
                                 !.batch = BatchOf(run.todo), !.got = got,
                                 !.read = got \cap seen]
           /\ UNCHANGED <<serverVars, columnVars>>
           /\ faults' \subseteq Faults
<1> USE BackfillAssumption
<1> DEFINE batch == BatchOf(run.todo)
           Answer(got, up) ==
             run' = [run EXCEPT !.pc = then, !.conn = up, !.todo = Rest(run.todo),
                                !.batch = batch, !.got = got, !.read = got \cap seen]
<1>1. UNCHANGED <<serverVars, columnVars>>
  BY DEF Fetch
<1>2. faults' \subseteq Faults
  <2>1. UNCHANGED faults \/ \E kind \in {"collect", "imap"} : Fault(kind)
    BY DEF Fetch
  <2>2. faults \subseteq Faults
    BY DEF BackfillTypeOK
  <2> QED
    BY <2>1, <2>2 DEF Fault
<1>3. \/ Answer(IF run.conn THEN batch \cap mbox ELSE {}, run.conn)
      \/ \E u \in batch \cap mbox : Answer((batch \cap mbox) \ {u}, TRUE)
      \/ \E u \in batch : Answer({v \in batch \cap mbox : v < u}, FALSE)
  BY DEF Fetch
<1>4. run.conn \in BOOLEAN
  BY DEF BackfillTypeOK
<1>5. \E got \in SUBSET (batch \cap mbox), up \in BOOLEAN : Answer(got, up)
  <2>1. CASE Answer(IF run.conn THEN batch \cap mbox ELSE {}, run.conn)
    <3>1. (IF run.conn THEN batch \cap mbox ELSE {}) \in SUBSET (batch \cap mbox)
      OBVIOUS
    <3> QED
      BY <1>4, <2>1, <3>1
  <2>2. ASSUME NEW u \in batch \cap mbox, Answer((batch \cap mbox) \ {u}, TRUE)
        PROVE  \E got \in SUBSET (batch \cap mbox), up \in BOOLEAN : Answer(got, up)
    <3>1. (batch \cap mbox) \ {u} \in SUBSET (batch \cap mbox)
      OBVIOUS
    <3> QED
      BY <2>2, <3>1
  <2>3. ASSUME NEW u \in batch, Answer({v \in batch \cap mbox : v < u}, FALSE)
        PROVE  \E got \in SUBSET (batch \cap mbox), up \in BOOLEAN : Answer(got, up)
    <3>1. {v \in batch \cap mbox : v < u} \in SUBSET (batch \cap mbox)
      OBVIOUS
    <3> QED
      BY <2>3, <3>1
  <2> QED
    BY <1>3, <2>1, <2>2, <2>3
<1> QED
  BY <1>1, <1>2, <1>5

-----------------------------------------------------------------------------
(* Beside the run.                                                         *)

LEMMA ServerStep ==
  ASSUME BackfillInv,
         \/ \E isSeen \in BOOLEAN : Deliver(isSeen)
         \/ \E u \in Uids : Flip(u) \/ Expunge(u) \/ DeleteRow(u)
  PROVE  BackfillInv'
<1> USE BackfillAssumption
<1>0. /\ mbox \subseteq Uids
      /\ uidNext \in 1..(MaxUid + 1)
      /\ shown \in [Uids -> SUBSET {0, 1}]
      /\ seen \subseteq Uids
      /\ flips \in 0..MaxFlips
  BY DEF BackfillInv, BackfillTypeOK
<1>1. ASSUME NEW isSeen \in BOOLEAN, Deliver(isSeen) PROVE BackfillInv'
  <2>1. /\ uidNext \in Uids
        /\ uidNext' = uidNext + 1
        /\ mbox' = mbox \cup {uidNext}
        /\ seen' = IF isSeen THEN seen \cup {uidNext} ELSE seen
        /\ shown' = [shown EXCEPT ![uidNext] = {IF isSeen THEN 1 ELSE 0}]
        /\ UNCHANGED <<flips, columnVars, run, faults>>
    BY <1>0, <1>1 DEF Deliver, Uids
  <2>2. /\ mbox' \subseteq Uids
        /\ uidNext' \in 1..(MaxUid + 1)
        /\ seen' \subseteq Uids
        /\ shown' \in [Uids -> SUBSET {0, 1}]
    BY <1>0, <2>1 DEF Uids
  <2>3. BackfillTypeOK'
    BY <2>1, <2>2 DEF BackfillInv, BackfillTypeOK, columnVars
  <2>4. Arrived'
    <3>1. \A u \in mbox \cup seen \cup rows \cup run.got : u \in Nat /\ u < uidNext
      <4>1. mbox \cup seen \cup rows \cup run.got \subseteq Uids
        BY DEF BackfillInv, BackfillTypeOK
      <4>2. \A u \in Uids : u \in Nat
        BY <1>0 DEF Uids
      <4> QED
        BY <4>1, <4>2 DEF BackfillInv, Arrived
    <3>2. \A u \in mbox' \cup seen' \cup rows' \cup run'.got :
            u = uidNext \/ u \in mbox \cup seen \cup rows \cup run.got
      BY <2>1 DEF columnVars
    <3>3. uidNext \in Nat /\ uidNext' = uidNext + 1
      <4>1. uidNext \in 1..(MaxUid + 1)
        BY DEF BackfillInv, BackfillTypeOK
      <4> QED
        BY <2>1, <4>1
    <3> QED
      BY <3>1, <3>2, <3>3 DEF Arrived
  <2>5. FlagsNotInvented'
    BY <1>0, <2>1 DEF BackfillInv, Arrived, FlagsNotInvented, columnVars
  <2>6. Witnessed'
    <3>1. uidNext \notin mbox /\ uidNext \notin run.got /\ uidNext \notin seen
      BY <1>0 DEF BackfillInv, Arrived
    <3>2. \A v \in mbox : Bit(v)' = Bit(v) /\ shown'[v] = shown[v]
      BY <1>0, <2>1, <3>1 DEF Bit
    <3>4. \A v \in mbox' : Bit(v)' \in shown'[v]
      <4> SUFFICES ASSUME NEW v \in mbox' PROVE Bit(v)' \in shown'[v]
        OBVIOUS
      <4>1. CASE v \in mbox
        BY <3>2, <4>1 DEF BackfillInv, Witnessed
      <4>2. CASE v = uidNext /\ isSeen
        <5>1. v \in seen' /\ shown'[v] = {1}
          BY <1>0, <2>1, <4>2
        <5> QED
          BY <5>1 DEF Bit
      <4>3. CASE v = uidNext /\ ~isSeen
        <5>1. v \notin seen' /\ shown'[v] = {0}
          BY <1>0, <2>1, <3>1, <4>3
        <5> QED
          BY <5>1 DEF Bit
      <4> QED
        BY <2>1, <4>1, <4>2, <4>3
    <3>5. run.got \subseteq Uids
      BY DEF BackfillInv, BackfillTypeOK
    <3>6. \A v \in run.got : shown'[v] = shown[v]
      BY <1>0, <2>1, <3>1, <3>5
    <3> QED
      BY <2>1, <3>4, <3>6 DEF BackfillInv, Witnessed
  <2>7. WithoutId'
    BY <2>1 DEF BackfillInv, WithoutId, columnVars
  <2>8. Apart'
    BY <2>1 DEF BackfillInv, Apart
  <2> QED
    BY <2>3, <2>4, <2>5, <2>6, <2>7, <2>8 DEF BackfillInv
<1>2. ASSUME NEW u \in Uids, Flip(u) PROVE BackfillInv'
  <2>1. /\ u \in mbox
        /\ seen' = IF u \in seen THEN seen \ {u} ELSE seen \cup {u}
        /\ shown' = [shown EXCEPT ![u] = shown[u] \cup {1 - Bit(u)}]
        /\ flips' \in 0..MaxFlips
        /\ UNCHANGED <<mbox, uidNext, columnVars, run, faults>>
    BY <1>0, <1>2 DEF Flip
  <2>2. seen' \subseteq Uids /\ shown' \in [Uids -> SUBSET {0, 1}]
    BY <1>0, <2>1 DEF Bit
  <2>3. BackfillTypeOK'
    BY <2>1, <2>2 DEF BackfillInv, BackfillTypeOK, columnVars
  <2>4. \A v \in Uids : shown[v] \subseteq shown'[v]
    BY <1>0, <2>1
  <2>5. Arrived'
    BY <2>1 DEF BackfillInv, Arrived, columnVars
  <2>6. FlagsNotInvented'
    BY <2>1, <2>4 DEF BackfillInv, BackfillTypeOK, FlagsNotInvented, columnVars
  <2>7. Witnessed'
    <3>1. \A v \in mbox : Bit(v)' \in shown'[v]
      BY <1>0, <2>1, <2>4 DEF BackfillInv, Witnessed, Bit
    <3>2. run.got \subseteq Uids
      BY DEF BackfillInv, BackfillTypeOK
    <3> QED
      BY <2>1, <2>4, <3>1, <3>2 DEF BackfillInv, Witnessed
  <2>8. WithoutId'
    BY <2>1 DEF BackfillInv, WithoutId, columnVars
  <2>9. Apart'
    BY <2>1 DEF BackfillInv, Apart
  <2> QED
    BY <2>3, <2>5, <2>6, <2>7, <2>8, <2>9 DEF BackfillInv
<1>3. ASSUME NEW u \in Uids, Expunge(u) PROVE BackfillInv'
  <2>1. mbox' \subseteq mbox /\ UNCHANGED <<seen, shown, uidNext, flips, columnVars, run, faults>>
    BY <1>3 DEF Expunge
  <2>2. BackfillTypeOK'
    BY <2>1 DEF BackfillInv, BackfillTypeOK, columnVars
  <2>3. Arrived' /\ Witnessed'
    BY <2>1 DEF BackfillInv, Arrived, Witnessed, Bit, columnVars
  <2>4. FlagsNotInvented' /\ WithoutId'
    BY <2>1 DEF BackfillInv, FlagsNotInvented, WithoutId, columnVars
  <2>5. Apart'
    BY <2>1 DEF BackfillInv, Apart
  <2> QED
    BY <2>2, <2>3, <2>4, <2>5 DEF BackfillInv
<1>4. ASSUME NEW u \in Uids, DeleteRow(u) PROVE BackfillInv'
  <2>1. /\ rows' = rows \ {u}
        /\ isRead' = [isRead EXCEPT ![u] = Null]
        /\ msgId' = [msgId EXCEPT ![u] = Null]
        /\ UNCHANGED <<serverVars, run, faults>>
    BY <1>4 DEF DeleteRow
  <2>2. /\ isRead \in [Uids -> {Null, 0, 1}] /\ msgId \in [Uids -> {Null, "", "id"}]
        /\ rows \subseteq Uids
    BY DEF BackfillInv, BackfillTypeOK
  <2>3. isRead' \in [Uids -> {Null, 0, 1}]
    BY <2>1, <2>2
  <2>4. msgId' \in [Uids -> {Null, "", "id"}]
    BY <2>1, <2>2
  <2>5. BackfillTypeOK'
    BY <2>1, <2>3, <2>4 DEF BackfillInv, BackfillTypeOK, serverVars
  <2>6. Arrived' /\ Witnessed'
    BY <2>1 DEF BackfillInv, Arrived, Witnessed, Bit, serverVars
  <2>7. FlagsNotInvented'
    BY <2>1, <2>2 DEF BackfillInv, FlagsNotInvented, serverVars
  <2>8. WithoutId'
    BY <2>1, <2>2 DEF BackfillInv, WithoutId
  <2>9. Apart'
    BY <2>1 DEF BackfillInv, Apart
  <2> QED
    BY <2>5, <2>6, <2>7, <2>8, <2>9 DEF BackfillInv
<1> QED
  BY <1>1, <1>2, <1>3, <1>4

-----------------------------------------------------------------------------
(* The run.                                                                *)

LEMMA ImportStep ==
  ASSUME BackfillInv, RunImport
  PROVE  BackfillInv'
<1> USE BackfillAssumption
<1>1. /\ mbox \subseteq Uids /\ rows \subseteq Uids
      /\ isRead \in [Uids -> {Null, 0, 1}] /\ msgId \in [Uids -> {Null, "", "id"}]
  BY DEF BackfillInv, BackfillTypeOK
<1>2. PICK new \in SUBSET (mbox \ rows), up \in BOOLEAN :
        Import(new) /\ (run' = Begun(up) \/ run' = Idle)
  BY DEF RunImport, NewUpTo
<1>3. /\ rows' = rows \cup new
      /\ isRead' \in [Uids -> {Null, 0, 1}]
      /\ \A u \in Uids : IF u \in new THEN isRead'[u] \in NewIsRead(u)
                                      ELSE isRead'[u] = isRead[u]
      /\ msgId' = [u \in Uids |-> IF u \in new THEN NewMsgId(u) ELSE msgId[u]]
  BY <1>2 DEF Import
<1>4. UNCHANGED serverVars
  BY DEF RunImport
<1>5. faults' \subseteq Faults
  <2>1. faults \subseteq Faults
    BY DEF BackfillInv, BackfillTypeOK
  <2>2. faults' = faults \/ \E kind \in Faults : faults' = faults \cup {kind}
    BY DEF RunImport, Fault
  <2> QED
    BY <2>1, <2>2
<1>6. Lacking(rows', isRead') \subseteq Uids
  BY <1>1, <1>3 DEF Lacking
<1>7. /\ run' \in [pc : {"idle", "flags", "flagsTx", "select", "env", "envTx"},
                  conn : BOOLEAN, todo : SUBSET Uids, batch : SUBSET Uids,
                  got : SUBSET Uids, read : SUBSET Uids]
      /\ run'.pc \in {"idle", "flags"} /\ run'.got = {} /\ run'.batch = {}
  <2>1. CASE run' = Idle
    BY <2>1 DEF Idle
  <2>2. CASE run' = Begun(up)
    BY <1>6, <2>2 DEF Begun, Idle
  <2> QED
    BY <1>2, <2>1, <2>2
<1>8. msgId' \in [Uids -> {Null, "", "id"}]
  BY <1>1, <1>3 DEF NewMsgId
<1>9. BackfillTypeOK'
  <2>1. rows' \subseteq Uids
    BY <1>1, <1>3
  <2> QED
    BY <1>3, <1>4, <1>5, <1>7, <1>8, <2>1 DEF BackfillInv, BackfillTypeOK, serverVars
<1>10. Arrived' /\ Witnessed'
  BY <1>3, <1>4, <1>7 DEF BackfillInv, Arrived, Witnessed, Bit, serverVars
<1>11. FlagsNotInvented'
  BY <1>1, <1>3, <1>4 DEF BackfillInv, FlagsNotInvented, Witnessed, NewIsRead, Bit,
                          serverVars
<1>12. WithoutId' /\ Apart'
  BY <1>7 DEF WithoutId, Apart
<1> QED
  BY <1>9, <1>10, <1>11, <1>12 DEF BackfillInv

LEMMA FetchStep ==
  ASSUME BackfillInv, FlagsFetch \/ EnvFetch
  PROVE  BackfillInv'
<1>1. PICK then \in {"flagsTx", "envTx"} :
        Fetch(then) /\ (then = "envTx" => run.pc = "env")
  BY DEF FlagsFetch, EnvFetch
<1>2. PICK got \in SUBSET (BatchOf(run.todo) \cap mbox), up \in BOOLEAN :
        /\ run' = [run EXCEPT !.pc = then, !.conn = up, !.todo = Rest(run.todo),
                              !.batch = BatchOf(run.todo), !.got = got,
                              !.read = got \cap seen]
        /\ UNCHANGED <<serverVars, columnVars>>
        /\ faults' \subseteq Faults
  BY <1>1, FetchResult DEF BackfillInv
<1>3. /\ BatchOf(run.todo) \subseteq run.todo /\ Rest(run.todo) \subseteq run.todo
      /\ mbox \subseteq Uids
      /\ run \in [pc : {"idle", "flags", "flagsTx", "select", "env", "envTx"},
                 conn : BOOLEAN, todo : SUBSET Uids, batch : SUBSET Uids,
                 got : SUBSET Uids, read : SUBSET Uids]
  BY BatchIsPart DEF Rest, BackfillInv, BackfillTypeOK
<1>4. /\ run'.pc = then /\ run'.todo = Rest(run.todo) /\ run'.batch = BatchOf(run.todo)
      /\ run'.got = got /\ run'.read = got \cap seen
  BY <1>2, <1>3
<1>5. run' \in [pc : {"idle", "flags", "flagsTx", "select", "env", "envTx"},
               conn : BOOLEAN, todo : SUBSET Uids, batch : SUBSET Uids,
               got : SUBSET Uids, read : SUBSET Uids]
  BY <1>2, <1>3
<1>6. BackfillTypeOK'
  BY <1>2, <1>5 DEF BackfillInv, BackfillTypeOK, serverVars, columnVars
<1>7. Arrived'
  BY <1>2, <1>4 DEF BackfillInv, Arrived, serverVars, columnVars
<1>8. FlagsNotInvented'
  BY <1>2 DEF BackfillInv, FlagsNotInvented, serverVars, columnVars
<1>9. Witnessed'
  BY <1>2, <1>4 DEF BackfillInv, Witnessed, Bit, serverVars
<1>10. WithoutId'
  BY <1>1, <1>2, <1>3, <1>4 DEF BackfillInv, WithoutId, columnVars
<1>11. Apart'
  BY <1>1, <1>4 DEF Apart, Rest
<1> QED
  BY <1>6, <1>7, <1>8, <1>9, <1>10, <1>11 DEF BackfillInv

\* Both UPDATEs: the run forgets the batch.
LEMMA FlagsWriteStep ==
  ASSUME BackfillInv, FlagsWrite
  PROVE  BackfillInv'
<1>1. /\ isRead' = [u \in Uids |->
                     IF u \in FlagResults(run) \cap rows
                       THEN IF u \in run.read THEN 1 ELSE 0
                       ELSE isRead[u]]
      /\ run' = [run EXCEPT !.pc = "flags", !.batch = {}, !.got = {}, !.read = {}]
      /\ UNCHANGED <<serverVars, rows, msgId, faults>>
  BY DEF FlagsWrite
<1>2. /\ isRead \in [Uids -> {Null, 0, 1}] /\ rows \subseteq Uids
      /\ run \in [pc : {"idle", "flags", "flagsTx", "select", "env", "envTx"},
                 conn : BOOLEAN, todo : SUBSET Uids, batch : SUBSET Uids,
                 got : SUBSET Uids, read : SUBSET Uids]
  BY DEF BackfillInv, BackfillTypeOK
<1>3. run'.pc = "flags" /\ run'.got = {}
  BY <1>1, <1>2
<1>4. isRead' \in [Uids -> {Null, 0, 1}]
  BY <1>1, <1>2
<1>5. run' \in [pc : {"idle", "flags", "flagsTx", "select", "env", "envTx"},
               conn : BOOLEAN, todo : SUBSET Uids, batch : SUBSET Uids,
               got : SUBSET Uids, read : SUBSET Uids]
  BY <1>1, <1>2
<1>6. BackfillTypeOK'
  BY <1>1, <1>4, <1>5 DEF BackfillInv, BackfillTypeOK, serverVars
<1>7. Arrived' /\ Witnessed'
  BY <1>1, <1>3 DEF BackfillInv, Arrived, Witnessed, Bit, serverVars
<1>8. FlagsNotInvented'
  BY <1>1, <1>2 DEF BackfillInv, FlagsNotInvented, Witnessed, FlagResults, serverVars
<1>9. WithoutId'
  BY <1>3 DEF WithoutId
<1>10. Apart'
  BY <1>1, <1>2 DEF Apart
<1> QED
  BY <1>6, <1>7, <1>8, <1>9, <1>10 DEF BackfillInv

LEMMA EnvWriteStep ==
  ASSUME BackfillInv, EnvWrite
  PROVE  BackfillInv'
<1>1. /\ msgId' = [u \in Uids |->
                    IF u \in EnvResults(run) \cap rows
                      THEN IF u \in run.got \cap Headed THEN "id" ELSE ""
                      ELSE msgId[u]]
      /\ run' = [run EXCEPT !.pc = "env", !.batch = {}, !.got = {}, !.read = {}]
      /\ run.pc = "envTx"
      /\ UNCHANGED <<serverVars, rows, isRead, faults>>
  BY DEF EnvWrite
<1>2. /\ msgId \in [Uids -> {Null, "", "id"}] /\ rows \subseteq Uids
      /\ run \in [pc : {"idle", "flags", "flagsTx", "select", "env", "envTx"},
                 conn : BOOLEAN, todo : SUBSET Uids, batch : SUBSET Uids,
                 got : SUBSET Uids, read : SUBSET Uids]
  BY DEF BackfillInv, BackfillTypeOK
<1>3. run'.got = {} /\ run'.todo = run.todo /\ run'.batch = {}
  BY <1>1, <1>2
<1>4. msgId' \in [Uids -> {Null, "", "id"}]
  BY <1>1, <1>2
<1>5. run' \in [pc : {"idle", "flags", "flagsTx", "select", "env", "envTx"},
               conn : BOOLEAN, todo : SUBSET Uids, batch : SUBSET Uids,
               got : SUBSET Uids, read : SUBSET Uids]
  BY <1>1, <1>2
<1>6. BackfillTypeOK'
  BY <1>1, <1>4, <1>5 DEF BackfillInv, BackfillTypeOK, serverVars
<1>7. Arrived' /\ Witnessed'
  BY <1>1, <1>3 DEF BackfillInv, Arrived, Witnessed, Bit, serverVars
<1>8. FlagsNotInvented'
  BY <1>1 DEF BackfillInv, FlagsNotInvented, serverVars
<1>9. WithoutId'
  <2>1. EnvResults(run) \cap run.todo = {}
    BY DEF BackfillInv, Apart, EnvResults
  <2>2. \A u \in run.todo \cap rows : msgId'[u] = msgId[u]
    BY <1>1, <1>2, <2>1
  <2>3. \A u \in run.todo \cap rows : msgId[u] # "id"
    BY <1>1 DEF BackfillInv, WithoutId
  <2> QED
    BY <1>1, <1>3, <2>2, <2>3 DEF WithoutId
<1>10. Apart'
  BY <1>1, <1>2 DEF Apart
<1> QED
  BY <1>6, <1>7, <1>8, <1>9, <1>10 DEF BackfillInv

\* The ends of the two parts, the SELECT between them, and a stop: the columns
\* stay as they are.
LEMMA QuietStep ==
  ASSUME BackfillInv, FlagsEnd \/ EnvSelect \/ EnvEnd \/ Crash
  PROVE  BackfillInv'
<1> USE BackfillAssumption
<1>1. UNCHANGED <<serverVars, columnVars>>
  BY DEF FlagsEnd, EnvSelect, EnvEnd, Crash
<1>2. /\ msgId \in [Uids -> {Null, "", "id"}] /\ rows \subseteq Uids
      /\ run \in [pc : {"idle", "flags", "flagsTx", "select", "env", "envTx"},
                 conn : BOOLEAN, todo : SUBSET Uids, batch : SUBSET Uids,
                 got : SUBSET Uids, read : SUBSET Uids]
  BY DEF BackfillInv, BackfillTypeOK
<1>3. faults' \subseteq Faults
  <2>1. faults \subseteq Faults
    BY DEF BackfillInv, BackfillTypeOK
  <2>2. faults' = faults \/ \E kind \in Faults : faults' = faults \cup {kind}
    BY DEF FlagsEnd, EnvSelect, EnvEnd, Crash, Fault
  <2> QED
    BY <2>1, <2>2
<1> DEFINE Runs == [pc : {"idle", "flags", "flagsTx", "select", "env", "envTx"},
                    conn : BOOLEAN, todo : SUBSET Uids, batch : SUBSET Uids,
                    got : SUBSET Uids, read : SUBSET Uids]
           Ended ==
             /\ run' \in Runs
             /\ run'.pc \in {"idle", "select"} /\ run'.todo = {} /\ run'.batch = {}
             /\ run'.got = {} /\ run'.read = {}
           Selected ==
             /\ run' \in Runs
             /\ run.pc = "select" /\ run'.pc = "env"
             /\ run'.todo = LackEnvelope(rows, msgId) /\ run'.batch = run.batch
             /\ run'.got = run.got /\ run'.read = run.read
<1>4. Ended \/ Selected
  <2>1. CASE FlagsEnd
    <3>1. run' = [Idle EXCEPT !.pc = "select", !.conn = run.conn] /\ run.conn \in BOOLEAN
      BY <1>2, <2>1 DEF FlagsEnd
    <3> QED
      BY <3>1 DEF Idle
  <2>2. CASE EnvEnd \/ Crash
    <3>1. run' = Idle
      BY <2>2 DEF EnvEnd, Crash
    <3> QED
      BY <3>1 DEF Idle
  <2>3. CASE EnvSelect
    <3>1. LackEnvelope(rows, msgId) \subseteq Uids
      BY <1>2 DEF LackEnvelope, Lacking
    <3> QED
      BY <1>2, <2>3, <3>1 DEF EnvSelect
  <2> QED
    BY <2>1, <2>2, <2>3
<1>6. run' \in Runs
  BY <1>4
<1>7. run'.got \subseteq run.got /\ (run'.got = {} \/ run'.read = run.read)
  BY <1>4
<1>8. BackfillTypeOK'
  BY <1>1, <1>3, <1>6 DEF BackfillInv, BackfillTypeOK, serverVars, columnVars
<1>9. Arrived' /\ Witnessed' /\ FlagsNotInvented'
  BY <1>1, <1>7 DEF BackfillInv, Arrived, Witnessed, FlagsNotInvented, Bit,
                    serverVars, columnVars
<1>10. Apart'
  BY <1>4 DEF BackfillInv, Apart
<1>11. run'.pc \in {"idle", "select"} \/
         (run'.batch = {} /\ run'.todo = LackEnvelope(rows, msgId))
  BY <1>4 DEF BackfillInv, Apart
<1>12. \A u \in LackEnvelope(rows, msgId) : msgId[u] # "id"
  BY NullAssumption DEF LackEnvelope, Lacking
<1>13. WithoutId'
  BY <1>1, <1>11, <1>12 DEF WithoutId, columnVars
<1> QED
  BY <1>8, <1>9, <1>10, <1>13 DEF BackfillInv

-----------------------------------------------------------------------------
LEMMA BackfillStepInv == BackfillInv /\ [BackfillNext]_backfillVars => BackfillInv'
<1> SUFFICES ASSUME BackfillInv, [BackfillNext]_backfillVars PROVE BackfillInv'
  OBVIOUS
<1>1. CASE \/ \E isSeen \in BOOLEAN : Deliver(isSeen)
           \/ \E u \in Uids : Flip(u) \/ Expunge(u) \/ DeleteRow(u)
  BY <1>1, ServerStep
<1>2. CASE RunImport
  BY <1>2, ImportStep
<1>3. CASE FlagsFetch \/ EnvFetch
  BY <1>3, FetchStep
<1>4. CASE FlagsWrite
  BY <1>4, FlagsWriteStep
<1>5. CASE EnvWrite
  BY <1>5, EnvWriteStep
<1>6. CASE FlagsEnd \/ EnvSelect \/ EnvEnd \/ Crash
  BY <1>6, QuietStep
<1>7. CASE RunEmpty \/ UNCHANGED backfillVars
  <2>1. UNCHANGED <<serverVars, columnVars, run, faults>>
    BY <1>7 DEF RunEmpty, backfillVars
  <2> QED
    BY <2>1 DEF serverVars, columnVars, BackfillInv, BackfillTypeOK, Arrived,
                FlagsNotInvented, Witnessed, WithoutId, Apart, Bit
<1> QED
  BY <1>1, <1>2, <1>3, <1>4, <1>5, <1>6, <1>7 DEF BackfillNext, RunStep

\* The flags in the database are flags the server showed: the values written
\* come from messages that were there, at a moment when they were.
THEOREM FlagsAreNotInvented == BackfillSpec => []FlagsNotInvented
<1>1. BackfillInit => BackfillInv
  BY BackfillInitInv
<1>2. BackfillInv /\ [BackfillNext]_backfillVars => BackfillInv'
  BY BackfillStepInv
<1>3. BackfillInv => FlagsNotInvented
  BY DEF BackfillInv
<1> QED
  BY <1>1, <1>2, <1>3, PTL DEF BackfillSpec

\* A message_id that is known stays: the import keeps the columns of the rows
\* there are, and the envelopes fetched are of rows that have none.
LEMMA IdKept ==
  ASSUME BackfillInv, [BackfillNext]_backfillVars, NEW u \in rows \cap rows',
         msgId[u] = "id"
  PROVE  msgId'[u] = "id"
<1>1. u \in Uids /\ msgId \in [Uids -> {Null, "", "id"}]
  BY DEF BackfillInv, BackfillTypeOK
<1>2. CASE RunImport
  <2>1. PICK new \in SUBSET (mbox \ rows) : Import(new)
    BY <1>2 DEF RunImport, NewUpTo
  <2> QED
    BY <1>1, <2>1 DEF Import
<1>3. CASE EnvWrite
  <2>1. u \notin EnvResults(run)
    BY <1>3 DEF EnvWrite, EnvResults, BackfillInv, WithoutId
  <2> QED
    BY <1>1, <1>3, <2>1 DEF EnvWrite
<1>4. ASSUME NEW v \in Uids, DeleteRow(v) PROVE msgId'[u] = "id"
  <2>1. u # v
    BY <1>4 DEF DeleteRow
  <2> QED
    BY <1>1, <1>4, <2>1 DEF DeleteRow
<1>5. CASE \/ \E isSeen \in BOOLEAN : Deliver(isSeen)
           \/ \E v \in Uids : Flip(v) \/ Expunge(v)
           \/ FlagsFetch \/ FlagsWrite \/ FlagsEnd \/ EnvSelect \/ EnvFetch \/ EnvEnd
           \/ Crash \/ RunEmpty \/ UNCHANGED backfillVars
  <2>1. msgId' = msgId
    BY <1>5 DEF Deliver, Flip, Expunge, FlagsFetch, FlagsWrite, FlagsEnd, EnvSelect,
                EnvFetch, Fetch, EnvEnd, Crash, RunEmpty, backfillVars, columnVars
  <2> QED
    BY <2>1
<1> QED
  BY <1>2, <1>3, <1>4, <1>5 DEF BackfillNext, RunStep

THEOREM IdsStay == BackfillSpec => IdsAreKept
<1>1. BackfillInit => BackfillInv
  BY BackfillInitInv
<1>2. BackfillInv /\ [BackfillNext]_backfillVars => BackfillInv'
  BY BackfillStepInv
<1>3. BackfillInv /\ [BackfillNext]_backfillVars =>
        [\A u \in rows \cap rows' : msgId[u] = "id" => msgId'[u] = "id"]_backfillVars
  BY IdKept
<1> QED
  BY <1>1, <1>2, <1>3, PTL DEF BackfillSpec, IdsAreKept

-----------------------------------------------------------------------------
(* The blanks.                                                             *)

Clean == faults \cap {"collect", "imap"} = {}

\* Up to now every FETCH returned what there was.  A message that was not there
\* does not come later: a list holds only UIDs that were given.
BlankInv ==
  /\ BackfillInv
  /\ \A u \in run.todo \cup run.batch : u < uidNext
  /\ Clean => /\ run.pc # "idle" => run.conn
              /\ run.pc = "envTx" => run.batch \cap mbox \subseteq run.got
  /\ BlankMeansNoHeader

LEMMA BlankInitInv == BackfillInit => BlankInv
<1> SUFFICES ASSUME BackfillInit PROVE BlankInv
  OBVIOUS
<1>1. \A u \in rows : u \in Uids /\ msgId[u] # ""
  <2>1. OldRows \subseteq Uids
    BY BackfillAssumption DEF OldRows, Uids
  <2>2. Null # ""
    BY NullAssumption
  <2> QED
    BY <2>1, <2>2 DEF BackfillInit
<1> QED
  BY <1>1, BackfillInitInv DEF BlankInv, BackfillInit, BlankMeansNoHeader, Idle

\* A FETCH that did not fail returned every message of the batch that is there.
LEMMA CleanFetch ==
  ASSUME BlankInv, FlagsFetch \/ EnvFetch
  PROVE  BlankInv'
<1>0. PICK then \in {"flagsTx", "envTx"} : Fetch(then) /\ run.pc # "idle"
  BY DEF FlagsFetch, EnvFetch
<1> DEFINE batch == BatchOf(run.todo)
<1>1. BackfillInv' /\ UNCHANGED <<serverVars, columnVars>>
  BY <1>0, FetchStep DEF BlankInv, Fetch
<1>2. PICK got \in SUBSET (batch \cap mbox), up \in BOOLEAN :
        /\ run' = [run EXCEPT !.pc = then, !.conn = up, !.todo = Rest(run.todo),
                              !.batch = batch, !.got = got, !.read = got \cap seen]
        /\ Clean' => Clean /\ (run.conn => up /\ got = batch \cap mbox)
  <2> DEFINE Answer(got, up) ==
               run' = [run EXCEPT !.pc = then, !.conn = up, !.todo = Rest(run.todo),
                                  !.batch = batch, !.got = got, !.read = got \cap seen]
  <2>1. CASE /\ Answer(IF run.conn THEN batch \cap mbox ELSE {}, run.conn)
             /\ UNCHANGED faults
    <3>1. run.conn \in BOOLEAN
      BY DEF BlankInv, BackfillInv, BackfillTypeOK
    <3> QED
      BY <2>1, <3>1 DEF Clean
  <2>2. CASE Fault("collect") /\ \E u \in batch \cap mbox : Answer((batch \cap mbox) \ {u}, TRUE)
    <3>1. PICK u \in batch \cap mbox : Answer((batch \cap mbox) \ {u}, TRUE)
      BY <2>2
    <3>2. ~ Clean'
      BY <2>2 DEF Fault, Clean
    <3> QED
      BY <3>1, <3>2
  <2>3. CASE Fault("imap") /\ \E u \in batch : Answer({v \in batch \cap mbox : v < u}, FALSE)
    <3>1. PICK u \in batch : Answer({v \in batch \cap mbox : v < u}, FALSE)
      BY <2>3
    <3>2. ~ Clean'
      BY <2>3 DEF Fault, Clean
    <3> QED
      BY <3>1, <3>2
  <2> QED
    BY <1>0, <2>1, <2>2, <2>3 DEF Fetch
<1>t. run \in [pc : {"idle", "flags", "flagsTx", "select", "env", "envTx"},
              conn : BOOLEAN, todo : SUBSET Uids, batch : SUBSET Uids,
              got : SUBSET Uids, read : SUBSET Uids]
  BY DEF BlankInv, BackfillInv, BackfillTypeOK
<1>3. /\ run'.pc = then /\ run'.conn = up /\ run'.todo = Rest(run.todo)
      /\ run'.batch = batch /\ run'.got = got
  BY <1>2, <1>t
<1>4. \A u \in run'.todo \cup run'.batch : u < uidNext'
  BY <1>1, <1>3, BatchIsPart DEF BlankInv, Rest, serverVars
<1>5. Clean' => run'.conn /\ run'.batch \cap mbox' \subseteq run'.got
  BY <1>0, <1>1, <1>2, <1>3 DEF BlankInv, serverVars
<1>6. BlankMeansNoHeader'
  BY <1>1, <1>2 DEF BlankInv, BlankMeansNoHeader, Clean, serverVars, columnVars
<1> QED
  BY <1>1, <1>4, <1>5, <1>6 DEF BlankInv

LEMMA BlankInvStep == BlankInv /\ [BackfillNext]_backfillVars => BlankInv'
<1> SUFFICES ASSUME BlankInv, [BackfillNext]_backfillVars PROVE BlankInv'
  OBVIOUS
<1>0. BackfillInv' /\ BackfillTypeOK
  BY BackfillStepInv DEF BlankInv, BackfillInv
<1>t. /\ uidNext \in Nat /\ Uids \subseteq Nat /\ mbox \subseteq Uids /\ rows \subseteq Uids
      /\ run.todo \subseteq Uids /\ run.batch \subseteq Uids
      /\ msgId \in [Uids -> {Null, "", "id"}]
      /\ \A u \in mbox \cup rows : u < uidNext
  <2>1. uidNext \in Nat /\ Uids \subseteq Nat
    <3>1. MaxUid \in Nat /\ uidNext \in 1..(MaxUid + 1)
      BY <1>0, BackfillAssumption DEF BackfillTypeOK
    <3> QED
      BY <3>1 DEF Uids
  <2>2. /\ mbox \subseteq Uids /\ rows \subseteq Uids
        /\ run.todo \subseteq Uids /\ run.batch \subseteq Uids
        /\ msgId \in [Uids -> {Null, "", "id"}]
    BY <1>0 DEF BackfillTypeOK
  <2>3. \A u \in mbox \cup rows : u < uidNext
    BY DEF BlankInv, BackfillInv, Arrived
  <2> QED
    BY <2>1, <2>2, <2>3
<1>n. uidNext \in Nat
  BY <1>t
<1>1. ASSUME NEW isSeen \in BOOLEAN, Deliver(isSeen) PROVE BlankInv'
  <2>1. /\ mbox' = mbox \cup {uidNext} /\ uidNext' = uidNext + 1
        /\ UNCHANGED <<columnVars, run, faults>>
    BY <1>1 DEF Deliver
  <2>2. rows' \cap mbox' = rows \cap mbox /\ run'.batch \cap mbox' = run.batch \cap mbox
    <3>1. uidNext \notin rows \cup run.batch
      <4>1. \A u \in rows \cup run.batch : u < uidNext
        BY <1>t DEF BlankInv
      <4> QED
        BY <1>n, <4>1
    <3> QED
      BY <2>1, <3>1 DEF columnVars
  <2>3. \A u \in run'.todo \cup run'.batch : u < uidNext'
    <3>1. \A u \in run.todo \cup run.batch : u < uidNext /\ u \in Nat
      BY <1>t DEF BlankInv
    <3>2. run' = run /\ uidNext' = uidNext + 1
      BY <2>1
    <3> QED
      BY <1>n, <3>1, <3>2
  <2>4. run' = run /\ faults' = faults /\ msgId' = msgId
    BY <2>1 DEF columnVars
  <2> QED
    BY <1>0, <2>2, <2>3, <2>4 DEF BlankInv, BlankMeansNoHeader, Clean
<1>2. ASSUME NEW u \in Uids, Flip(u) \/ Expunge(u) PROVE BlankInv'
  <2>1. mbox' \subseteq mbox /\ UNCHANGED <<uidNext, columnVars, run, faults>>
    BY <1>2 DEF Flip, Expunge
  <2> QED
    BY <1>0, <2>1 DEF BlankInv, BlankMeansNoHeader, Clean, columnVars
<1>3. ASSUME NEW u \in Uids, DeleteRow(u) PROVE BlankInv'
  <2>1. /\ rows' = rows \ {u} /\ msgId' = [msgId EXCEPT ![u] = Null]
        /\ UNCHANGED <<serverVars, run, faults>>
    BY <1>3 DEF DeleteRow
  <2>2. BlankMeansNoHeader'
    BY <1>t, <2>1 DEF BlankInv, BlankMeansNoHeader, serverVars
  <2> QED
    BY <1>0, <2>1, <2>2 DEF BlankInv, Clean, serverVars
<1>4. CASE RunImport
  <2>1. PICK new \in SUBSET (mbox \ rows), up \in BOOLEAN :
          /\ Import(new) /\ UNCHANGED serverVars
          /\ run' = Idle \/ run' = Begun(up)
          /\ Clean' => Clean /\ (run' = Idle \/ run' = Begun(TRUE))
    <3>1. CASE Import(mbox \ rows) /\ run' = Begun(TRUE) /\ UNCHANGED faults
      BY <1>4, <3>1 DEF RunImport, Clean
    <3>2. CASE Fault("imap") /\ \E last \in 0..MaxUid : Import(NewUpTo(last)) /\ run' = Begun(FALSE)
      <4>1. PICK last \in 0..MaxUid : Import(NewUpTo(last)) /\ run' = Begun(FALSE)
        BY <3>2
      <4>2. ~ Clean' /\ NewUpTo(last) \subseteq mbox \ rows
        BY <3>2 DEF Clean, Fault, NewUpTo
      <4> QED
        BY <1>4, <4>1, <4>2 DEF RunImport
    <3>3. CASE Fault("db") /\ \E last \in 0..MaxUid : Import(NewUpTo(last)) /\ run' = Idle
      <4>1. PICK last \in 0..MaxUid : Import(NewUpTo(last)) /\ run' = Idle
        BY <3>3
      <4>2. (Clean' => Clean) /\ NewUpTo(last) \subseteq mbox \ rows
        BY <3>3 DEF Clean, Fault, NewUpTo
      <4> QED
        BY <1>4, <4>1, <4>2 DEF RunImport
    <3> QED
      BY <1>4, <3>1, <3>2, <3>3 DEF RunImport
  <2>2. /\ rows' = rows \cup new
        /\ \A u \in rows' : msgId'[u] = "" => u \in rows /\ msgId[u] = ""
    BY <1>t, <2>1, NullAssumption DEF Import, NewMsgId
  <2>3. /\ run'.batch = {}
        /\ run'.pc \in {"idle", "flags"}
        /\ run'.todo \subseteq rows'
        /\ Clean' => (run'.pc # "idle" => run'.conn)
    <3>1. CASE run' = Idle
      BY <3>1 DEF Idle
    <3>2. ASSUME NEW b \in BOOLEAN, run' = Begun(b)
          PROVE  /\ run'.batch = {} /\ run'.pc = "flags" /\ run'.conn = b
                 /\ run'.todo \subseteq rows'
      BY <3>2 DEF Begun, Idle, Lacking
    <3> QED
      BY <2>1, <3>1, <3>2
  <2>4. \A u \in run'.todo \cup run'.batch : u < uidNext'
    BY <1>t, <2>1, <2>2, <2>3 DEF serverVars
  <2>5. BlankMeansNoHeader'
    <3>1. mbox' = mbox
      BY <2>1 DEF serverVars
    <3> QED
      BY <2>1, <2>2, <3>1 DEF BlankInv, BlankMeansNoHeader, Clean
  <2> QED
    BY <1>0, <2>3, <2>4, <2>5 DEF BlankInv
<1>5. CASE FlagsFetch \/ EnvFetch
  BY <1>5, CleanFetch
<1>6. CASE EnvWrite
  <2>1. /\ run.pc = "envTx" /\ UNCHANGED <<serverVars, rows, faults>>
        /\ run'.pc = "env" /\ run'.conn = run.conn /\ run'.todo = run.todo /\ run'.batch = {}
    BY <1>0, <1>6 DEF EnvWrite, BackfillTypeOK
  <2>2. Clean => \A u \in rows \cap mbox : msgId'[u] = "" => u \notin Headed
    <3> SUFFICES ASSUME Clean, NEW u \in rows \cap mbox, msgId'[u] = "" PROVE u \notin Headed
      OBVIOUS
    <3>1. CASE u \in run.batch
      <4>1. u \in run.got
        BY <2>1, <3>1 DEF BlankInv
      <4> QED
        BY <1>t, <1>6, <3>1, <4>1 DEF EnvWrite, EnvResults
    <3>2. CASE u \notin run.batch
      <4>1. msgId[u] = ""
        BY <1>t, <1>6, <3>2 DEF EnvWrite, EnvResults
      <4> QED
        BY <4>1 DEF BlankInv, BlankMeansNoHeader, Clean
    <3> QED
      BY <3>1, <3>2
  <2> QED
    BY <1>0, <2>1, <2>2 DEF BlankInv, BlankMeansNoHeader, Clean, serverVars
<1>7. CASE FlagsWrite \/ FlagsEnd \/ EnvSelect \/ EnvEnd \/ Crash
  <2>1. UNCHANGED <<serverVars, rows, msgId>> /\ faults \subseteq faults'
    BY <1>7 DEF FlagsWrite, FlagsEnd, EnvSelect, EnvEnd, Crash, Fault, columnVars
  <2>2. /\ run'.pc # "envTx" /\ run'.batch \subseteq run.batch
        /\ run'.todo \subseteq run.todo \cup rows
        /\ run'.pc # "idle" => run.pc # "idle" /\ run'.conn = run.conn
    <3>t. run \in [pc : {"idle", "flags", "flagsTx", "select", "env", "envTx"},
                   conn : BOOLEAN, todo : SUBSET Uids, batch : SUBSET Uids,
                   got : SUBSET Uids, read : SUBSET Uids]
      BY <1>0 DEF BackfillTypeOK
    <3>1. CASE FlagsWrite
      BY <3>t, <3>1 DEF FlagsWrite
    <3>2. CASE FlagsEnd
      BY <3>t, <3>2 DEF FlagsEnd, Idle
    <3>3. CASE EnvSelect
      BY <3>t, <3>3 DEF EnvSelect, LackEnvelope, Lacking
    <3>4. CASE EnvEnd \/ Crash
      BY <3>4 DEF EnvEnd, Crash, Idle
    <3> QED
      BY <1>7, <3>1, <3>2, <3>3, <3>4
  <2>3. \A u \in run'.todo \cup run'.batch : u < uidNext'
    BY <1>t, <2>1, <2>2 DEF BlankInv, serverVars
  <2>4. BlankMeansNoHeader'
    BY <2>1 DEF BlankInv, BlankMeansNoHeader, serverVars
  <2> QED
    BY <1>0, <2>1, <2>2, <2>3, <2>4 DEF BlankInv, Clean
<1>8. CASE RunEmpty \/ UNCHANGED backfillVars
  BY <1>0, <1>8 DEF RunEmpty, backfillVars, columnVars, serverVars, BlankInv,
     BlankMeansNoHeader, Clean
<1> QED
  BY <1>1, <1>2, <1>3, <1>4, <1>5, <1>6, <1>7, <1>8 DEF BackfillNext, RunStep

\* The mark "no Message-ID" is true of every row whose message is there, until
\* a FETCH fails: what a run reads back as processed was processed.
THEOREM BlanksAreTrue == BackfillSpec => []BlankMeansNoHeader
<1>1. BlankInv => BlankMeansNoHeader
  BY DEF BlankInv
<1> QED
  BY <1>1, BlankInitInv, BlankInvStep, PTL DEF BackfillSpec
=============================================================================
