-------------------------- MODULE ReadToolsProofs --------------------------
(***************************************************************************)
(* What ReadTools promises, for any mails, attributes and callers.         *)
(***************************************************************************)
EXTENDS ReadTools, FiniteSetTheorems, FunctionTheorems, TLAPS

LEMMA NoCallTyped == NoCall \in Call
  BY ReadAssumption DEF NoCall, Call, Pcs

\* What pages are cut from, and the cut, are rows.
LEMMA PageTyped ==
  ASSUME ReadTypeOK, NEW tool \in BOOLEAN, NEW offset
  PROVE  Page(tool, offset) \subseteq Matching(tool) /\ Matching(tool) \subseteq Mails
  BY DEF ReadTypeOK, Page, Matching

\* A step of one call: its new record is v, and the connection goes with it.
LEMMA OneCallTyped ==
  ASSUME ReadTypeOK, NEW c \in Callers, NEW v \in Call,
         call' = [call EXCEPT ![c] = v],
         UNCHANGED <<attr, rows, coming>>,
         errors' \in 0..MaxErrors,
         \/ conn' = conn
         \/ conn' \in {c, Nobody} /\ conn \in {c, Nobody},
         conn' = c <=> v.pc \in {"rows", "walk"}
  PROVE  ReadTypeOK'
  BY ReadAssumption DEF ReadTypeOK

LEMMA TypesStep == ReadTypeOK /\ [ReadNext]_readVars => ReadTypeOK'
<1> SUFFICES ASSUME ReadTypeOK, [ReadNext]_readVars PROVE ReadTypeOK'
  OBVIOUS
<1> USE ReadAssumption
<1>0. \A c \in Callers : call[c] \in Call
  BY DEF ReadTypeOK
<1>1. ASSUME NEW m \in Mails, Import(m) PROVE ReadTypeOK'
  BY <1>1 DEF ReadTypeOK, Import
<1>2. ASSUME NEW m \in Mails, Delete(m) PROVE ReadTypeOK'
  <2> DEFINE kept(c) == {x \in call[c].owed \ {m} : ~ Before(m, x)}
             new(c)  == [call[c] EXCEPT !.owed = kept(c)]
  <2>1. call' = [c \in Callers |-> new(c)]
    BY <1>2 DEF Delete
  <2>2. ASSUME NEW c \in Callers PROVE new(c) \in Call /\ new(c).pc = call[c].pc
    <3>1. kept(c) \in SUBSET Mails
      BY <1>0 DEF Call
    <3> HIDE DEF kept
    <3> QED BY <1>0, <3>1 DEF Call
  <2> HIDE DEF new
  <2>3. call' \in [Callers -> Call] /\ \A c \in Callers : call'[c].pc = call[c].pc
    BY <2>1, <2>2
  <2>4. UNCHANGED <<attr, coming, conn, errors>> /\ rows' = rows \ {m}
    BY <1>2 DEF Delete
  <2> QED BY <2>3, <2>4 DEF ReadTypeOK
<1>3. ASSUME NEW c \in Callers, NEW tool \in BOOLEAN, Begin(c, tool) PROVE ReadTypeOK'
  <2> DEFINE v == [NoCall EXCEPT !.pc = "ask", !.tool = tool, !.owed = Matching(tool)]
  <2>1. Matching(tool) \in SUBSET Mails
    BY PageTyped
  <2>2. v \in Call /\ v.pc = "ask"
    BY <2>1, NoCallTyped DEF Call, Pcs
  <2>3. call' = [call EXCEPT ![c] = v]
    BY <1>3 DEF Begin
  <2>4. errors' \in 0..MaxErrors /\ UNCHANGED <<attr, rows, coming, conn>> /\ conn # c
    BY <1>3 DEF Begin, ReadTypeOK
  <2> HIDE DEF v
  <2> QED BY <2>2, <2>3, <2>4, OneCallTyped
<1>4. ASSUME NEW c \in Callers, OpenPage(c) PROVE ReadTypeOK'
  <2> DEFINE page == Page(TRUE, call[c].offset)
             v == [call[c] EXCEPT !.pc = "rows", !.page = page]
  <2>1. page \in SUBSET Mails
    BY PageTyped
  <2> HIDE DEF page
  <2>2. v \in Call /\ v.pc = "rows"
    BY <1>0, <2>1 DEF Call, Pcs
  <2>3. call' = [call EXCEPT ![c] = v]
    BY <1>4 DEF OpenPage, page
  <2> HIDE DEF v
  <2> QED BY <1>4, <2>2, <2>3, OneCallTyped DEF OpenPage, ReadTypeOK
<1>5. ASSUME NEW c \in Callers, ReadPage(c) PROVE ReadTypeOK'
  <2> PICK lost \in SUBSET call[c].page :
        /\ lost # {} => errors < MaxErrors
        /\ errors' = errors + (IF lost = {} THEN 0 ELSE 1)
        /\ call' = [call EXCEPT ![c].pc = "count", ![c].page = {},
                               ![c].seen = @ \cup (call[c].page \ lost),
                               ![c].owed = @ \ lost]
    BY <1>5 DEF ReadPage
  <2> DEFINE v == [call[c] EXCEPT !.pc = "count", !.page = {},
                                  !.seen = @ \cup (call[c].page \ lost), !.owed = @ \ lost]
  <2>1. v \in Call /\ v.pc = "count"
    BY <1>0 DEF Call, Pcs
  <2>2. call' = [call EXCEPT ![c] = v]
    OBVIOUS
  <2>3. errors' \in 0..MaxErrors
    BY DEF ReadTypeOK
  <2>4. conn = c
    BY <1>5 DEF ReadTypeOK, ReadPage
  <2> HIDE DEF v
  <2> QED BY <1>5, <2>1, <2>2, <2>3, <2>4, OneCallTyped DEF ReadPage, AfterLastRow
<1>6. ASSUME NEW c \in Callers, CountPage(c) PROVE ReadTypeOK'
  <2> DEFINE next == call[c].offset + Limit
  <2>1. next \in Nat
    BY <1>0 DEF Call
  <2>2. PICK v \in {[call[c] EXCEPT !.offset = next, !.pc = "ask"],
                   [call[c] EXCEPT !.offset = next, !.pc = "done"],
                   [call[c] EXCEPT !.pc = "done", !.owed = {}]} :
          call' = [call EXCEPT ![c] = v]
    BY <1>6 DEF CountPage
  <2>3. v \in Call /\ v.pc \in {"ask", "done"}
    <3> HIDE DEF next
    <3> QED BY <1>0, <2>1, <2>2 DEF Call, Pcs
  <2>4. errors' \in 0..MaxErrors /\ UNCHANGED <<attr, rows, coming, conn>> /\ conn = Nobody
    BY <1>6 DEF CountPage, ReadTypeOK
  <2> HIDE DEF next
  <2> QED BY <2>3, <2>2, <2>4, OneCallTyped
<1>7. ASSUME NEW c \in Callers, QueryCommand(c) PROVE ReadTypeOK'
  <2> DEFINE page == Page(FALSE, call[c].offset)
             v1 == [call[c] EXCEPT !.pc = "done", !.owed = {}]
             v2 == [call[c] EXCEPT !.pc = "done", !.seen = @ \cup page]
             v3 == [call[c] EXCEPT !.offset = @ + Limit, !.seen = @ \cup page]
  <2>1. page \in SUBSET Mails
    BY PageTyped
  <2> HIDE DEF page
  <2>2. v1 \in Call /\ v1.pc = "done"
    BY <1>0, <2>1 DEF Call, Pcs
  <2>3. v2 \in Call /\ v2.pc = "done"
    BY <1>0, <2>1 DEF Call, Pcs
  <2>4. v3 \in Call /\ v3.pc = call[c].pc
    <3>1. call[c].offset + Limit \in Nat
      BY <1>0 DEF Call
    <3>2. call[c].seen \cup page \in SUBSET Mails
      BY <1>0, <2>1 DEF Call
    <3> QED BY <1>0, <3>1, <3>2 DEF Call
  <2>5. PICK v \in {v1, v2, v3} : call' = [call EXCEPT ![c] = v]
    BY <1>7 DEF QueryCommand, page
  <2>6. conn # c /\ call[c].pc = "ask"
    BY <1>7 DEF ReadTypeOK, QueryCommand
  <2>7. v \in Call /\ v.pc \in {"ask", "done"}
    BY <2>2, <2>3, <2>4, <2>6
  <2>8. UNCHANGED <<attr, rows, coming, conn, errors>>
    BY <1>7 DEF QueryCommand
  <2> HIDE DEF v1, v2, v3
  <2>9. errors' \in 0..MaxErrors
    BY <2>8 DEF ReadTypeOK
  <2> QED BY <2>5, <2>6, <2>7, <2>8, <2>9, OneCallTyped
<1>8. ASSUME NEW c \in Callers, NEW m \in Mails, ThreadBegin(c, m) PROVE ReadTypeOK'
  <2> DEFINE v == [NoCall EXCEPT !.pc = "walk", !.start = m, !.found = {m} \cap rows,
                                 !.queue = {m} \cap rows]
  <2>1. v \in Call /\ v.pc = "walk"
    BY NoCallTyped DEF Call, Pcs
  <2>2. call' = [call EXCEPT ![c] = v]
    BY <1>8 DEF ThreadBegin
  <2>3. errors' \in 0..MaxErrors
    BY <1>8 DEF ThreadBegin, ReadTypeOK
  <2> HIDE DEF v
  <2> QED BY <1>8, <2>1, <2>2, <2>3, OneCallTyped DEF ThreadBegin
<1>9. ASSUME NEW c \in Callers, NEW t \in Mails, ThreadStep(c, t) PROVE ReadTypeOK'
  <2> DEFINE new == NewFrom(t, call[c].found)
             v == [call[c] EXCEPT !.found = @ \cup new, !.queue = (@ \ {t}) \cup new]
  <2>1. new \in SUBSET Mails
    BY DEF NewFrom, ReadTypeOK
  <2>2. call' = [call EXCEPT ![c] = v]
    BY <1>9 DEF ThreadStep
  <2> HIDE DEF new
  <2>3. v \in Call /\ v.pc = call[c].pc
    BY <1>0, <2>1 DEF Call
  <2> HIDE DEF v
  <2> QED BY <1>9, <2>2, <2>3, OneCallTyped DEF ThreadStep, ReadTypeOK
<1>10. ASSUME NEW c \in Callers, ThreadEnd(c) PROVE ReadTypeOK'
  <2> DEFINE shown == {m \in call[c].found : ~ attr[m].trash}
             v == [call[c] EXCEPT !.pc = "done", !.seen = shown]
  <2>1. shown \in SUBSET Mails
    BY <1>0 DEF Call
  <2>2. call' = [call EXCEPT ![c] = v]
    BY <1>10 DEF ThreadEnd
  <2> HIDE DEF shown
  <2>3. v \in Call /\ v.pc = "done"
    BY <1>0, <2>1 DEF Call, Pcs
  <2>4. conn = c
    BY <1>10 DEF ReadTypeOK, ThreadEnd
  <2> HIDE DEF v
  <2> QED BY <1>10, <2>2, <2>3, <2>4, OneCallTyped DEF ThreadEnd, ReadTypeOK, AfterLastRow
<1>11. ASSUME NEW c \in Callers, NEW m \in Mails, Content(c, m) PROVE ReadTypeOK'
  <2> DEFINE v == [NoCall EXCEPT !.pc = IF m \in rows THEN "attachments" ELSE "done",
                                 !.seen = {m} \cap rows]
  <2>1. v \in Call /\ v.pc \in {"attachments", "done"}
    BY NoCallTyped DEF Call, Pcs
  <2>2. call' = [call EXCEPT ![c] = v]
    BY <1>11 DEF Content
  <2>3. errors' \in 0..MaxErrors /\ conn' = Nobody /\ conn' = conn
    BY <1>11 DEF Content, ReadTypeOK
  <2> HIDE DEF v
  <2> QED BY <1>11, <2>1, <2>2, <2>3, ReadAssumption, OneCallTyped DEF Content
<1>12. ASSUME NEW c \in Callers, ContentAttachments(c) PROVE ReadTypeOK'
  <2> DEFINE v == [call[c] EXCEPT !.pc = "done"]
  <2>1. v \in Call /\ v.pc = "done"
    BY <1>0 DEF Call, Pcs
  <2>2. call' = [call EXCEPT ![c] = v]
    BY <1>12 DEF ContentAttachments
  <2>3. errors' \in 0..MaxErrors /\ conn' = Nobody /\ conn' = conn
    BY <1>12 DEF ContentAttachments, ReadTypeOK
  <2> HIDE DEF v
  <2> QED BY <1>12, <2>1, <2>2, <2>3, ReadAssumption, OneCallTyped DEF ContentAttachments
<1>13. ASSUME NEW c \in Callers, QueryFails(c) PROVE ReadTypeOK'
  <2> DEFINE v == [call[c] EXCEPT !.pc = "done", !.owed = {}]
  <2>1. v \in Call /\ v.pc = "done"
    BY <1>0 DEF Call, Pcs
  <2>2. call' = [call EXCEPT ![c] = v]
    BY <1>13 DEF QueryFails
  <2>3. errors' \in 0..MaxErrors
    BY <1>13 DEF QueryFails, ReadTypeOK
  <2> HIDE DEF v
  <2> QED BY <1>13, <2>1, <2>2, <2>3, OneCallTyped DEF QueryFails, ReadTypeOK
<1>14. CASE UNCHANGED readVars
  BY <1>14 DEF ReadTypeOK, readVars
<1> QED
  BY <1>1, <1>2, <1>3, <1>4, <1>5, <1>6, <1>7, <1>8, <1>9, <1>10, <1>11, <1>12,
     <1>13, <1>14 DEF ReadNext, CallStep

\* Every variable has its type, and the connection is with the call whose cursor is
\* open (db.Open, the handlers' rows).
THEOREM ReadTypes == ReadSpec => []ReadTypeOK
<1>1. ReadInit => ReadTypeOK
  <2> SUFFICES ASSUME ReadInit PROVE ReadTypeOK
    OBVIOUS
  <2>1. call \in [Callers -> Call] /\ \A c \in Callers : call[c].pc = "idle"
    BY NoCallTyped DEF ReadInit, NoCall
  <2> QED BY <2>1, ReadAssumption DEF ReadInit, ReadTypeOK
<1> QED BY <1>1, TypesStep, PTL DEF ReadSpec

-----------------------------------------------------------------------------
(***************************************************************************)
(* get_thread.  The rows taken from the queue have all their links in the  *)
(* result, and the result is in every closed set with the mail in it; the  *)
(* table stands still while the cursor has the connection.                 *)
(***************************************************************************)
WalkOf(c) ==
  /\ call[c].queue \subseteq call[c].found
  /\ call[c].found \subseteq rows
  /\ call[c].start \in rows => call[c].start \in call[c].found
  /\ \A t \in call[c].found \ call[c].queue : \A e \in rows : Joins(e, t) => e \in call[c].found
  /\ \A ms \in SUBSET rows :
       call[c].start \in ms /\ Closed(ms) => call[c].found \subseteq ms

WalkInv == \A c \in Callers : call[c].pc = "walk" => WalkOf(c)

\* Of a call, a deletion changes only what it is owed.
LEMMA DeleteKeepsRest ==
  ASSUME ReadTypeOK, NEW m \in Mails, Delete(m), NEW c \in Callers
  PROVE  /\ call'[c] \in Call
         /\ call'[c].pc = call[c].pc /\ call'[c].tool = call[c].tool
         /\ call'[c].offset = call[c].offset
         /\ call'[c].page = call[c].page /\ call'[c].seen = call[c].seen
         /\ call'[c].owed = {x \in call[c].owed \ {m} : ~ Before(m, x)}
<1> DEFINE kept == {x \in call[c].owed \ {m} : ~ Before(m, x)}
<1>1. call[c] \in Call
  BY DEF ReadTypeOK
<1>2. call'[c] = [call[c] EXCEPT !.owed = kept]
  BY DEF Delete
<1>3. kept \in SUBSET Mails
  BY <1>1 DEF Call
<1> HIDE DEF kept
<1>4. /\ call'[c] \in Call
      /\ call'[c].pc = call[c].pc /\ call'[c].tool = call[c].tool
      /\ call'[c].offset = call[c].offset
      /\ call'[c].page = call[c].page /\ call'[c].seen = call[c].seen
      /\ call'[c].owed = kept
  BY <1>1, <1>2, <1>3 DEF Call
<1> QED BY <1>4 DEF kept

\* A step that leaves a walk and the table alone.
LEMMA WalkKept ==
  ASSUME NEW c \in Callers, WalkOf(c), UNCHANGED <<attr, rows>>, call'[c] = call[c]
  PROVE  WalkOf(c)'
  BY DEF WalkOf, Closed, Joins

LEMMA WalkStep == ReadTypeOK /\ WalkInv /\ [ReadNext]_readVars => WalkInv'
<1> SUFFICES ASSUME ReadTypeOK, WalkInv, [ReadNext]_readVars,
                    NEW c \in Callers, call'[c].pc = "walk"
             PROVE  WalkOf(c)'
  BY DEF WalkInv
<1> USE ReadAssumption
<1>a. \A d \in Callers : call[d] \in Call
  BY DEF ReadTypeOK
<1>b. call[c].pc = "walk" => WalkOf(c) /\ conn = c /\ conn # Nobody
  BY DEF WalkInv, ReadTypeOK
<1>1. ASSUME NEW m \in Mails, Import(m) \/ Delete(m) PROVE WalkOf(c)'
  <2>1. conn = Nobody
    BY <1>1 DEF Import, Delete
  <2>2. call'[c].pc = call[c].pc
    <3>1. CASE Import(m)
      BY <3>1 DEF Import
    <3>2. CASE Delete(m)
      BY <3>2, DeleteKeepsRest
    <3> QED BY <1>1, <3>1, <3>2
  <2> QED BY <2>1, <2>2, <1>b
<1>2. ASSUME NEW d \in Callers, NEW m \in Mails, ThreadBegin(d, m) PROVE WalkOf(c)'
  <2>1. conn = Nobody /\ UNCHANGED <<attr, rows>>
    BY <1>2 DEF ThreadBegin
  <2>2. d = c
    BY <1>2, <2>1, <1>b DEF ThreadBegin, ReadTypeOK
  <2>3. /\ call'[c].start = m
        /\ call'[c].found = {m} \cap rows
        /\ call'[c].queue = {m} \cap rows
    BY <1>2, <2>2 DEF ThreadBegin, ReadTypeOK, NoCall
  <2> QED BY <2>1, <2>3 DEF WalkOf, Closed, Joins
<1>3. ASSUME NEW d \in Callers, NEW t \in Mails, ThreadStep(d, t) PROVE WalkOf(c)'
  <2> DEFINE new == NewFrom(t, call[d].found)
  <2>1. d = c
    BY <1>3, <1>b DEF ThreadStep, ReadTypeOK
  <2>2. /\ UNCHANGED <<attr, rows>>
        /\ t \in call[c].queue
        /\ call'[c].start = call[c].start
        /\ call'[c].found = call[c].found \cup new
        /\ call'[c].queue = (call[c].queue \ {t}) \cup new
    BY <1>3, <1>a, <2>1 DEF ThreadStep, ReadTypeOK, Call
  <2>3. call[c].pc = "walk" /\ WalkOf(c)
    BY <1>3, <2>1, <1>b DEF ThreadStep
  <2>4. new = {e \in rows \ call[c].found : Joins(e, t)}
    BY <2>1 DEF NewFrom
  <2>5. \A x \in call'[c].found \ call'[c].queue : \A e \in rows :
          Joins(e, x) => e \in call'[c].found
    <3> SUFFICES ASSUME NEW x \in call'[c].found \ call'[c].queue, NEW e \in rows, Joins(e, x)
                 PROVE  e \in call'[c].found
      OBVIOUS
    <3>1. CASE x = t
      BY <3>1, <2>2, <2>4
    <3>2. CASE x # t
      <4>1. x \in call[c].found \ call[c].queue
        BY <3>2, <2>2
      <4> QED BY <4>1, <2>2, <2>3 DEF WalkOf
    <3> QED BY <3>1, <3>2
  <2>6. ASSUME NEW ms \in SUBSET rows, call[c].start \in ms, Closed(ms)
        PROVE  call'[c].found \subseteq ms
    <3>1. call[c].found \subseteq ms /\ t \in ms
      BY <2>2, <2>3, <2>6 DEF WalkOf
    <3>2. new \subseteq ms
      BY <2>4, <2>6, <3>1 DEF Closed
    <3> QED BY <2>2, <3>1, <3>2
  <2> HIDE DEF new
  <2>7. call'[c].queue \subseteq call'[c].found /\ call'[c].found \subseteq rows
    BY <2>2, <2>3, <2>4 DEF WalkOf
  <2>8. call'[c].start \in rows => call'[c].start \in call'[c].found
    BY <2>2, <2>3 DEF WalkOf
  <2>9. \A e, x : Joins(e, x)' <=> Joins(e, x)
    BY <2>2 DEF Joins
  <2>10. \A ms : Closed(ms)' <=> Closed(ms)
    BY <2>2, <2>9 DEF Closed
  <2> QED BY <2>2, <2>5, <2>6, <2>7, <2>8, <2>9, <2>10 DEF WalkOf
<1>4. ASSUME NEW d \in Callers,
             \/ OpenPage(d) \/ ReadPage(d) \/ CountPage(d) \/ QueryCommand(d)
             \/ ThreadEnd(d) \/ ContentAttachments(d) \/ QueryFails(d)
             \/ \E tool \in BOOLEAN : Begin(d, tool)
             \/ \E m \in Mails : Content(d, m)
      PROVE  WalkOf(c)'
  <2>1. UNCHANGED <<attr, rows>>
    BY <1>4 DEF OpenPage, ReadPage, CountPage, QueryCommand, ThreadEnd,
                ContentAttachments, QueryFails, Begin, Content
  <2>2. (c # d => call'[c] = call[c]) /\ (c = d => call'[c].pc # "walk")
    <3>0. call[d] \in Call /\ DOMAIN call = Callers
      BY <1>a DEF ReadTypeOK
    <3>1. CASE OpenPage(d)
      BY <3>0, <3>1 DEF OpenPage, Call
    <3>2. CASE ReadPage(d)
      <4> PICK lost \in SUBSET call[d].page :
            call' = [call EXCEPT ![d].pc = "count", ![d].page = {},
                                 ![d].seen = @ \cup (call[d].page \ lost),
                                 ![d].owed = @ \ lost]
        BY <3>2 DEF ReadPage
      <4> QED BY <3>0 DEF Call
    <3>3. CASE CountPage(d)
      BY <3>0, <3>3 DEF CountPage, Call
    <3>4. CASE QueryCommand(d)
      <4> DEFINE page == Page(FALSE, call[d].offset)
      <4>1. \/ call' = [call EXCEPT ![d].pc = "done", ![d].owed = {}]
            \/ call' = [call EXCEPT ![d].pc = "done", ![d].seen = @ \cup page]
            \/ call' = [call EXCEPT ![d].offset = @ + Limit, ![d].seen = @ \cup page]
        BY <3>4 DEF QueryCommand
      <4>2. call[d].pc = "ask"
        BY <3>4 DEF QueryCommand
      <4> HIDE DEF page
      <4> QED BY <3>0, <4>1, <4>2 DEF Call
    <3>5. CASE ThreadEnd(d)
      BY <3>0, <3>5 DEF ThreadEnd, Call
    <3>6. CASE ContentAttachments(d)
      BY <3>0, <3>6 DEF ContentAttachments, Call
    <3>7. CASE QueryFails(d)
      BY <3>0, <3>7 DEF QueryFails, Call
    <3>8. CASE \E tool \in BOOLEAN : Begin(d, tool)
      <4> PICK tool \in BOOLEAN : call' = [call EXCEPT ![d] =
            [NoCall EXCEPT !.pc = "ask", !.tool = tool, !.owed = Matching(tool)]]
        BY <3>8 DEF Begin
      <4> QED BY <3>0, NoCallTyped DEF Call
    <3>9. CASE \E m \in Mails : Content(d, m)
      <4> PICK m \in Mails : call' = [call EXCEPT ![d] =
            [NoCall EXCEPT !.pc = IF m \in rows THEN "attachments" ELSE "done",
                           !.seen = {m} \cap rows]]
        BY <3>9 DEF Content
      <4> QED BY <3>0, NoCallTyped DEF Call
    <3> QED BY <1>4, <3>1, <3>2, <3>3, <3>4, <3>5, <3>6, <3>7, <3>8, <3>9
  <2>3. call'[c] = call[c] /\ call[c].pc = "walk"
    BY <2>2
  <2> QED BY <2>1, <2>3, <1>b, WalkKept
<1>5. CASE UNCHANGED readVars
  BY <1>5, <1>b, WalkKept DEF readVars
<1> QED
  BY <1>1, <1>2, <1>3, <1>4, <1>5 DEF ReadNext, CallStep

\* The answer of get_thread is the least closed set with the mail in it, for any
\* mails and headers and whatever is imported, deleted and asked beside it
\* (handleGetThread).
THEOREM ThreadsAreComponents == ReadSpec => []ThreadIsComponent
<1>1. ReadInit => WalkInv
  BY DEF ReadInit, WalkInv, NoCall
<1>2. WalkInv => ThreadIsComponent
  BY DEF WalkInv, WalkOf, ThreadIsComponent, Closed
<1> QED BY <1>1, <1>2, WalkStep, ReadTypes, PTL DEF ReadSpec
-----------------------------------------------------------------------------
(***************************************************************************)
(* Paging.  A mail that is owed and not shown yet is behind the next       *)
(* page's offset in the order of the answer: an import can only move it    *)
(* back, and a deletion that would move it forward takes it off the bill.  *)
(***************************************************************************)
LEMMA RankNat ==
  ASSUME NEW ms, IsFiniteSet(ms), NEW x
  PROVE  Rank(x, ms) \in Nat
<1> {y \in ms : Before(y, x)} \subseteq ms
  OBVIOUS
<1> QED BY FS_Subset, FS_CardinalityType DEF Rank

LEMMA RankGrows ==
  ASSUME NEW ns, IsFiniteSet(ns), NEW ms \in SUBSET ns, NEW x
  PROVE  Rank(x, ms) <= Rank(x, ns)
<1> DEFINE low(s) == {y \in s : Before(y, x)}
<1>1. low(ms) \subseteq low(ns) /\ low(ns) \subseteq ns
  OBVIOUS
<1>2. IsFiniteSet(low(ns))
  BY <1>1, FS_Subset
<1>3. Cardinality(low(ms)) <= Cardinality(low(ns))
  BY <1>1, <1>2, FS_Subset
<1> QED BY <1>3 DEF Rank

LEMMA RankBelowCount ==
  ASSUME ReadTypeOK, NEW ms \in SUBSET Mails, NEW x \in ms
  PROVE  Rank(x, ms) < Cardinality(ms)
<1> DEFINE low == {y \in ms : Before(y, x)}
<1>1. IsFiniteSet(ms)
  BY ReadAssumption, FS_Subset
<1>2. ~ Before(x, x)
  BY ReadAssumption DEF Before, ReadTypeOK
<1>3. low \subseteq ms /\ low # ms
  BY <1>2
<1>4. Cardinality(low) < Cardinality(ms)
  <2> HIDE DEF low
  <2> QED BY <1>1, <1>3, FS_Subset, FS_CardinalityType
<1> QED BY <1>4 DEF Rank

\* The order of the answer is total, and so no two mails have the same rank.
LEMMA RankInjective ==
  ASSUME ReadTypeOK, NEW ms \in SUBSET Mails, NEW x \in ms, NEW y \in ms, x # y
  PROVE  Rank(x, ms) # Rank(y, ms)
<1> DEFINE low(m) == {w \in ms : Before(w, m)}
<1>1. IsFiniteSet(ms)
  BY ReadAssumption, FS_Subset
<1>2. ASSUME NEW v \in ms, NEW w \in ms, Before(v, w)
      PROVE  Cardinality(low(v)) < Cardinality(low(w))
  <2>1. \A m \in ms : m \in Nat /\ attr[m].date \in Nat
    BY ReadAssumption DEF ReadTypeOK
  <2>2. low(v) \subseteq low(w) /\ v \in low(w) /\ v \notin low(v) /\ low(w) \subseteq ms
    BY <1>2, <2>1 DEF Before
  <2>3. IsFiniteSet(low(w))
    BY <1>1, <2>2, FS_Subset
  <2> HIDE DEF low
  <2> QED BY <2>2, <2>3, FS_Subset, FS_CardinalityType
<1>3. Before(x, y) \/ Before(y, x)
  BY ReadAssumption DEF ReadTypeOK, Before
<1>4. Cardinality(low(x)) \in Nat /\ Cardinality(low(y)) \in Nat
  <2>1. low(x) \subseteq ms /\ low(y) \subseteq ms
    OBVIOUS
  <2> HIDE DEF low
  <2> QED BY <1>1, <2>1, FS_Subset, FS_CardinalityType
<1>5. Rank(x, ms) = Cardinality(low(x)) /\ Rank(y, ms) = Cardinality(low(y))
  BY DEF Rank
<1> HIDE DEF low
<1> QED BY <1>2, <1>3, <1>4, <1>5

\* ... and every rank below their number is one mail's.
LEMMA EveryRank ==
  ASSUME ReadTypeOK, NEW ms \in SUBSET Mails, NEW k \in Nat, k < Cardinality(ms)
  PROVE  \E m \in ms : Rank(m, ms) = k
<1> DEFINE ranks == 0..(Cardinality(ms) - 1)
           rank  == [m \in ms |-> Rank(m, ms)]
<1>1. IsFiniteSet(ms) /\ Cardinality(ms) \in Nat
  BY ReadAssumption, FS_Subset, FS_CardinalityType
<1>2. IsFiniteSet(ranks) /\ Cardinality(ranks) = Cardinality(ms)
  <2> DEFINE n == Cardinality(ms)
  <2>1. 0 \in Int /\ n - 1 \in Int /\ n \in Nat /\ n # 0
    BY <1>1
  <2> HIDE DEF n
  <2>2. IsFiniteSet(0..(n - 1)) /\ Cardinality(0..(n - 1)) = (n - 1) - 0 + 1
    BY <2>1, FS_Interval
  <2>3. Cardinality(0..(n - 1)) = n
    BY <2>1, <2>2
  <2> QED BY <2>2, <2>3 DEF n
<1>3. \A m \in ms : Rank(m, ms) \in ranks
  BY <1>1, RankNat, RankBelowCount
<1>4. rank \in Injection(ms, ranks)
  <2> HIDE DEF ranks
  <2>1. rank \in [ms -> ranks]
    BY <1>3
  <2>2. \A v, w \in ms : v # w => rank[v] # rank[w]
    BY RankInjective
  <2> HIDE DEF rank
  <2> QED BY <2>1, <2>2, Fun_IsInj
<1>5. rank \in Surjection(ms, ranks)
  <2> HIDE DEF rank, ranks
  <2> QED BY <1>1, <1>2, <1>4, FS_Injection
<1>6. k \in ranks
  BY <1>1
<1>7. PICK m \in ms : rank[m] = k
  <2> HIDE DEF rank, ranks
  <2> QED BY <1>5, <1>6 DEF Surjection
<1> QED BY <1>7

\* A page with fewer mails than Limit is the last.
LEMMA ShortPageIsLast ==
  ASSUME ReadTypeOK, NEW tool \in BOOLEAN, NEW offset \in Nat,
         Cardinality(Page(tool, offset)) < Limit, NEW x \in Matching(tool)
  PROVE  Rank(x, Matching(tool)) < offset + Limit
<1> DEFINE ms    == Matching(tool)
           page  == Page(tool, offset)
           ranks == offset..(offset + Limit - 1)
           at    == [k \in ranks |-> CHOOSE m \in ms : Rank(m, ms) = k]
<1>1. ms \in SUBSET Mails /\ IsFiniteSet(ms) /\ page \subseteq ms /\ IsFiniteSet(page)
  BY PageTyped, ReadAssumption, FS_Subset
<1>2. page = {m \in ms : offset <= Rank(m, ms) /\ Rank(m, ms) < offset + Limit}
  BY DEF Page
<1>3. Limit \in Nat \ {0}
  BY ReadAssumption
<1>4. IsFiniteSet(ranks) /\ Cardinality(ranks) = Limit
  BY <1>3, FS_Interval
<1>5. Rank(x, ms) \in Nat /\ Rank(x, ms) < Cardinality(ms) /\ Cardinality(ms) \in Nat
  <2>1. x \in ms
    OBVIOUS
  <2> HIDE DEF ms
  <2> QED BY <1>1, <2>1, RankNat, RankBelowCount, FS_CardinalityType
<1>6. SUFFICES ASSUME Rank(x, ms) >= offset + Limit PROVE FALSE
  <2> HIDE DEF ms
  <2>1. ms = Matching(tool)
    BY DEF ms
  <2> QED BY <1>3, <1>5, <2>1
<1> HIDE DEF ms, page
<1>7. ASSUME NEW k \in ranks
      PROVE  at[k] \in page /\ Rank(at[k], ms) = k
  <2>1. k \in Nat /\ k < Cardinality(ms) /\ offset <= k /\ k < offset + Limit
    BY <1>3, <1>5, <1>6
  <2>2. \E m \in ms : Rank(m, ms) = k
    BY <1>1, <2>1, EveryRank
  <2>3. at[k] \in ms /\ Rank(at[k], ms) = k
    BY <2>2
  <2> QED BY <1>2, <2>1, <2>3
<1>8. at \in Injection(ranks, page)
  <2> DEFINE pick(k) == CHOOSE m \in ms : Rank(m, ms) = k
  <2>1. at = [k \in ranks |-> pick(k)]
    OBVIOUS
  <2> HIDE DEF ranks, pick
  <2>2. at \in [ranks -> page]
    BY <1>7, <2>1
  <2>3. \A v, w \in ranks : at[v] = at[w] => v = w
    BY <1>7
  <2> HIDE DEF at
  <2> QED BY <2>2, <2>3, Fun_IsInj
<1>9. Limit <= Cardinality(page)
  <2> HIDE DEF at, ranks
  <2> QED BY <1>1, <1>4, <1>8, FS_Injection
<1> QED BY <1>1, <1>3, <1>9, FS_CardinalityType DEF page

\* The rank from which the pages to come show the mails.
NextOffset(c) == call[c].offset + (IF call[c].pc = "ask" THEN 0 ELSE Limit)

\* The mail is on a page to come.
ToCome(c, x) ==
  LET ms == Matching(call[c].tool)
  IN  x \in ms /\ Rank(x, ms) >= NextOffset(c)

\* The command has no state between its pages but the offset.
PagingOf(c) ==
  /\ call[c].pc \notin {"ask", "done"} => call[c].tool
  /\ call[c].pc # "rows" => call[c].page = {}
  /\ call[c].pc \in {"idle", "walk", "attachments"} => call[c].owed = {}
  /\ \A x \in call[c].owed \ call[c].seen :
       call[c].pc \in {"ask", "rows", "count"} /\ (x \in call[c].page \/ ToCome(c, x))

PagingInv == \A c \in Callers : PagingOf(c)

\* A mail to come, before and after a step that leaves the call's query alone.
LEMMA ToComeNext ==
  ASSUME NEW c \in Callers, NEW tool, tool = call[c].tool, tool = call'[c].tool, NEW x
  PROVE  /\ ToCome(c, x) <=> x \in Matching(tool) /\ Rank(x, Matching(tool)) >= NextOffset(c)
         /\ ToCome(c, x)' <=> /\ x \in Matching(tool)'
                              /\ Rank(x, Matching(tool))' >= NextOffset(c)'
BY DEF ToCome

\* A step that leaves the call alone, and takes no mail from the table.
LEMMA PagingKept ==
  ASSUME ReadTypeOK, ReadTypeOK', NEW c \in Callers, PagingOf(c),
         attr' = attr, rows \subseteq rows', call'[c] = call[c]
  PROVE  PagingOf(c)'
<1>0. PICK tool \in BOOLEAN : tool = call[c].tool /\ tool = call'[c].tool
  BY DEF ReadTypeOK, Call
<1>1. Matching(tool) \subseteq Matching(tool)' /\ Matching(tool)' \subseteq Mails
  BY DEF Matching, ReadTypeOK
<1>2. IsFiniteSet(Matching(tool)') /\ IsFiniteSet(Matching(tool))
  BY <1>1, ReadAssumption, FS_Subset
<1>3. ASSUME NEW x, ToCome(c, x) PROVE ToCome(c, x)'
  <2> DEFINE ms == Matching(tool)
             ns == Matching(tool)'
  <2>0. ms \subseteq ns /\ IsFiniteSet(ns) /\ IsFiniteSet(ms)
    BY <1>1, <1>2
  <2>1. Rank(x, ms) <= Rank(x, ns)
    <3> HIDE DEF ms, ns
    <3> QED BY <2>0, RankGrows
  <2>2. Rank(x, ms) \in Nat /\ Rank(x, ns) \in Nat
    <3> HIDE DEF ms, ns
    <3> QED BY <2>0, RankNat
  <2>3. Rank(x, Matching(tool))' = Rank(x, ns)
    BY DEF Rank, Before
  <2>4. NextOffset(c)' = NextOffset(c) /\ NextOffset(c) \in Nat
    BY ReadAssumption DEF NextOffset, ReadTypeOK, Call
  <2>5. x \in ns /\ Rank(x, ms) >= NextOffset(c)
    BY <1>0, <1>3, <2>0, ToComeNext
  <2>6. Rank(x, ns) >= NextOffset(c)
    <3> HIDE DEF ms, ns
    <3> QED BY <2>1, <2>2, <2>4, <2>5
  <2> QED BY <1>0, <2>3, <2>4, <2>5, <2>6, ToComeNext
<1> QED BY <1>3 DEF PagingOf

\* A deletion leaves what is still owed where it was.
LEMMA PagingDelete ==
  ASSUME ReadTypeOK, NEW c \in Callers, PagingOf(c), NEW m \in Mails, Delete(m)
  PROVE  PagingOf(c)'
<1>1. /\ call'[c].pc = call[c].pc /\ call'[c].tool = call[c].tool
      /\ call'[c].offset = call[c].offset
      /\ call'[c].page = call[c].page /\ call'[c].seen = call[c].seen
      /\ call'[c].owed = {x \in call[c].owed \ {m} : ~ Before(m, x)}
  BY DeleteKeepsRest
<1>2. PICK tool \in BOOLEAN : tool = call[c].tool /\ tool = call'[c].tool
  BY <1>1 DEF ReadTypeOK, Call
<1> DEFINE ms == Matching(tool)
           ns == Matching(tool)'
<1>3. ns = ms \ {m} /\ ms \subseteq Mails
  BY DEF Matching, Delete, ReadTypeOK
<1>4. attr' = attr
  BY DEF Delete
<1>5. ASSUME NEW x, x # m, ~ Before(m, x), ToCome(c, x) PROVE ToCome(c, x)'
  <2>1. {y \in ns : Before(y, x)} = {y \in ms : Before(y, x)}
    BY <1>3, <1>5
  <2>2. Rank(x, Matching(tool))' = Rank(x, ms)
    BY <1>4, <2>1 DEF Rank, Before
  <2>3. NextOffset(c)' = NextOffset(c)
    BY <1>1 DEF NextOffset
  <2> QED BY <1>2, <1>3, <1>5, <2>2, <2>3, ToComeNext
<1> HIDE DEF ms, ns
<1> QED BY <1>1, <1>5 DEF PagingOf

\* A page of the query command: a NULL date ends the paging, a page that is not
\* full is the last, and after a full page the mails to come are behind it.
LEMMA PagingQuery ==
  ASSUME ReadTypeOK, NEW c \in Callers, PagingOf(c), QueryCommand(c)
  PROVE  PagingOf(c)'
<1> DEFINE ms   == Matching(FALSE)
           page == Page(FALSE, call[c].offset)
<1>0. FALSE \in BOOLEAN /\ Limit \in Nat \ {0}
  BY ReadAssumption
<1>1. /\ call[c].pc = "ask" /\ call[c].tool = FALSE /\ UNCHANGED <<attr, rows>>
      /\ call[c] \in Call /\ call[c].offset \in Nat /\ call[c].page = {}
  BY DEF QueryCommand, PagingOf, ReadTypeOK, Call
<1>2. ms \subseteq Mails /\ IsFiniteSet(ms)
  BY ReadAssumption, FS_Subset DEF Matching, ReadTypeOK
<1>3. \A x \in ms : Rank(x, ms) \in Nat
  <2> HIDE DEF ms
  <2> QED BY <1>2, RankNat
<1>4. \A x : ToCome(c, x) => x \in ms /\ Rank(x, ms) >= call[c].offset
  <2>1. NextOffset(c) = call[c].offset
    BY <1>0, <1>1 DEF NextOffset
  <2> HIDE DEF ms
  <2>2. \A x : ToCome(c, x) <=> x \in ms /\ Rank(x, ms) >= NextOffset(c)
    BY <1>1 DEF ToCome, ms
  <2> QED BY <2>1, <2>2
<1>5. page = {x \in ms : call[c].offset <= Rank(x, ms) /\ Rank(x, ms) < call[c].offset + Limit}
  BY DEF Page
<1>6. ms' = ms /\ \A x : Rank(x, Matching(FALSE))' = Rank(x, ms)
  BY <1>1 DEF Matching, Rank, Before
<1>7. CASE call' = [call EXCEPT ![c].pc = "done", ![c].owed = {}]
  <2>1. call'[c].pc = "done" /\ call'[c].page = {} /\ call'[c].owed = {}
    BY <1>1, <1>7 DEF ReadTypeOK, Call
  <2> QED BY <2>1 DEF PagingOf
<1>8. CASE /\ Cardinality(page) < Limit
           /\ call' = [call EXCEPT ![c].pc = "done", ![c].seen = @ \cup page]
  <2>1. \A x \in ms : Rank(x, ms) < call[c].offset + Limit
    BY <1>0, <1>1, <1>8, ShortPageIsLast
  <2>2. \A x : ToCome(c, x) => x \in page
    <3> HIDE DEF ms, page
    <3> QED BY <1>3, <1>4, <1>5, <2>1, <1>1
  <2> HIDE DEF ms, page
  <2>3. /\ call'[c].pc = "done" /\ call'[c].page = {} /\ call'[c].owed = call[c].owed
        /\ call'[c].seen = call[c].seen \cup page
    BY <1>1, <1>8 DEF ReadTypeOK, Call
  <2> QED BY <1>1, <2>2, <2>3 DEF PagingOf
<1>9. CASE call' = [call EXCEPT ![c].offset = @ + Limit, ![c].seen = @ \cup page]
  <2> HIDE DEF page
  <2>1. /\ call'[c].pc = "ask" /\ call'[c].tool = FALSE /\ call'[c].page = {}
        /\ call'[c].owed = call[c].owed /\ call'[c].seen = call[c].seen \cup page
        /\ call'[c].offset = call[c].offset + Limit
    BY <1>1, <1>9 DEF ReadTypeOK, Call
  <2>2. NextOffset(c)' = call[c].offset + Limit
    BY <1>0, <1>1, <2>1 DEF NextOffset
  <2>3. ASSUME NEW x, ToCome(c, x) PROVE x \in page \/ ToCome(c, x)'
    <3>1. x \in ms /\ Rank(x, ms) \in Nat /\ Rank(x, ms) >= call[c].offset
      BY <1>3, <1>4, <2>3
    <3>2. x \in page \/ Rank(x, ms) >= call[c].offset + Limit
      <4> HIDE DEF ms
      <4> QED BY <1>0, <1>1, <1>5, <3>1
    <3>3. x \in page \/ (x \in Matching(FALSE)' /\ Rank(x, Matching(FALSE))' >= NextOffset(c)')
      BY <1>6, <2>2, <3>1, <3>2
    <3> QED BY <1>1, <2>1, <3>3, ToComeNext
  <2> QED BY <1>1, <2>1, <2>3 DEF PagingOf
<1> QED BY <1>7, <1>8, <1>9, Zenon DEF QueryCommand

LEMMA PagingStep ==
  ReadTypeOK /\ ReadTypeOK' /\ PagingInv /\ [ReadNext]_readVars => PagingInv'
<1> SUFFICES ASSUME ReadTypeOK, ReadTypeOK', PagingInv, [ReadNext]_readVars,
                    NEW c \in Callers
             PROVE  PagingOf(c)'
  BY DEF PagingInv
<1> USE ReadAssumption
<1>a. call[c] \in Call /\ call \in [Callers -> Call] /\ PagingOf(c)
  BY DEF ReadTypeOK, PagingInv
<1>b. call[c].offset \in Nat /\ Limit \in Nat
  BY <1>a DEF Call
<1>1. ASSUME NEW m \in Mails, Import(m) PROVE PagingOf(c)'
  BY <1>1, <1>a, PagingKept DEF Import
<1>2. ASSUME NEW m \in Mails, Delete(m) PROVE PagingOf(c)'
  BY <1>2, <1>a, PagingDelete
<1>3. ASSUME NEW d \in Callers, d # c, CallStep(d) \/ QueryFails(d)
             \/ (\E tool \in BOOLEAN : Begin(d, tool))
             \/ (\E m \in Mails : ThreadBegin(d, m) \/ Content(d, m))
      PROVE  PagingOf(c)'
  <2>1. UNCHANGED <<attr, rows>>
    BY <1>3 DEF CallStep, OpenPage, ReadPage, CountPage, QueryCommand, ThreadStep,
         ThreadEnd, ContentAttachments, QueryFails, Begin, ThreadBegin, Content
  <2>2. call'[c] = call[c]
    BY <1>3, <1>a DEF CallStep, OpenPage, ReadPage, CountPage, QueryCommand, ThreadStep,
         ThreadEnd, ContentAttachments, QueryFails, Begin, ThreadBegin, Content
  <2> QED BY <2>1, <2>2, <1>a, PagingKept
<1>4. ASSUME NEW tool \in BOOLEAN, Begin(c, tool) PROVE PagingOf(c)'
  <2>2. /\ UNCHANGED <<attr, rows>>
        /\ call'[c] = [NoCall EXCEPT !.pc = "ask", !.tool = tool, !.owed = Matching(tool)]
    BY <1>4, <1>a DEF Begin
  <2> DEFINE ms == Matching(tool)
  <2>3. /\ call'[c].pc = "ask" /\ call'[c].tool = tool /\ call'[c].offset = 0
        /\ call'[c].page = {} /\ call'[c].owed = ms
    BY <2>2 DEF NoCall
  <2>4. ms \subseteq Mails /\ IsFiniteSet(ms)
    BY FS_Subset DEF Matching, ReadTypeOK
  <2>5. ASSUME NEW x \in ms PROVE ToCome(c, x)'
    <3>1. Rank(x, ms) \in Nat
      <4> HIDE DEF ms
      <4> QED BY <2>4, RankNat
    <3>2. Matching(tool)' = ms /\ Rank(x, Matching(tool))' = Rank(x, ms)
      BY <2>2 DEF Matching, Rank, Before
    <3>3. NextOffset(c)' = 0
      BY <2>3 DEF NextOffset
    <3>4. Rank(x, ms) >= 0
      <4> HIDE DEF ms
      <4> QED BY <3>1
    <3>5. x \in Matching(tool)' /\ Rank(x, Matching(tool))' >= NextOffset(c)'
      BY <2>5, <3>2, <3>3, <3>4
    <3> QED BY <2>3, <3>5 DEF ToCome
  <2> HIDE DEF ms
  <2> QED BY <2>3, <2>5 DEF PagingOf
<1>5. CASE OpenPage(c)
  <2> DEFINE ms == Matching(TRUE)
             page == Page(TRUE, call[c].offset)
  <2>1. /\ UNCHANGED <<attr, rows>> /\ call[c].pc = "ask" /\ call[c].tool
        /\ call'[c] = [call[c] EXCEPT !.pc = "rows", !.page = page]
    BY <1>5, <1>a DEF OpenPage
  <2>0. TRUE = call[c].tool
    BY <2>1, <1>a, Zenon DEF Call
  <2>2. page = {x \in ms : call[c].offset <= Rank(x, ms) /\ Rank(x, ms) < call[c].offset + Limit}
    BY DEF Page
  <2>3. ms \subseteq Mails /\ IsFiniteSet(ms)
    BY FS_Subset DEF Matching, ReadTypeOK
  <2>4. ms' = ms /\ \A x : Rank(x, Matching(TRUE))' = Rank(x, ms)
    BY <2>1 DEF Matching, Rank, Before
  <2>5. \A x : ToCome(c, x) => x \in ms /\ Rank(x, ms) >= call[c].offset
    <3>1. NextOffset(c) = call[c].offset
      BY <2>1, <1>b DEF NextOffset
    <3>2. \A x : ToCome(c, x) <=> x \in ms /\ Rank(x, ms) >= NextOffset(c)
      BY <2>0 DEF ToCome
    <3> QED BY <3>1, <3>2
  <2>6. \A x \in ms : Rank(x, ms) \in Nat
    <3> HIDE DEF ms
    <3> QED BY <2>3, RankNat
  <2> HIDE DEF page
  <2>7. /\ call'[c].pc = "rows" /\ call'[c].tool = call[c].tool
        /\ call'[c].offset = call[c].offset /\ call'[c].page = page
        /\ call'[c].owed = call[c].owed /\ call'[c].seen = call[c].seen
    BY ZenonT(40), <2>1, <1>a DEF Call
  <2>8. NextOffset(c)' = call[c].offset + Limit
    BY <2>7 DEF NextOffset
  <2>9. ASSUME NEW x, ToCome(c, x) PROVE x \in page \/ ToCome(c, x)'
    <3>1. x \in ms /\ Rank(x, ms) \in Nat /\ Rank(x, ms) >= call[c].offset
      BY <2>5, <2>6, <2>9
    <3>2. x \in page \/ Rank(x, ms) >= call[c].offset + Limit
      <4> HIDE DEF ms
      <4> QED BY <2>2, <3>1, <1>b
    <3>3. x \in page \/ (x \in Matching(TRUE)' /\ Rank(x, Matching(TRUE))' >= NextOffset(c)')
      BY <2>4, <2>8, <3>1, <3>2
    <3> QED BY <2>0, <2>7, <3>3, ToComeNext
  <2>10. call[c].page = {}
    BY <1>a, <2>1 DEF PagingOf
  <2> HIDE DEF ms
  <2> QED BY <1>a, <2>1, <2>7, <2>9, <2>10 DEF PagingOf
<1>6. CASE ReadPage(c)
  <2> PICK lost \in SUBSET call[c].page :
        call' = [call EXCEPT ![c].pc = "count", ![c].page = {},
                             ![c].seen = @ \cup (call[c].page \ lost),
                             ![c].owed = @ \ lost]
    BY <1>6 DEF ReadPage
  <2>1. /\ call'[c].pc = "count" /\ call'[c].tool = call[c].tool
        /\ call'[c].offset = call[c].offset /\ call'[c].page = {}
        /\ call'[c].owed = call[c].owed \ lost
        /\ call'[c].seen = call[c].seen \cup (call[c].page \ lost)
    BY <1>a DEF Call
  <2>2. UNCHANGED <<attr, rows>> /\ call[c].pc = "rows"
    BY <1>6 DEF ReadPage
  <2>3. \A x : ToCome(c, x)' <=> ToCome(c, x)
    BY <2>1, <2>2 DEF ToCome, NextOffset, Matching, Rank, Before
  <2> QED BY <1>a, <2>1, <2>2, <2>3 DEF PagingOf
<1>7. CASE CountPage(c)
  <2> DEFINE ms == Matching(TRUE)
             next == call[c].offset + Limit
  <2>1. UNCHANGED <<attr, rows>> /\ call[c].pc = "count"
    BY <1>7 DEF CountPage
  <2>2. CASE call' = [call EXCEPT ![c].pc = "done", ![c].owed = {}]
    <3>1. /\ call'[c].pc = "done" /\ call'[c].tool = call[c].tool
          /\ call'[c].page = call[c].page /\ call'[c].owed = {}
      BY <2>2, <1>a DEF Call
    <3> QED BY <1>a, <2>1, <3>1 DEF PagingOf
  <2>3. CASE call' = [call EXCEPT ![c].offset = next,
                                  ![c].pc = IF next < Cardinality(ms) THEN "ask" ELSE "done"]
    <3>0. TRUE = call[c].tool
      <4>1. call[c].tool \in BOOLEAN /\ call[c].tool
        BY <1>a, <2>1 DEF PagingOf, Call
      <4> QED BY <4>1, Zenon
    <3>1. /\ call'[c].pc = (IF next < Cardinality(ms) THEN "ask" ELSE "done")
          /\ call'[c].tool = call[c].tool /\ call'[c].offset = next
          /\ call'[c].page = call[c].page
          /\ call'[c].owed = call[c].owed /\ call'[c].seen = call[c].seen
      BY <2>3, <1>a DEF Call
    <3>2. ms \subseteq Mails /\ IsFiniteSet(ms)
      BY FS_Subset DEF Matching, ReadTypeOK
    <3>3. \A x \in ms : Rank(x, ms) \in Nat /\ Rank(x, ms) < Cardinality(ms)
      <4> HIDE DEF ms
      <4> QED BY <3>2, RankNat, RankBelowCount
    <3>4. Cardinality(ms) \in Nat
      BY <3>2, FS_CardinalityType
    <3>5. NextOffset(c) = next /\ next \in Nat
      BY <2>1, <1>b DEF NextOffset
    <3>6. ASSUME NEW x, ToCome(c, x) PROVE call'[c].pc = "ask" /\ ToCome(c, x)'
      <4>0. TRUE = call[c].tool /\ TRUE = call'[c].tool
        BY <3>0, <3>1
      <4>1. x \in ms /\ Rank(x, ms) >= next
        BY <3>5, <3>6, <4>0, ToComeNext
      <4>2. next < Cardinality(ms)
        <5> HIDE DEF ms, next
        <5> QED BY <3>3, <3>4, <3>5, <4>1
      <4>3. call'[c].pc = "ask"
        BY <3>1, <4>2
      <4>4. NextOffset(c)' = next
        <5>1. call'[c].offset = next /\ next \in Nat
          BY <3>1, <3>5
        <5> HIDE DEF ms, next
        <5> QED BY <5>1, <4>3 DEF NextOffset
      <4>5. ToCome(c, x)'
        <5>1. Matching(TRUE)' = ms /\ Rank(x, Matching(TRUE))' = Rank(x, ms)
          BY <2>1 DEF Matching, Rank, Before
        <5>2. x \in Matching(TRUE)' /\ Rank(x, Matching(TRUE))' >= NextOffset(c)'
          BY <4>1, <4>4, <5>1
        <5> QED BY <4>0, <5>2, ToComeNext
      <4> QED BY <4>3, <4>5
    <3>7. call[c].page = {}
      BY <1>a, <2>1 DEF PagingOf
    <3> HIDE DEF ms, next
    <3> QED BY <1>a, <3>1, <3>6, <3>7 DEF PagingOf
  <2> QED BY <1>7, <2>2, <2>3 DEF CountPage, TotalCount
<1>8. CASE QueryCommand(c)
  BY <1>8, <1>a, PagingQuery
<1>9. CASE ContentAttachments(c) \/ QueryFails(c) \/ ThreadEnd(c) \/ \E t \in Mails : ThreadStep(c, t)
  <2>1. call[c].pc \in {"ask", "walk", "attachments"} /\ call[c].page = {} /\ call[c].tool
    BY <1>9, <1>a DEF ContentAttachments, QueryFails, ThreadEnd, ThreadStep, PagingOf
  <2>2. call[c].pc # "ask" => call[c].owed = {}
    BY <1>a, <2>1 DEF PagingOf
  <2>3. /\ call'[c].tool = call[c].tool /\ call'[c].page = call[c].page
        /\ call'[c].owed = {} /\ call'[c].pc \in {"done", "walk"}
    <3>1. CASE ContentAttachments(c)
      BY <3>1, <1>a, <2>2 DEF ContentAttachments, Call
    <3>2. CASE QueryFails(c)
      BY <3>2, <1>a DEF QueryFails, Call
    <3>3. CASE ThreadEnd(c)
      BY <3>3, <1>a, <2>2 DEF ThreadEnd, Call
    <3>4. CASE \E t \in Mails : ThreadStep(c, t)
      BY <3>4, <1>a, <2>2 DEF ThreadStep, Call
    <3> QED BY <1>9, <3>1, <3>2, <3>3, <3>4
  <2> QED BY <2>1, <2>3 DEF PagingOf
<1>10. ASSUME NEW m \in Mails, ThreadBegin(c, m) \/ Content(c, m) PROVE PagingOf(c)'
  <2>1. /\ call'[c].pc \in {"walk", "attachments", "done"}
        /\ call'[c].tool /\ call'[c].page = {} /\ call'[c].owed = {}
    <3>1. CASE ThreadBegin(c, m)
      BY <3>1, <1>a DEF ThreadBegin, NoCall
    <3>2. CASE Content(c, m)
      BY <3>2, <1>a DEF Content, NoCall
    <3> QED BY <1>10, <3>1, <3>2
  <2> QED BY <2>1 DEF PagingOf
<1>11. CASE UNCHANGED readVars
  BY <1>11, <1>a, PagingKept DEF readVars
<1> QED
  BY <1>1, <1>2, <1>3, <1>4, <1>5, <1>6, <1>7, <1>8, <1>9, <1>10, <1>11 DEF ReadNext, CallStep

\* A caller that pages through a search, the recent activity or the query command
\* to its end has seen every mail it was owed, for any mails, page size and
\* interleaving of imports, deletions and failing reads (toCountQuery,
\* handleSearchEmails, querySearch).
THEOREM PagesMissNothing == ReadSpec => []PagingMissesNothing
<1>1. ReadInit => PagingInv
  BY DEF ReadInit, PagingInv, PagingOf, NoCall
<1>2. PagingInv => PagingMissesNothing
  BY DEF PagingInv, PagingOf, PagingMissesNothing
<1>3. ReadTypeOK /\ ReadTypeOK' /\ PagingInv /\ [ReadNext]_readVars => PagingInv'
  BY PagingStep
<1> QED BY <1>1, <1>2, <1>3, ReadTypes, PTL DEF ReadSpec
=============================================================================
