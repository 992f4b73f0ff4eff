----------------------------- MODULE ReadTools -----------------------------
(***************************************************************************)
(* The handlers that only read: search_emails and get_recent_activity page *)
(* by page, get_thread, get_email_content, and the "query" command, beside *)
(* imports and deletions.                                                  *)
(*                                                                         *)
(* The handlers share the one connection of the pool (db.Open): a cursor   *)
(* keeps it until its last row.  "query" is a process of its own.  What a  *)
(* caller filters by is one attribute of a mail, match; what is copied     *)
(* into an answer is not modelled.                                         *)
(***************************************************************************)
EXTENDS Naturals, FiniteSets

CONSTANTS
  Mails,      \* the rows there may be, numbers in the order of their rowids
  Attributes, \* what a row may be: see Attribute
  Null,       \* SQL NULL
  Blank,      \* the empty string the backfill writes
  Callers,    \* the calls
  Tools,      \* what each of them may be: [Callers -> SUBSET ToolNames]
  Nobody,     \* no caller
  Limit,      \* rows of a page
  MaxErrors   \* bound on reads that fail half way

ToolNames == {"page", "query", "thread", "content"}

ASSUME ReadAssumption ==
  /\ Mails \subseteq Nat /\ IsFiniteSet(Mails) /\ Mails # {}
  /\ Limit \in Nat \ {0}
  /\ MaxErrors \in Nat
  /\ Nobody \notin Callers
  /\ Tools \in [Callers -> SUBSET ToolNames]
  /\ \A a \in Attributes : a.date \in Nat

VARIABLES
  attr,     \* attr[m]: [date, match, trash, msgid, reply]; date 0 is NULL
  rows,     \* mail_entries
  coming,   \* mails that are still to be imported
  conn,     \* who has the connection
  call,     \* call[c]
  errors    \* reads that failed so far

readVars == <<attr, rows, coming, conn, call, errors>>

Pcs == {"idle", "ask", "rows", "count", "walk", "attachments", "done"}

Call ==
  [pc     : Pcs,
   tool   : BOOLEAN,            \* an MCP tool; otherwise the query command
   offset : Nat,
   page   : SUBSET Mails,       \* rows of the open cursor
   seen   : SUBSET Mails,       \* all the caller was shown
   owed   : SUBSET Mails,       \* what it is to be shown (history)
   start  : Mails,              \* get_thread: the mail asked for
   found  : SUBSET Mails,       \* the CTE's rows ...
   queue  : SUBSET Mails]       \* ... and those whose links are still to follow

NoCall ==
  [pc |-> "idle", tool |-> TRUE, offset |-> 0, page |-> {}, seen |-> {}, owed |-> {},
   start |-> CHOOSE m \in Mails : TRUE, found |-> {}, queue |-> {}]

ReadTypeOK ==
  /\ attr \in [Mails -> Attributes]
  /\ rows \subseteq Mails
  /\ coming \subseteq Mails \ rows
  /\ conn \in Callers \cup {Nobody}
  /\ call \in [Callers -> Call]
  /\ errors \in 0..MaxErrors
  /\ \A c \in Callers : conn = c <=> call[c].pc \in {"rows", "walk"}

ReadInit ==
  /\ attr \in [Mails -> Attributes]
  /\ rows \in SUBSET Mails
  /\ coming = Mails \ rows
  /\ conn = Nobody
  /\ call = [c \in Callers |-> NoCall]
  /\ errors = 0

-----------------------------------------------------------------------------
\* The writers take the connection for one statement or one transaction.
Import(m) ==
  /\ conn = Nobody
  /\ m \in coming
  /\ rows' = rows \cup {m}
  /\ coming' = coming \ {m}
  /\ UNCHANGED <<attr, conn, call, errors>>

\* ORDER BY date_utc DESC NULLS LAST; rows of one date in the order of the index.
Before(a, b) ==
  \/ attr[a].date > attr[b].date
  \/ attr[a].date = attr[b].date /\ a < b

\* A row that goes moves those behind it one place up, past a caller's offset:
\* they are not owed any more.
Delete(m) ==
  /\ conn = Nobody
  /\ m \in rows
  /\ rows' = rows \ {m}
  /\ call' = [c \in Callers |->
                [call[c] EXCEPT !.owed = {x \in @ \ {m} : ~ Before(m, x)}]]
  /\ UNCHANGED <<attr, coming, conn, errors>>

-----------------------------------------------------------------------------
\* buildSearchQuery and applyTrashExclusions; the command excludes nothing.
Matching(tool) == {m \in rows : attr[m].match /\ (tool => ~ attr[m].trash)}

Rank(m, ms) == Cardinality({x \in ms : Before(x, m)})

\* LIMIT ? OFFSET ?
Page(tool, offset) ==
  LET ms == Matching(tool)
  IN  {m \in ms : offset <= Rank(m, ms) /\ Rank(m, ms) < offset + Limit}

\* A caller begins to page through a query.
Begin(c, tool) ==
  /\ call[c].pc = "idle"
  /\ (IF tool THEN "page" ELSE "query") \in Tools[c]
  /\ call' = [call EXCEPT ![c] = [NoCall EXCEPT !.pc = "ask", !.tool = tool,
                                                !.owed = Matching(tool)]]
  /\ UNCHANGED <<attr, rows, coming, conn, errors>>

\* QueryContext: the cursor is open, and has the connection.
OpenPage(c) ==
  /\ call[c].pc = "ask" /\ call[c].tool
  /\ conn = Nobody
  /\ conn' = c
  /\ call' = [call EXCEPT ![c].pc = "rows", ![c].page = Page(TRUE, call[c].offset)]
  /\ UNCHANGED <<attr, rows, coming, errors>>

\* Mutant: the connection is kept until the handler returns (the deferred Close).
Deferred(c) == c

\* rows.Next has returned false: the cursor closes itself.
AfterLastRow(c) == Nobody

\* The rows are read.  One that does not scan is skipped, an error ends the loop;
\* both are only logged, and what was read is the page.
ReadPage(c) ==
  /\ call[c].pc = "rows"
  /\ conn' = AfterLastRow(c)
  /\ \E lost \in SUBSET call[c].page :
       /\ lost # {} => errors < MaxErrors
       /\ errors' = errors + (IF lost = {} THEN 0 ELSE 1)
       /\ call' = [call EXCEPT ![c].pc = "count", ![c].page = {},
                               ![c].seen = @ \cup (call[c].page \ lost),
                               ![c].owed = @ \ lost]
  /\ UNCHANGED <<attr, rows, coming>>

\* Mutant: the count is taken over the page (LIMIT is not stripped).
CountOfPage(c) == Cardinality(Page(TRUE, call[c].offset))

\* toCountQuery: the same conditions without order and limit.
TotalCount(c) == Cardinality(Matching(TRUE))

\* The second statement, and the answer; the caller asks on while total_count says
\* there is more.  A failing count is logged and 0 reported.
CountPage(c) ==
  /\ call[c].pc = "count"
  /\ conn = Nobody
  /\ LET next == call[c].offset + Limit
     IN  \/ /\ call' = [call EXCEPT ![c].offset = next,
                                    ![c].pc = IF next < TotalCount(c) THEN "ask" ELSE "done"]
            /\ UNCHANGED errors
         \/ /\ errors < MaxErrors
            /\ errors' = errors + 1
            /\ call' = [call EXCEPT ![c].pc = "done", ![c].owed = {}]
  /\ UNCHANGED <<attr, rows, coming, conn>>

\* The query command, a page a process: a NULL date ends it with an error and no
\* output.  A page that is not full is the last.
QueryCommand(c) ==
  LET page == Page(FALSE, call[c].offset)
  IN  /\ call[c].pc = "ask" /\ ~ call[c].tool
      /\ call' = IF \E m \in page : attr[m].date = 0
                   THEN [call EXCEPT ![c].pc = "done", ![c].owed = {}]
                 ELSE IF Cardinality(page) < Limit
                   THEN [call EXCEPT ![c].pc = "done", ![c].seen = @ \cup page]
                 ELSE [call EXCEPT ![c].offset = @ + Limit, ![c].seen = @ \cup page]
      /\ UNCHANGED <<attr, rows, coming, conn, errors>>

-----------------------------------------------------------------------------
\* The join of the recursive query: = is never true of NULL.
Joins(e, t) ==
  \/ attr[e].reply # Null /\ attr[e].reply = attr[t].msgid
  \/ attr[e].msgid # Null /\ attr[e].msgid = attr[t].reply

\* get_thread: the statement starts from the row asked for, if it is there.
ThreadBegin(c, m) ==
  /\ call[c].pc = "idle" /\ "thread" \in Tools[c]
  /\ conn = Nobody
  /\ conn' = c
  /\ call' = [call EXCEPT ![c] = [NoCall EXCEPT !.pc = "walk", !.start = m,
                                    !.found = {m} \cap rows, !.queue = {m} \cap rows]]
  /\ UNCHANGED <<attr, rows, coming, errors>>

\* Mutant: only the mails a mail replies to are followed.
AncestorsOf(t, found) ==
  {e \in rows \ found : attr[e].msgid # Null /\ attr[e].msgid = attr[t].reply}

\* The rows that join t and are not in the result (UNION).
NewFrom(t, found) == {e \in rows \ found : Joins(e, t)}

\* One row is taken from the queue.
ThreadStep(c, t) ==
  /\ call[c].pc = "walk"
  /\ t \in call[c].queue
  /\ LET new == NewFrom(t, call[c].found)
     IN  call' = [call EXCEPT ![c].found = @ \cup new,
                              ![c].queue = (@ \ {t}) \cup new]
  /\ UNCHANGED <<attr, rows, coming, conn, errors>>

\* The outer SELECT leaves out the trash.
ThreadEnd(c) ==
  /\ call[c].pc = "walk"
  /\ call[c].queue = {}
  /\ conn' = AfterLastRow(c)
  /\ call' = [call EXCEPT ![c].pc = "done",
                          ![c].seen = {m \in call[c].found : ~ attr[m].trash}]
  /\ UNCHANGED <<attr, rows, coming, errors>>

-----------------------------------------------------------------------------
\* get_email_content: the row, whatever its folder ...
Content(c, m) ==
  /\ call[c].pc = "idle" /\ "content" \in Tools[c]
  /\ conn = Nobody
  /\ call' = [call EXCEPT ![c] = [NoCall EXCEPT !.pc = IF m \in rows THEN "attachments" ELSE "done",
                                                !.seen = {m} \cap rows]]
  /\ UNCHANGED <<attr, rows, coming, conn, errors>>

\* ... and its attachments, with a second statement.
ContentAttachments(c) ==
  /\ call[c].pc = "attachments"
  /\ conn = Nobody
  /\ call' = [call EXCEPT ![c].pc = "done"]
  /\ UNCHANGED <<attr, rows, coming, conn, errors>>

\* QueryContext returns an error, which is the answer.
QueryFails(c) ==
  /\ call[c].pc \in {"ask", "walk"} /\ call[c].tool
  /\ errors < MaxErrors
  /\ errors' = errors + 1
  /\ conn' = IF conn = c THEN Nobody ELSE conn
  /\ call' = [call EXCEPT ![c].pc = "done", ![c].owed = {}]
  /\ UNCHANGED <<attr, rows, coming>>

-----------------------------------------------------------------------------
\* A call that was made goes on.
CallStep(c) ==
  \/ OpenPage(c) \/ ReadPage(c) \/ CountPage(c) \/ QueryCommand(c)
  \/ \E t \in Mails : ThreadStep(c, t)
  \/ ThreadEnd(c)
  \/ ContentAttachments(c)

ReadNext ==
  \/ \E m \in Mails : Import(m) \/ Delete(m)
  \/ \E c \in Callers :
       \/ \E tool \in BOOLEAN : Begin(c, tool)
       \/ \E m \in Mails : ThreadBegin(c, m) \/ Content(c, m)
       \/ CallStep(c) \/ QueryFails(c)

ReadSpec == ReadInit /\ [][ReadNext]_readVars

\* database/sql gives a free connection to any of those who wait for it.
ReadFairSpec == ReadSpec /\ \A c \in Callers : SF_readVars(CallStep(c))

-----------------------------------------------------------------------------
\* A caller that follows offset and total_count (or the length of the page) to the
\* end has seen every mail that matched when it began, whatever was imported
\* between two pages, or between a page and its count; only deletions before it in
\* the order, and reads that failed, can hide one (handleSearchEmails,
\* handleGetRecentActivity, toCountQuery, querySearch).
PagingMissesNothing ==
  \A c \in Callers : call[c].pc = "done" => call[c].owed \subseteq call[c].seen

Closed(ms) == \A t \in ms : \A e \in rows : Joins(e, t) => e \in ms

\* get_thread finds the mail and all that is linked to it through any number of
\* others, those in the trash included, and nothing else: the result of the
\* recursive query is the least closed set with the mail in it (handleGetThread).
ThreadIsComponent ==
  \A c \in Callers : call[c].pc = "walk" /\ call[c].queue = {} =>
    /\ Closed(call[c].found)
    /\ call[c].start \in rows => call[c].start \in call[c].found
    /\ \A ms \in SUBSET rows : call[c].start \in ms /\ Closed(ms) => call[c].found \subseteq ms

\* Two mails are in one thread through headers they really have.
Replies(e, t) ==
  \/ attr[e].reply \notin {Null, Blank} /\ attr[e].reply = attr[t].msgid
  \/ attr[e].msgid \notin {Null, Blank} /\ attr[e].msgid = attr[t].reply

\* A thread has only mails of the conversation: whatever set of mails has the one
\* asked for and every reply to and from its members has the whole result
\* (handleGetThread beside backfillEnvelope).
ThreadHasNoStrangers ==
  \A c \in Callers : call[c].pc = "walk" =>
    \A ms \in SUBSET rows :
      /\ call[c].start \in ms
      /\ \A t \in ms : \A e \in rows : Replies(e, t) => e \in ms
      => call[c].found \subseteq ms

\* Every call is answered: no handler waits for the connection it holds, or for one
\* that is never given back (db.Open, SetMaxOpenConns(1)).
CallsReturn ==
  \A c \in Callers : (call[c].pc # "idle") ~> (call[c].pc = "done")
=============================================================================
