---------------------------- MODULE MCReadTools ----------------------------
(***************************************************************************)
(* ReadTools with three mails and two calls.                               *)
(***************************************************************************)
EXTENDS ReadTools, TLC

CONSTANTS a, b, c1, c2

ThreeMails == 1..3
TwoCalls   == {c1, c2}
OneCall    == {c1}
AnyTool    == c1 :> ToolNames @@ c2 :> {"content"}
ThreadOnly == c1 :> {"thread"}

Mail(date, match, trash, msgid, reply) ==
  [date |-> date, match |-> match, trash |-> trash, msgid |-> msgid, reply |-> reply]

\* The first of a thread, its answer, and an answer to that in the trash, which
\* has no date.
Thread ==
  { Mail(1, TRUE,  FALSE, a,    Null),
    Mail(2, TRUE,  FALSE, b,    a),
    Mail(0, TRUE,  TRUE,  Null, b) }

\* Rows after a backfill: blank instead of NULL.
Backfilled ==
  { Mail(1, TRUE, FALSE, a,     Blank),
    Mail(2, TRUE, FALSE, Blank, a),
    Mail(2, TRUE, FALSE, b,     Null),
    Mail(3, TRUE, FALSE, Blank, Blank) }
=============================================================================
