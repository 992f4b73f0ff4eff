----------------------------- MODULE MCBackfill -----------------------------
(***************************************************************************)
(* Backfill with two rows of an old build and one message that arrives, of *)
(* which the first has no Message-ID header, and batches of one row.       *)
(***************************************************************************)
EXTENDS Backfill, TLC

WithId    == Uids \ {1}
AllFaults == {"collect", "imap", "db", "crash"}
=============================================================================
