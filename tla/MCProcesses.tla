---------------------------- MODULE MCProcesses ----------------------------
(***************************************************************************)
(* Processes with one folder, two messages and files of three ages.        *)
(***************************************************************************)
EXTENDS Processes, TLC

CONSTANTS inbox, m1, m2, serve, command

Inbox    == {inbox}
TwoMsgs  == {m1, m2}
TwoProcs == {serve, command}
AllKinds == {"crash", "db", "imap"}

\* A new file, the first schema, and one that has the older columns.
Releases ==
  { {}, NamesOf(Tables), NamesOf(Tables) \cup {"uid_validity", "is_read", "is_replied"} }
=============================================================================
