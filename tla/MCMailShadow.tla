---------------------------- MODULE MCMailShadow ----------------------------
(***************************************************************************)
(* MailShadow on small instances: an inbox, and a trash folder that is     *)
(* itself synced or not.                                                   *)
(***************************************************************************)
EXTENDS MailShadowInv, TLC

CONSTANTS inbox, trash, m1, m2, d1, d2

InboxAndTrash == {inbox, trash}
InboxOnly     == {inbox}
TwoMsgs       == {m1, m2}
NoCall        == {}
OneCall       == {d1}
TwoCalls      == {d1, d2}

NoFaults      == {}
ImapFaults    == {"imap"}
AllFaults     == {"crash", "imap", "collect", "db"}

\* Messages are told apart only by equality, and so are calls.
Symmetry == Permutations(Msgs) \cup Permutations(Deleters)
=============================================================================
