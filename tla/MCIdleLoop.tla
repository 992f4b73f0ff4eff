----------------------------- MODULE MCIdleLoop -----------------------------
(***************************************************************************)
(* IdleLoop with one account, the rounds aside: two goroutines on the      *)
(* inbox (listed twice in "idle_folders") and one that polls the archive.  *)
(***************************************************************************)
EXTENDS IdleLoop, TLC

CONSTANTS e1, i1, inbox, archive, c1, c2, c3

OneEntry   == {e1}
OneId      == {i1}
TwoFolders == {inbox, archive}
ThreeCallers == {c1, c2, c3}

IdOfEntry == [e \in Entries |-> i1]
InboxList == [e \in Entries |-> <<inbox>>]

CallersEntry  == [c \in Callers |-> e1]
CallersFolder == [c \in Callers |-> IF c = c3 THEN archive ELSE inbox]

Capable == {c1, c2}

PanicFaults == {"panic"}
=============================================================================
